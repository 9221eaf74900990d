------------------------------ MODULE CxxBackend ------------------------------
(***************************************************************************)
(* The C++ backend (src/backends/cxx/CxxBackend.cpp): it walks the lowered *)
(* program and writes the generated text through the emitter.              *)
(*                                                                         *)
(* One step emits one child of the program, or one child of the function   *)
(* being emitted.  A source byte stands for the token it belongs to, or    *)
(* for trivia; generated text is kept as the words and the punctuation     *)
(* that meet the words of the source.                                      *)
(***************************************************************************)
EXTENDS GeneratedOutput, TLC

VARIABLES
  tokens,
  program,        \* children of the ir::Program
  emission,       \* "support", "emitting", "inFunction", "generated" or "failed"
  child,          \* the node being emitted
  bodyChild,      \* the child of the function being emitted
  emitter,        \* emitter_
  activeFunction, \* active_function_: <<>> or <<function>>
  backendErrors   \* diagnostics emitted by the backend

backendVars == <<emission, emitter, activeFunction, backendErrors>>
vars == <<tokens, program, backendVars, child, bodyChild>>

\* CxxBackend::reset.
Init ==
  /\ emission = "support"
  /\ emitter = EmptyEmitter
  /\ activeFunction = <<>>
  /\ backendErrors = <<>>

-----------------------------------------------------------------------------
(* Text.                                                                   *)

Trivia == " "

\* What stands at one byte of the source.
SourceUnit(offset) ==
  LET at == {i \in 1..Len(tokens) : tokens[i].begin <= offset /\ offset < tokens[i].end}
  IN  IF at = {} THEN Trivia ELSE tokens[Min(at)].text

\* source_text.
SourceText(range) ==
  [i \in 1..(range.end - range.begin) |-> SourceUnit(range.begin + i - 1)]

\* One call of emitter_.write: source text mapped to itself, source text that
\* is only quoted, generated text mapped to a range, and unmapped text.
Copied(range) == [text |-> SourceText(range), original |-> range]
Quoted(range) == [text |-> SourceText(range), original |-> NoRange]
Generated(words, range) == [text |-> words, original |-> range]
Glue(words) == [text |-> words, original |-> NoRange]

\* "vixc_generated" and what follows it in a use of the class template.
OutcomeOf == <<"vixc_generated", "::Outcome<">>
ReturnOutcome == <<"return", " ">> \o OutcomeOf

SyntheticName(id) == "__vixc_outcome_" \o ToString(id)

\* Generated units that start and end with something other than a word.
GeneratedPunctuation ==
  {Trivia, "::Outcome<", ">", "\n", ">::success(", ">::failure(", ", ", " = ", ";\nif (!",
   ".has_value())\n{\n  return ", ">::failure(std::move(", ").take_error());\n}\n",
   " = std::move(", ").take_value();", "#include <utility> ...}\n\n"}

-----------------------------------------------------------------------------
(* Nodes: the writes, and the errors reported instead.                     *)

Emitted(pieces) == [pieces |-> pieces, errors |-> <<>>]
Refused(code) == [pieces |-> <<>>, errors |-> <<code>>]

\* Mutated form: the failure type stands for both.
SuccessTypeOfFailure == Quoted(activeFunction[1].outcome.failureType)

SuccessType == Quoted(activeFunction[1].successType)
FailureType == Quoted(activeFunction[1].outcome.failureType)

\* emit_return and emit_failure differ in the factory they call.
EmitOutcome(node, factory) ==
  Emitted(<<Generated(ReturnOutcome, node.range), SuccessType, Glue(<<", ">>), FailureType,
            Glue(<<factory>>), Copied(node.operand.range),
            Generated(<<")", ";">>, node.range)>>)

\* Mutated form: the operand is evaluated a second time for its value.
EmitTryInitializationTwice(node) ==
  LET name == SyntheticName(node.syntheticId)
      operand == node.propagation.operand.range
  IN  Emitted(<<Generated(<<"auto", " ", name, " = ">>, node.range), Copied(operand),
                Glue(<<";\nif (!", name, ".has_value())\n{\n  return ">> \o OutcomeOf),
                SuccessType, Glue(<<", ">>), FailureType,
                Glue(<<">::failure(std::move(", name, ").take_error());\n}\n">>),
                Copied(node.declaration), Generated(<<" = ">>, node.range), Copied(operand),
                Generated(<<").take_value();">>, node.range)>>)

\* emit_try_initialization.
EmitTryInitialization(node) ==
  LET name == SyntheticName(node.syntheticId)
  IN  Emitted(<<Generated(<<"auto", " ", name, " = ">>, node.range),
                Copied(node.propagation.operand.range),
                Glue(<<";\nif (!", name, ".has_value())\n{\n  return ">> \o OutcomeOf),
                SuccessType, Glue(<<", ">>), FailureType,
                Glue(<<">::failure(std::move(", name, ").take_error());\n}\n">>),
                Copied(node.declaration),
                Generated(<<" = std::move(", name, ").take_value();">>, node.range)>>)

\* Mutated form: a propagation is written like the C++ around it.
EmitPropagationVerbatim(node) == Emitted(<<Copied(node.range)>>)

\* emit_failure_propagation.
EmitPropagation(node) == Refused("VIXC4016")

\* emit_node, for everything but a function.
Emit(node) ==
  CASE node.kind = "CxxRegion"          -> Emitted(<<Copied(node.range)>>)
    [] node.kind = "Outcome"            -> Emitted(<<>>)
    [] node.kind = "FailurePropagation" -> EmitPropagation(node)
    [] node.kind = "Return" ->
         IF activeFunction = <<>> THEN Refused("VIXC4021") ELSE EmitOutcome(node, ">::success(")
    [] node.kind = "Failure" ->
         IF activeFunction = <<>> \/ ~activeFunction[1].lowered
         THEN Refused("VIXC4013")
         ELSE EmitOutcome(node, ">::failure(")
    [] node.kind = "TryInitialization" ->
         IF activeFunction = <<>> \/ "syntheticId" \notin DOMAIN node
         THEN Refused("VIXC4022")
         ELSE EmitTryInitialization(node)

\* emit_failure_aware_function before its children.
EmitHeader(f) ==
  IF ~f.lowered THEN Refused("VIXC4013")
  ELSE Emitted(<<Glue(OutcomeOf), Copied(f.successType), Glue(<<", ">>),
                 Copied(f.outcome.failureType), Glue(<<">", "\n">>), Copied(f.declarator)>>)

-----------------------------------------------------------------------------
WriteAll(emitted) ==
  /\ emitter' = FoldLeft(LAMBDA e, piece : Write(e, piece.text, piece.original),
                         emitter, emitted.pieces)
  /\ backendErrors' = backendErrors \o emitted.errors

\* requires_outcome_support and emit_outcome_support.
EmitSupport ==
  /\ emission = "support"
  /\ LET support == IF \E f \in ToSet(program) : f.kind = "FailureAwareFunction" /\ f.lowered
                    THEN <<Glue(<<"#include <utility> ...}\n\n">>)>>
                    ELSE <<>>
     IN  WriteAll(Emitted(support))
  /\ emission' = "emitting"
  /\ UNCHANGED <<tokens, program, child, bodyChild, activeFunction>>

EmitTopLevel ==
  /\ emission = "emitting" /\ child <= Len(program)
  /\ program[child].kind # "FailureAwareFunction"
  /\ \E emitted \in {Emit(program[child])} : WriteAll(emitted)
  /\ child' = child + 1
  /\ UNCHANGED <<tokens, program, emission, bodyChild, activeFunction>>

EnterFunction ==
  /\ emission = "emitting" /\ child <= Len(program)
  /\ program[child].kind = "FailureAwareFunction"
  /\ \E emitted \in {EmitHeader(program[child])} :
       /\ WriteAll(emitted)
       /\ IF emitted.errors # <<>>
          THEN child' = child + 1 /\ UNCHANGED <<emission, activeFunction, bodyChild>>
          ELSE /\ activeFunction' = <<program[child]>>
               /\ emission' = "inFunction"
               /\ bodyChild' = 1
               /\ UNCHANGED child
  /\ UNCHANGED <<tokens, program>>

EmitBodyChild ==
  /\ emission = "inFunction" /\ bodyChild <= Len(program[child].children)
  /\ \E emitted \in {Emit(program[child].children[bodyChild])} : WriteAll(emitted)
  /\ bodyChild' = bodyChild + 1
  /\ UNCHANGED <<tokens, program, emission, child, activeFunction>>

LeaveFunction ==
  /\ emission = "inFunction" /\ bodyChild > Len(program[child].children)
  /\ activeFunction' = <<>>
  /\ emission' = "emitting"
  /\ child' = child + 1
  /\ UNCHANGED <<tokens, program, bodyChild, emitter, backendErrors>>

FinishEmission ==
  /\ emission = "emitting" /\ child > Len(program)
  /\ emission' = IF backendErrors = <<>> THEN "generated" ELSE "failed"
  /\ child' = 1
  /\ UNCHANGED <<tokens, program, bodyChild, emitter, activeFunction, backendErrors>>

Next ==
  \/ EmitSupport \/ EmitTopLevel \/ EnterFunction \/ EmitBodyChild \/ LeaveFunction
  \/ FinishEmission

-----------------------------------------------------------------------------
(* Properties.                                                             *)

Generates == emission = "generated"

\* The output positions the source map traces to one token, byte by byte.
CopiesOf(index) ==
  {at \in (1..Len(emitter.sourceMap)) \X (1..Len(emitter.output)) :
     LET entry == emitter.sourceMap[at[1]]
         offset == at[2]
     IN  /\ Covers(entry, offset - 1)
         /\ entry.end - entry.begin = entry.original.end - entry.original.begin
         /\ offset - 1 - entry.begin = tokens[index].begin - entry.original.begin
         /\ emitter.output[offset] = tokens[index].text}

TokensIn(range) ==
  {i \in 1..Len(tokens)-1 : Within([begin |-> tokens[i].begin, end |-> tokens[i].end], range)}

\* What a construct spends: its keyword, the `=` of a try initialization and
\* the semicolon; a `fails` inside a function body spends its type as well.
SpentBy(node) ==
  CASE node.kind \in {"Return", "Failure"} -> TokensIn(node.range) \ TokensIn(node.operand.range)
    [] node.kind = "TryInitialization" ->
         (TokensIn(node.range) \ TokensIn(node.declaration))
           \ TokensIn(node.propagation.operand.range)
    [] node.kind = "Outcome" -> TokensIn(node.range)
    [] node.kind = "FailureAwareFunction" ->
         TokensIn(node.outcome.range) \ TokensIn(node.outcome.failureType)
    [] OTHER -> {}

EmittedFunctions == {node \in ToSet(program) : node.kind = "FailureAwareFunction"}

EmittedNodes == ToSet(program) \cup UNION {ToSet(f.children) : f \in EmittedFunctions}

(***************************************************************************)
(* Every token of the source but the ones a construct spends is in the     *)
(* output exactly once as far as the source map tells, so no expression is *)
(* lost or evaluated twice, and a C++ compiler's position in it is traced  *)
(* to the very token.                                                      *)
(***************************************************************************)
TokensAreCopiedOnce ==
  Generates =>
    \A i \in 1..Len(tokens)-1 :
      i \notin UNION {SpentBy(node) : node \in EmittedNodes} => Cardinality(CopiesOf(i)) = 1

\* The ranges the program keeps as opaque C++.
OpaqueRanges ==
  {node.range : node \in {n \in EmittedNodes : n.kind = "CxxRegion"}}
  \cup {node.operand.range : node \in {n \in EmittedNodes : n.kind \in {"Return", "Failure"}}}
  \cup {node.propagation.operand.range :
          node \in {n \in EmittedNodes : n.kind = "TryInitialization"}}
  \cup {f.outcome.failureType : f \in EmittedFunctions}

(***************************************************************************)
(* The backend writes no VixC of its own: a `fail`, `fails` or `try` in    *)
(* the generated text stands in a region that was opaque to the frontend.  *)
(***************************************************************************)
GeneratedIsCxx ==
  Generates =>
    \A i \in 1..Len(emitter.output) :
      emitter.output[i] \in {"fail", "fails", "try"} =>
        OriginalRangeFor(emitter.sourceMap, i - 1) \in OpaqueRanges

\* The types named by the Outcome that begins at one unit of the output.
OutcomeTypesAt(at) ==
  LET end == Min({i \in at..Len(emitter.output) :
                    emitter.output[i] \in {">", ">::success(", ">::failure(",
                                          ">::failure(std::move("}})
  IN  SubSeq(emitter.output, at + 2, end - 1)

OutcomesAt == {i \in 1..Len(emitter.output) : emitter.output[i] = "vixc_generated"}

\* A declaration's Outcome is copied from the source, those of its body are
\* quoted without a mapping.
DeclaredAt == {i \in OutcomesAt : OriginalRangeFor(emitter.sourceMap, i + 1) # NoRange}

(***************************************************************************)
(* Every way out of a generated function constructs the very Outcome the   *)
(* function is declared to return: active_function_ is the function around *)
(* the statement, also after functions that were refused or left.          *)
(***************************************************************************)
ExitsMatchTheirFunction ==
  Generates =>
    \A exit \in OutcomesAt \ DeclaredAt :
      LET above == {i \in DeclaredAt : i < exit}
      IN  above # {} /\ OutcomeTypesAt(exit) = OutcomeTypesAt(Max(above))

IsWord(unit) == unit \notin Punctuation \cup GeneratedPunctuation

(***************************************************************************)
(* README.md:7: vixc "emits ordinary C++ that can be compiled by GCC,      *)
(* Clang, or MSVC".  Words the source separates are separate words of the  *)
(* output.  A body region ends with its last token, without the trivia     *)
(* after it, and the generated text of a return, a fail or a try           *)
(* initialization starts with a word.                                      *)
(***************************************************************************)
WordsStaySeparate ==
  Generates =>
    \A i \in 1..Len(emitter.output)-1 :
      ~(IsWord(emitter.output[i]) /\ IsWord(emitter.output[i+1]))

=============================================================================
