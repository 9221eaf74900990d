------------------------------ MODULE Lowering ------------------------------
(***************************************************************************)
(* Lowering (src/lowering/LoweringPipeline.cpp, FailureLowering.cpp and    *)
(* LoweringContext.cpp).                                                   *)
(*                                                                         *)
(* One step lowers one node of the program, or one child of a function.    *)
(* The nodes the IR construction accepts are valid, so the only rule left  *)
(* is that a failure-aware function returns a value; what lowering adds is *)
(* the number of the C++ variable behind each try initialization.          *)
(***************************************************************************)
EXTENDS SyntaxTree, FiniteSetsExt

CONSTANT MentionedIds(_)  \* the numbers n with `__vixc_outcome_n` inside a word

VARIABLES
  tokens,
  program,          \* children of the ir::Program
  lowering,         \* "lowering", "numbering", "lowered" or "failed"
  child,            \* the node being lowered
  bodyChild,        \* the child of the function being numbered
  nextSyntheticId,  \* next_synthetic_id_
  loweringErrors    \* diagnostics emitted by lowering

loweringVars == <<lowering, nextSyntheticId, loweringErrors>>
vars == <<tokens, program, loweringVars, child, bodyChild>>

Init ==
  /\ lowering = "lowering"
  /\ nextSyntheticId = 0
  /\ loweringErrors = <<>>

\* The synthetic names that occur in the text of a range.
Mentioned(range) == UNION {MentionedIds(tokens[i].text) : i \in Covered(tokens, range)}

\* Mutated form: the text of the function is not searched.
FreshIdUnchecked(range) == nextSyntheticId

\* The loop over next_synthetic_id: the first number not in the text.  (The
\* code searches comments too, which only makes it skip more numbers.)
FreshId(range) ==
  LET taken == Mentioned(range)
  IN  Min({id \in nextSyntheticId..nextSyntheticId + Cardinality(taken) : id \notin taken})

\* A number for a try initialization, which has none yet.
Numbered(node, id) ==
  [kind |-> "TryInitialization", range |-> node.range, declaration |-> node.declaration,
   propagation |-> node.propagation, syntheticId |-> id]

InFunction == lowering = "numbering" /\ child <= Len(program)

LowerNode ==
  /\ lowering = "lowering" /\ child <= Len(program)
  /\ program[child].kind # "FailureAwareFunction"
  /\ child' = child + 1
  /\ UNCHANGED <<tokens, program, lowering, bodyChild, nextSyntheticId, loweringErrors>>

\* A function that returns void is refused; the nodes after it are lowered.
RefuseVoidFunction ==
  /\ lowering = "lowering" /\ child <= Len(program)
  /\ program[child].kind = "FailureAwareFunction"
  /\ Spelling(tokens, program[child].successType) = <<"void">>
  /\ loweringErrors' = Append(loweringErrors, "VIXC3020")
  /\ child' = child + 1
  /\ UNCHANGED <<tokens, program, lowering, bodyChild, nextSyntheticId>>

BeginFunction ==
  /\ lowering = "lowering" /\ child <= Len(program)
  /\ program[child].kind = "FailureAwareFunction"
  /\ Spelling(tokens, program[child].successType) # <<"void">>
  /\ lowering' = "numbering"
  /\ bodyChild' = 1
  /\ UNCHANGED <<tokens, program, child, nextSyntheticId, loweringErrors>>

NumberInitialization ==
  /\ InFunction /\ bodyChild <= Len(program[child].children)
  /\ LET node == program[child].children[bodyChild]
     IN  IF node.kind = "TryInitialization"
         THEN LET id == FreshId(program[child].range)
              IN  /\ program' = [program EXCEPT ![child].children[bodyChild] = Numbered(node, id)]
                  /\ nextSyntheticId' = id + 1
         ELSE UNCHANGED <<program, nextSyntheticId>>
  /\ bodyChild' = bodyChild + 1
  /\ UNCHANGED <<tokens, lowering, child, loweringErrors>>

\* lower_children of the function, every child of which is valid by now, and
\* mark_lowered.
MarkLowered ==
  /\ InFunction /\ bodyChild > Len(program[child].children)
  /\ program' = [program EXCEPT ![child].lowered = TRUE]
  /\ child' = child + 1
  /\ lowering' = "lowering"
  /\ UNCHANGED <<tokens, bodyChild, nextSyntheticId, loweringErrors>>

FinishLowering ==
  /\ lowering = "lowering" /\ child > Len(program)
  /\ lowering' = IF loweringErrors = <<>> THEN "lowered" ELSE "failed"
  /\ child' = 1
  /\ UNCHANGED <<tokens, program, bodyChild, nextSyntheticId, loweringErrors>>

Next ==
  \/ LowerNode \/ RefuseVoidFunction \/ BeginFunction
  \/ NumberInitialization \/ MarkLowered \/ FinishLowering

-----------------------------------------------------------------------------
(* Properties.                                                             *)

Initializations(f) == {node \in ToSet(f.children) : node.kind = "TryInitialization"}

LoweredFunctions == {f \in ToSet(program) : f.kind = "FailureAwareFunction" /\ f.lowered}

(***************************************************************************)
(* The generated variables of a lowered program have names of their own:   *)
(* no two try initializations share one, and none is a name the function   *)
(* around it already uses.                                                 *)
(***************************************************************************)
SyntheticNamesAreFresh ==
  /\ \A f \in LoweredFunctions : \A node \in Initializations(f) :
       node.syntheticId \notin Mentioned(f.range)
  /\ \A f, g \in LoweredFunctions :
       \A a \in Initializations(f), b \in Initializations(g) :
         a.syntheticId = b.syntheticId => a = b

=============================================================================
