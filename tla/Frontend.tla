------------------------------- MODULE Frontend -------------------------------
(***************************************************************************)
(* One call of Frontend::process (src/Frontend.cpp): the stages of the     *)
(* compiler run one after another over the same source, each a module of   *)
(* its own, and the first stage that reports an error ends the call.  The  *)
(* stages meet in the tokens, the unit and the program; the parser makes   *)
(* the first two and is extended, the other stages are instantiated.       *)
(*                                                                         *)
(* The lexer is one step here: Streams holds the tokens it may deliver     *)
(* (Lexer shows that they are token streams), and whether it reports an    *)
(* error is left open.                                                     *)
(***************************************************************************)
EXTENDS Parser

CONSTANTS
  Requests,         \* the options of the call: action and retain_source_map
  MentionedIds(_)   \* the numbers n with `__vixc_outcome_n` inside a word

ASSUME RequestsAssumption ==
  Requests \subseteq [action : {"Analyze", "Lower", "Emit"}, retainSourceMap : BOOLEAN]

\* The text of a source is finite, and what follows the prefix is a number.
ASSUME MentionedIdsAssumption ==
  \A stream \in Streams :
    LET mentioned == UNION {MentionedIds(stream[i].text) : i \in 1..Len(stream)}
    IN  mentioned \subseteq Nat /\ IsFiniteSet(mentioned)

\* Layout is no token, the use of a template is more than one, and a token has
\* a byte for each of its characters.
ASSUME WordsAssumption ==
  \A stream \in Streams : \A i \in 1..Len(stream) :
    /\ stream[i].text \notin {" ", "::Outcome<"}
    /\ stream[i].text = "vixc_generated" => stream[i].begin + 14 <= stream[i].end

VARIABLES
  request,        \* FrontendOptions
  lexicalError,   \* the lexer reported an error
  stage,          \* the stage that runs; "done" once the result is made
  result,         \* the FrontendResult
  \* The cursor of the tree walks.
  child, bodyChild,
  \* Semantic analysis.
  analysis, failureFunctions, failureContexts, resolutions, semanticErrors,
  \* IR construction.
  construction, program, irFunction, contract, bodyContract, irErrors,
  \* Lowering.
  lowering, nextSyntheticId, loweringErrors,
  \* Emission.
  emission, emitter, activeFunction, backendErrors

Analysis == INSTANCE SemanticAnalysis
Construction == INSTANCE IrConstruction
LoweringStage == INSTANCE Lowering
Emission == INSTANCE CxxBackend

analysisVars == <<analysis, failureFunctions, failureContexts, resolutions, semanticErrors>>
irVars == <<construction, irFunction, contract, bodyContract, irErrors>>
loweringVars == <<lowering, nextSyntheticId, loweringErrors>>
emissionVars == <<emission, emitter, activeFunction, backendErrors>>
cursor == <<child, bodyChild>>
controlVars == <<request, lexicalError, stage, result>>
workVars == <<tokens, parserVars, unit, cursor, analysisVars, irVars, program, loweringVars,
              emissionVars>>
vars == <<controlVars, workVars>>

NoResult == [success |-> FALSE, errors |-> <<>>, output |-> <<>>, mappings |-> <<>>]

Init ==
  /\ request \in Requests
  /\ lexicalError = FALSE
  /\ stage = "lex"
  /\ result = NoResult
  /\ bodyChild = 0 /\ child = 1
  /\ ParserInit /\ Analysis!Init /\ Construction!Init /\ LoweringStage!Init /\ Emission!Init

\* The diagnostics of the engine all stages report to.
Errors ==
  (IF lexicalError THEN <<"lexical error">> ELSE <<>>)
  \o [i \in 1..Len(syntaxErrors) |-> syntaxErrors[i].code]
  \o semanticErrors \o irErrors \o loweringErrors \o backendErrors

\* DiagnosticEngine::has_errors: the stages report nothing but errors.
HasErrors ==
  \/ lexicalError
  \/ syntaxErrors # <<>> \/ semanticErrors # <<>> \/ irErrors # <<>>
  \/ loweringErrors # <<>> \/ backendErrors # <<>>

\* make_result.
MakeResult(success, output, mappings) ==
  /\ result' = [success |-> success, errors |-> Errors,
                output |-> output, mappings |-> mappings]
  /\ stage' = "done"

Refuse == MakeResult(FALSE, <<>>, <<>>)

\* Mutated form: whether the request is answered is asked first.
ProceedAnsweringFirst(failed, answers, next) ==
  /\ IF answers THEN MakeResult(TRUE, <<>>, <<>>)
     ELSE IF failed THEN Refuse
     ELSE stage' = next /\ UNCHANGED result
  /\ UNCHANGED <<request, lexicalError, workVars>>

\* A stage is over: the call fails, succeeds or goes on.
Proceed(failed, answers, next) ==
  /\ IF failed THEN Refuse
     ELSE IF answers THEN MakeResult(TRUE, <<>>, <<>>)
     ELSE stage' = next /\ UNCHANGED result
  /\ UNCHANGED <<request, lexicalError, workVars>>

-----------------------------------------------------------------------------
(* The stages.                                                             *)

Lex ==
  /\ stage = "lex"
  /\ lexicalError' \in BOOLEAN
  /\ stage' = "lexed"
  /\ UNCHANGED <<request, result, workVars>>

FinishLexing ==
  /\ stage = "lexed"
  /\ Proceed(lexicalError, FALSE, "parse")

Parse ==
  /\ stage = "parse"
  /\ ParserStep
  /\ UNCHANGED <<controlVars, cursor, analysisVars, irVars, program,
                 loweringVars, emissionVars>>

\* Mutated form: the parser's diagnostics are not looked at.
FinishParsingUnchecked ==
  /\ stage = "parse" /\ phase = "done"
  /\ Proceed(FALSE, FALSE, "analyze")

FinishParsing ==
  /\ stage = "parse" /\ phase = "done"
  /\ Proceed(syntaxErrors # <<>>, FALSE, "analyze")

Analyze ==
  /\ stage = "analyze"
  /\ Analysis!Next
  /\ UNCHANGED <<controlVars, parserVars, irVars, program,
                 loweringVars, emissionVars>>

FinishAnalyzing ==
  /\ stage = "analyze" /\ analysis \in {"accepted", "rejected"}
  /\ Proceed(analysis = "rejected", request.action = "Analyze", "build")

BuildIr ==
  /\ stage = "build"
  /\ Construction!Next
  /\ UNCHANGED <<controlVars, tokens, parserVars, analysis, failureFunctions,
                 failureContexts, semanticErrors, loweringVars,
                 emissionVars>>

FinishBuilding ==
  /\ stage = "build" /\ construction \in {"built", "failed"}
  /\ Proceed(construction = "failed" \/ irErrors # <<>>, FALSE, "lower")

Lower ==
  /\ stage = "lower"
  /\ LoweringStage!Next
  /\ UNCHANGED <<controlVars, unit, parserVars, analysisVars, irVars,
                 emissionVars>>

FinishLowering ==
  /\ stage = "lower" /\ lowering \in {"lowered", "failed"}
  /\ Proceed(lowering = "failed", request.action = "Lower", "emit")

Emit ==
  /\ stage = "emit"
  /\ Emission!Next
  /\ UNCHANGED <<controlVars, unit, parserVars, analysisVars, irVars,
                 loweringVars>>

FinishEmitting ==
  /\ stage = "emit" /\ emission \in {"generated", "failed"}
  /\ IF emission = "failed"
     THEN Refuse
     ELSE MakeResult(TRUE, emitter.output,
                     IF request.retainSourceMap THEN emitter.sourceMap ELSE <<>>)
  /\ UNCHANGED <<request, lexicalError, workVars>>

Process ==
  \/ Lex \/ FinishLexing \/ Parse \/ FinishParsing \/ Analyze \/ FinishAnalyzing
  \/ BuildIr \/ FinishBuilding \/ Lower \/ FinishLowering \/ Emit \/ FinishEmitting

\* process returns once.
Returned == stage = "done" /\ UNCHANGED vars

Next == Process \/ Returned

\* process is a straight call on one thread.
Spec == Init /\ [][Next]_vars /\ WF_vars(Process)

-----------------------------------------------------------------------------
(* Properties of the stages, in the call that runs them.                   *)

(***************************************************************************)
(* The stages run in order: one has started only if the ones before it     *)
(* ended well, and its own state is what it was promised.                  *)
(***************************************************************************)
TypeOK ==
  /\ stage \in {"lex", "lexed", "parse", "analyze", "build", "lower", "emit", "done"}
  /\ stage \in {"analyze", "build", "lower", "emit"} => syntaxErrors = <<>>
  /\ stage \in {"build", "lower", "emit"} => analysis = "accepted"
  /\ stage \in {"lower", "emit"} => construction = "built" /\ irErrors = <<>>
  /\ stage = "emit" => lowering = "lowered"
  /\ stage = "analyze" => Analysis!TypeOK
  /\ stage = "lower" =>
       \A f \in {node \in ToSet(program) : node.kind = "FailureAwareFunction"} :
         Construction!FunctionRangesValid(f)

(***************************************************************************)
(* Semantic analysis: see SemanticAnalysis.                                *)
(***************************************************************************)
ConstructsAreInFunctions == Analysis!ConstructsAreInFunctions
TriesResolveToTheirFunction == Analysis!TriesResolveToTheirFunction
PropagatedTypesAgree == Analysis!PropagatedTypesAgree

IrFunctions == {node \in ToSet(program) : node.kind = "FailureAwareFunction"}

Propagations(f) ==
  {node \in ToSet(f.children) : node.kind = "FailurePropagation"}
  \cup {node.propagation : node \in {n \in ToSet(f.children) : n.kind = "TryInitialization"}}
  \cup {node.operand : node \in {n \in ToSet(f.children) :
                                   n.kind = "Failure" /\ n.operand.kind = "FailurePropagation"}}

(***************************************************************************)
(* IR construction: every propagation of a built program has the callee    *)
(* the analysis resolved it to, and propagates the failures that callee    *)
(* declares, spelled alike.  (A `fails` in the body replaces the contract  *)
(* of the construction only; such functions are left out.)                 *)
(***************************************************************************)
PropagationsKnowTheirCallee ==
  stage \in {"lower", "emit"} =>
    \A f \in IrFunctions :
      (\A node \in ToSet(f.children) : node.kind # "Outcome") =>
        \A p \in Propagations(f) :
          /\ p.callee \in DOMAIN failureFunctions
          /\ Analysis!NormalizedType(p.failureType)
               = Analysis!NormalizedType(failureFunctions[p.callee].failureType)

(***************************************************************************)
(* Lowering: the variables it generates have names of their own; see       *)
(* Lowering.                                                               *)
(***************************************************************************)
SyntheticNamesAreFresh == LoweringStage!SyntheticNamesAreFresh

(***************************************************************************)
(* Emission: see CxxBackend.                                               *)
(***************************************************************************)
TokensAreCopiedOnce == Emission!TokensAreCopiedOnce
GeneratedIsCxx == Emission!GeneratedIsCxx
ExitsMatchTheirFunction == Emission!ExitsMatchTheirFunction
WordsStaySeparate == Emission!WordsStaySeparate

-----------------------------------------------------------------------------
(* Properties of the whole call.                                           *)

(***************************************************************************)
(* The call refuses exactly when some stage reported an error, and never   *)
(* hands out the text of a program it refused.                             *)
(***************************************************************************)
Contract == INSTANCE FrontendContract WITH
  reported <- HasErrors,
  answer <- [given |-> stage = "done", success |-> result.success,
             output |-> result.output # <<>>, mappings |-> result.mappings # <<>>]

KeepsContract == Contract!Spec

(***************************************************************************)
(* A result carries every diagnostic of the call and is successful exactly *)
(* without any; then the stage the request names has accepted the source,  *)
(* and the output is what the emission wrote, none for other requests.     *)
(***************************************************************************)
ResultAnswersTheRequest ==
  stage = "done" =>
    /\ result.errors = Errors
    /\ result.success <=> ~HasErrors
    /\ ~result.success => result.output = <<>> /\ result.mappings = <<>>
    /\ result.success =>
         CASE request.action = "Analyze" -> analysis = "accepted" /\ result.output = <<>>
           [] request.action = "Lower" -> lowering = "lowered" /\ result.output = <<>>
           [] request.action = "Emit" -> emission = "generated" /\ result.output = emitter.output

(***************************************************************************)
(* The call returns, whatever stage ends it.                               *)
(***************************************************************************)
Answers == Contract!Answers

(***************************************************************************)
(* docs/frontend.md:208: "After successful semantic analysis, VixC         *)
(* constructs are represented in backend-independent IR."  The body of a   *)
(* function is required only by the IR construction, which also asks for a *)
(* resolution of a `try` that the analysis of `fail` never looks at.       *)
(***************************************************************************)
AcceptedIsRepresentable == analysis = "accepted" => construction # "failed"

=============================================================================
