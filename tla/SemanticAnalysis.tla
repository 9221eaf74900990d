-------------------------- MODULE SemanticAnalysis --------------------------
(***************************************************************************)
(* Semantic analysis (src/semantic/SemanticAnalyzer.cpp, its               *)
(* FailureAnalyzer and the SemanticContext they share).                    *)
(*                                                                         *)
(* Two passes over the tree of a source that parsed without error: the     *)
(* first registers the failure-aware functions, the second checks every    *)
(* `fail` and `try` against the contract of the function around it and     *)
(* resolves the callee of every `try`.  One step handles one child of the  *)
(* translation unit, or one child of the function being analyzed.  No      *)
(* stage before emission reports a fatal diagnostic, so an error never     *)
(* stops the analysis.                                                     *)
(***************************************************************************)
EXTENDS SyntaxTree, FiniteSetsExt

VARIABLES
  tokens,            \* the tokens of the source
  unit,              \* the TranslationUnit node
  analysis,          \* "collecting", "analyzing", "inFunction", "accepted" or "rejected"
  child,             \* the child of the unit being visited
  bodyChild,         \* the child of the function being visited
  failureFunctions,  \* failure_functions_; an id is an index
  failureContexts,   \* failure_contexts_, innermost last
  resolutions,       \* propagation_resolutions_
  semanticErrors     \* diagnostics emitted by the analysis

semanticVars == <<analysis, failureFunctions, failureContexts, resolutions, semanticErrors>>
cursor == <<child, bodyChild>>
vars == <<tokens, unit, semanticVars, cursor>>

Init ==
  /\ analysis = "collecting"
  /\ child = 1
  /\ bodyChild = 0
  /\ failureFunctions = <<>>
  /\ failureContexts = <<>>
  /\ resolutions = <<>>
  /\ semanticErrors = <<>>

-----------------------------------------------------------------------------
(* The first pass.                                                         *)

\* What collect_failure_declaration registers for a child of the unit: the
\* last child of each kind counts, and something must follow the contract.
Declared(node) ==
  LET name == LastOfKind(node, "FunctionName")
      successType == LastOfKind(node, "FunctionReturnType")
      declarator == LastOfKind(node, "FunctionDeclarator")
      specification == LastOfKind(node, "FailureSpecification")
  IN  IF \/ node.kind # "FunctionDeclaration"
         \/ 0 \in {name, successType, declarator, specification}
         \/ Len(node.children[specification].children) # 1
         \/ specification = Len(node.children)
      THEN <<>>
      ELSE <<[name |-> Spelling(tokens, node.children[name].range),
              declaration |-> node.range,
              failureType |-> node.children[specification].children[1].range]>>

CollectDeclaration ==
  /\ analysis = "collecting"
  /\ child <= Len(unit.children)
  /\ failureFunctions' = failureFunctions \o Declared(unit.children[child])
  /\ child' = child + 1
  /\ UNCHANGED <<tokens, unit, analysis, bodyChild, failureContexts, resolutions,
                 semanticErrors>>

StartAnalyzing ==
  /\ analysis = "collecting"
  /\ child > Len(unit.children)
  /\ analysis' = "analyzing"
  /\ child' = 1
  /\ UNCHANGED <<tokens, unit, bodyChild, failureFunctions, failureContexts, resolutions,
                 semanticErrors>>

-----------------------------------------------------------------------------
(* Checks of the failure constructs.  Each gives the errors it reports and *)
(* the resolution it records.                                              *)

Rejected(code) == [errors |-> <<code>>, resolution |-> <<>>]
Accepted == [errors |-> <<>>, resolution |-> <<>>]

\* analyze_failure_specification and build_outcome_model.
CheckSpecification(node) ==
  IF Len(node.children) # 1 \/ ~Within(node.children[1].range, node.range)
  THEN Rejected("VIXC2002")
  ELSE Accepted

\* analyze_fail_statement: the failure expression itself is not analyzed.
CheckFail(node) ==
  IF failureContexts = <<>> THEN Rejected("VIXC2006")
  ELSE IF Len(node.children) # 1 THEN Rejected("VIXC2007")
  ELSE Accepted

\* lookup_failure_function.
Candidates(name) == {id \in 1..Len(failureFunctions) : failureFunctions[id].name = name}

\* normalized_failure_type: the texts of the tokens, joined without trivia.
NormalizedType(range) ==
  FoldLeft(LAMBDA text, word : text \o word, "", Spelling(tokens, range))

\* The end of analyze_try_expression, once the callee is known.
CheckPropagation(node, id) ==
  IF NormalizedType(Last(failureContexts).type) # NormalizedType(failureFunctions[id].failureType)
  THEN Rejected("VIXC2022")
  ELSE [errors |-> <<>>,
        resolution |-> <<[try |-> node.range, callee |-> id,
                          failureType |-> failureFunctions[id].failureType]>>]

\* Mutated form: the first declaration of an overloaded name is the callee.
CheckTryFirstOverload(node) ==
  LET operand == node.children[1]
      candidates == Candidates(Spelling(tokens, operand.children[1].range))
  IN  IF failureContexts = <<>> THEN Rejected("VIXC2014")
      ELSE IF Len(node.children) # 1 THEN Rejected("VIXC2015")
      ELSE IF operand.kind # "DirectCallExpression" THEN Rejected("VIXC2025")
      ELSE IF candidates = {} THEN Rejected("VIXC2023")
      ELSE CheckPropagation(node, Min(candidates))

\* analyze_try_expression.
CheckTry(node) ==
  LET operand == node.children[1]
      candidates == Candidates(Spelling(tokens, operand.children[1].range))
  IN  IF failureContexts = <<>> THEN Rejected("VIXC2014")
      ELSE IF Len(node.children) # 1 THEN Rejected("VIXC2015")
      ELSE IF operand.kind # "DirectCallExpression" THEN Rejected("VIXC2025")
      ELSE IF candidates = {} THEN Rejected("VIXC2023")
      ELSE IF Cardinality(candidates) > 1 THEN Rejected("VIXC2024")
      ELSE CheckPropagation(node, Min(candidates))

\* analyze_node, for what a translation unit and a function body contain.  Of
\* a return statement and a try initialization, only a try has rules.
Check(node) ==
  CASE node.kind = "FailureSpecification" -> CheckSpecification(node)
    [] node.kind = "FailStatement"        -> CheckFail(node)
    [] node.kind = "TryExpression"        -> CheckTry(node)
    [] node.kind = "TryInitialization"    -> CheckTry(node.children[2])
    [] OTHER                              -> Accepted

\* record_failure_propagation_resolution: one resolution per try range.
Recorded(new) ==
  IF \E r \in ToSet(resolutions) : r.try = new.try
  THEN [i \in DOMAIN resolutions |->
          IF resolutions[i].try = new.try THEN new ELSE resolutions[i]]
  ELSE Append(resolutions, new)

-----------------------------------------------------------------------------
(* The second pass.                                                        *)

Report(node) ==
  \E checked \in {Check(node)} :
    /\ semanticErrors' = semanticErrors \o checked.errors
    /\ resolutions' = IF checked.resolution = <<>> THEN resolutions
                      ELSE Recorded(checked.resolution[1])

AnalyzeTopLevel ==
  /\ analysis = "analyzing"
  /\ child <= Len(unit.children)
  /\ unit.children[child].kind # "FunctionDeclaration"
  /\ Report(unit.children[child])
  /\ child' = child + 1
  /\ UNCHANGED <<tokens, unit, analysis, bodyChild, failureFunctions, failureContexts>>

\* analyze_function_declaration up to its loop: the first specification is
\* the contract of the body.  One without a type is passed over unreported:
\* the parser reported it.
EnterFunction ==
  /\ analysis = "analyzing"
  /\ child <= Len(unit.children)
  /\ unit.children[child].kind = "FunctionDeclaration"
  /\ LET node == unit.children[child]
         at == FirstOfKind(node, "FailureSpecification")
         specification == node.children[at]
         typed == Len(specification.children) = 1
         errors == IF typed THEN CheckSpecification(specification).errors ELSE <<>>
     IN  /\ semanticErrors' = semanticErrors \o errors
         /\ IF ~typed \/ errors # <<>>
            THEN /\ child' = child + 1
                 /\ UNCHANGED <<analysis, bodyChild, failureContexts>>
            ELSE /\ failureContexts' =
                      Append(failureContexts, [specification |-> specification.range,
                                               type |-> specification.children[1].range])
                 /\ bodyChild' = at + 1
                 /\ analysis' = "inFunction"
                 /\ UNCHANGED child
  /\ UNCHANGED <<tokens, unit, failureFunctions, resolutions>>

AnalyzeBodyChild ==
  /\ analysis = "inFunction"
  /\ bodyChild <= Len(unit.children[child].children)
  /\ Report(unit.children[child].children[bodyChild])
  /\ bodyChild' = bodyChild + 1
  /\ UNCHANGED <<tokens, unit, analysis, child, failureFunctions, failureContexts>>

\* Mutated form: the contract of the function stays active.
LeaveFunctionKeepingContext ==
  /\ analysis = "inFunction"
  /\ bodyChild > Len(unit.children[child].children)
  /\ analysis' = "analyzing"
  /\ child' = child + 1
  /\ UNCHANGED <<tokens, unit, bodyChild, failureFunctions, failureContexts, resolutions,
                 semanticErrors>>

LeaveFunction ==
  /\ analysis = "inFunction"
  /\ bodyChild > Len(unit.children[child].children)
  /\ failureContexts' = Front(failureContexts)
  /\ analysis' = "analyzing"
  /\ child' = child + 1
  /\ UNCHANGED <<tokens, unit, bodyChild, failureFunctions, resolutions, semanticErrors>>

FinishAnalysis ==
  /\ analysis = "analyzing"
  /\ child > Len(unit.children)
  /\ analysis' = IF semanticErrors = <<>> THEN "accepted" ELSE "rejected"
  /\ child' = 1
  /\ UNCHANGED <<tokens, unit, bodyChild, failureFunctions, failureContexts, resolutions,
                 semanticErrors>>

Next ==
  \/ CollectDeclaration \/ StartAnalyzing
  \/ AnalyzeTopLevel \/ EnterFunction \/ AnalyzeBodyChild \/ LeaveFunction \/ FinishAnalysis

-----------------------------------------------------------------------------
(* Properties.                                                             *)

Functions == {f \in ToSet(unit.children) : f.kind = "FunctionDeclaration"}

\* The contract a function is analyzed, built and emitted with.
ContractOf(f) == f.children[FirstOfKind(f, "FailureSpecification")]

\* Contracts written inside a function body.
NestedContracts(f) ==
  FirstOfKind(f, "FailureSpecification") # LastOfKind(f, "FailureSpecification")

(***************************************************************************)
(* The passes visit children that exist, and exactly the contract of the   *)
(* function being analyzed is active, none outside a function.             *)
(***************************************************************************)
TypeOK ==
  /\ analysis \in {"collecting", "analyzing", "inFunction", "accepted", "rejected"}
  /\ child \in 1..Len(unit.children)+1
  /\ \A i \in DOMAIN resolutions : resolutions[i].callee \in DOMAIN failureFunctions
  /\ IF analysis = "inFunction"
     THEN LET contract == ContractOf(unit.children[child])
          IN  failureContexts = <<[specification |-> contract.range,
                                   type |-> contract.children[1].range]>>
     ELSE failureContexts = <<>>

(***************************************************************************)
(* An accepted unit has no `fail` and no `try` outside a failure-aware     *)
(* function, whatever functions came before it.                            *)
(***************************************************************************)
ConstructsAreInFunctions ==
  analysis = "accepted" =>
    \A node \in ToSet(unit.children) : node.kind \notin {"FailStatement", "TryExpression"}

\* The try expressions analyzed in a function body.
TryNodes(f) ==
  ChildrenOfKind(f, "TryExpression")
  \cup {node.children[2] : node \in ChildrenOfKind(f, "TryInitialization")}

\* The functions of the unit a direct call may mean: those with a body.
Named(name) ==
  {g \in Functions : /\ \E part \in ChildrenOfKind(g, "FunctionName") :
                          Spelling(tokens, part.range) = name
                     /\ Last(g.children).kind # "FailureSpecification"}

(***************************************************************************)
(* Every `try` of an accepted unit is resolved to the one function of the  *)
(* unit with the name it calls, before or after it in the source, and that *)
(* function fails with the type the enclosing function fails with.  (The   *)
(* contract of a function with `fails` in its body is told wrong; see      *)
(* PropagatedTypesAgree.)                                                  *)
(***************************************************************************)
TriesResolveToTheirFunction ==
  analysis = "accepted" /\ (\A f \in Functions : ~NestedContracts(f)) =>
    \A f \in Functions : \A t \in TryNodes(f) :
      \E g \in Functions :
        /\ Named(Spelling(tokens, t.children[1].children[1].range)) = {g}
        /\ NormalizedType(ContractOf(g).children[1].range)
             = NormalizedType(ContractOf(f).children[1].range)
        /\ \E r \in ToSet(resolutions) :
             /\ r.try = t.range
             /\ failureFunctions[r.callee].declaration = g.range

(***************************************************************************)
(* docs/language-model.md:354: "A failure contract belongs to a            *)
(* computation, not to every source construct that follows a `fails`       *)
(* token."  A `try` that is accepted propagates between functions that     *)
(* fail with the same type.  The registration takes the last `fails` in a  *)
(* declaration, its body included, for the contract of the function.       *)
(***************************************************************************)
PropagatedTypesAgree ==
  analysis = "accepted" =>
    \A f \in Functions : \A t \in TryNodes(f) :
      \A g \in Named(Spelling(tokens, t.children[1].children[1].range)) :
        NormalizedType(ContractOf(g).children[1].range)
          = NormalizedType(ContractOf(f).children[1].range)

=============================================================================
