--------------------------- MODULE IrConstruction ---------------------------
(***************************************************************************)
(* IR construction (build_program_ir and its helpers in src/Frontend.cpp,  *)
(* with the validity rules of the nodes in src/ir).                        *)
(*                                                                         *)
(* One step builds one child of the translation unit, or one child of the  *)
(* function being built.  The construction stops at its first error.       *)
(* "contract" is failure_type_range of the IrBuildContext: a specification *)
(* sets it for the nodes built after it with the same context, and a       *)
(* function works on a copy.                                               *)
(*                                                                         *)
(* A function node has no child in front of its contract but its header,   *)
(* unless it has no header and is refused, so the branch that keeps such   *)
(* children as surrounding source is never taken and is left out.          *)
(***************************************************************************)
EXTENDS SyntaxTree

VARIABLES
  unit,           \* the TranslationUnit node
  resolutions,    \* what the analysis recorded for each try
  construction,   \* "building", "inFunction", "built" or "failed"
  child,          \* the child of the unit being built
  bodyChild,      \* the child of the function being built
  program,        \* children of the ir::Program
  irFunction,     \* the FailureAwareFunction under construction: <<>> or <<node>>
  contract,       \* the contract of the unit's build context, NoRange when unset
  bodyContract,   \* the contract of the function's copy
  irErrors        \* diagnostics emitted by the construction

irVars == <<construction, program, irFunction, contract, bodyContract, irErrors>>
vars == <<unit, resolutions, irVars, child, bodyChild>>

Init ==
  /\ construction = "building"
  /\ program = <<>>
  /\ irFunction = <<>>
  /\ contract = NoRange
  /\ bodyContract = NoRange
  /\ irErrors = <<>>

-----------------------------------------------------------------------------
(* Nodes.  A build function gives the node, or the error it reports.       *)

Built(ir) == [ir |-> <<ir>>, errors |-> <<>>]
Failed(code) == [ir |-> <<>>, errors |-> <<code>>]

NonEmpty(range) == ValidRange(range) /\ range.begin < range.end

Region(node) == [kind |-> "CxxRegion", range |-> node.range]

\* build_failure_specification and Outcome::valid.
BuildSpecification(node) ==
  IF Len(node.children) # 1 THEN Failed("VIXC5001")
  ELSE IF ~NonEmpty(node.children[1].range) THEN Failed("VIXC5002")
  ELSE IF ~Within(node.children[1].range, node.range) THEN Failed("VIXC5003")
  ELSE Built([kind |-> "Outcome", range |-> node.range,
              failureType |-> node.children[1].range])

\* Where the analysis resolved a try; zero when it did not.
ResolutionOf(node) == SelectInSeq(resolutions, LAMBDA r : r.try = node.range)

\* Mutated form: an unresolved propagation is built without its callee.
BuildTryUnresolved(node, failureType) ==
  IF failureType = NoRange THEN Failed("VIXC5008")
  ELSE IF Len(node.children) # 1 THEN Failed("VIXC5009")
  ELSE Built([kind |-> "FailurePropagation", range |-> node.range,
              failureType |-> failureType, callee |-> 0,
              operand |-> Region(node.children[1])])

\* build_try_expression and FailurePropagation::valid.
BuildTry(node, failureType) ==
  IF failureType = NoRange THEN Failed("VIXC5008")
  ELSE IF Len(node.children) # 1 THEN Failed("VIXC5009")
  ELSE IF ResolutionOf(node) = 0 THEN Failed("VIXC5024")
  ELSE IF ~NonEmpty(failureType) THEN Failed("VIXC5011")
  ELSE Built([kind |-> "FailurePropagation", range |-> node.range,
              failureType |-> failureType,
              callee |-> resolutions[ResolutionOf(node)].callee,
              operand |-> Region(node.children[1])])

\* build_fail_statement and Failure::valid; the operand may be a try.
BuildFail(node, failureType) ==
  IF failureType = NoRange THEN Failed("VIXC5004")
  ELSE IF Len(node.children) # 1 THEN Failed("VIXC5005")
  ELSE LET operand == IF node.children[1].kind = "TryExpression"
                      THEN BuildTry(node.children[1], failureType)
                      ELSE Built(Region(node.children[1]))
       IN  IF operand.ir = <<>> THEN operand
           ELSE Built([kind |-> "Failure", range |-> node.range,
                       failureType |-> failureType, operand |-> operand.ir[1]])

\* build_return_statement and Return::valid.
BuildReturn(node) ==
  IF Len(node.children) # 1 THEN Failed("VIXC5018")
  ELSE IF ~(NonEmpty(node.children[1].range) /\ Within(node.children[1].range, node.range))
       THEN Failed("VIXC5020")
  ELSE Built([kind |-> "Return", range |-> node.range, operand |-> Region(node.children[1])])

\* build_try_initialization and TryInitialization::valid.
BuildTryInitialization(node, failureType) ==
  IF Len(node.children) # 2 THEN Failed("VIXC5021")
  ELSE LET propagation == BuildTry(node.children[2], failureType)
       IN  IF propagation.ir = <<>> THEN propagation
           ELSE IF ~NonEmpty(node.children[1].range) THEN Failed("VIXC5022")
           ELSE Built([kind |-> "TryInitialization", range |-> node.range,
                       declaration |-> node.children[1].range,
                       propagation |-> propagation.ir[1]])

\* build_ir_node, for everything but a function.
Build(node, failureType) ==
  CASE node.kind = "FailureSpecification" -> BuildSpecification(node)
    [] node.kind = "FailStatement"        -> BuildFail(node, failureType)
    [] node.kind = "TryExpression"        -> BuildTry(node, failureType)
    [] node.kind = "ReturnStatement"      -> BuildReturn(node)
    [] node.kind = "TryInitialization"    -> BuildTryInitialization(node, failureType)
    [] OTHER                              -> Built(Region(node))

\* The contract the context holds once the node is built.
ContractAfter(node, failureType) ==
  IF /\ node.kind = "FailureSpecification" /\ Len(node.children) = 1
     /\ NonEmpty(node.children[1].range)
  THEN node.children[1].range
  ELSE failureType

-----------------------------------------------------------------------------
(* Function declarations.                                                  *)

\* From the first child of the body to the last.
BodyRange(node, at) ==
  IF at < Len(node.children)
  THEN [begin |-> node.children[at + 1].range.begin, end |-> Last(node.children).range.end]
  ELSE NoRange

\* FailureAwareFunction::valid: the parts lie within the declaration, the name
\* within the declarator.
FunctionRangesValid(f) ==
  /\ \A part \in {f.successType, f.declarator, f.body} :
       NonEmpty(part) /\ Within(part, f.range)
  /\ f.name = NoRange \/ (NonEmpty(f.name) /\ Within(f.name, f.declarator))

\* build_function_declaration up to its loop.
BuildFunction(node) ==
  LET at == FirstOfKind(node, "FailureSpecification")
      header(kind) == Max({0} \cup {i \in 1..at-1 : node.children[i].kind = kind})
      part(kind) == node.children[header(kind)].range
      outcome == BuildSpecification(node.children[at])
      function ==
        [kind |-> "FailureAwareFunction", range |-> node.range,
         successType |-> part("FunctionReturnType"),
         name |-> IF header("FunctionName") = 0 THEN NoRange ELSE part("FunctionName"),
         declarator |-> part("FunctionDeclarator"),
         body |-> BodyRange(node, at), outcome |-> outcome.ir[1],
         children |-> <<>>, lowered |-> FALSE]
  IN  IF 0 \in {at, header("FunctionReturnType"), header("FunctionDeclarator")}
      THEN Failed("VIXC5015")
      ELSE IF outcome.ir = <<>> THEN [outcome EXCEPT !.errors = @ \o <<"VIXC5016">>]
      ELSE IF ~FunctionRangesValid(function) THEN Failed("VIXC5017")
      ELSE Built(function)

-----------------------------------------------------------------------------
Stop(errors) == construction' = "failed" /\ irErrors' = irErrors \o errors

BuildTopLevel ==
  /\ construction = "building" /\ child <= Len(unit.children)
  /\ unit.children[child].kind # "FunctionDeclaration"
  /\ contract' = ContractAfter(unit.children[child], contract)
  /\ \E built \in {Build(unit.children[child], contract)} :
       IF built.ir = <<>>
       THEN Stop(built.errors) /\ UNCHANGED <<program, child>>
       ELSE /\ program' = program \o built.ir
            /\ child' = child + 1
            /\ UNCHANGED <<construction, irErrors>>
  /\ UNCHANGED <<unit, resolutions, bodyChild, irFunction, bodyContract>>

BeginFunction ==
  /\ construction = "building" /\ child <= Len(unit.children)
  /\ unit.children[child].kind = "FunctionDeclaration"
  /\ \E built \in {BuildFunction(unit.children[child])} :
       IF built.ir = <<>>
       THEN Stop(built.errors) /\ UNCHANGED <<irFunction, bodyContract, bodyChild>>
       ELSE /\ construction' = "inFunction"
            /\ irFunction' = built.ir
            /\ bodyContract' = built.ir[1].outcome.failureType
            /\ bodyChild' = FirstOfKind(unit.children[child], "FailureSpecification") + 1
            /\ UNCHANGED irErrors
  /\ UNCHANGED <<unit, resolutions, child, program, contract>>

BuildBodyChild ==
  /\ construction = "inFunction"
  /\ bodyChild <= Len(unit.children[child].children)
  /\ LET node == unit.children[child].children[bodyChild]
     IN  /\ bodyContract' = ContractAfter(node, bodyContract)
         /\ \E built \in {Build(node, bodyContract)} :
              IF built.ir = <<>>
              THEN Stop(built.errors) /\ UNCHANGED <<irFunction, bodyChild>>
              ELSE /\ irFunction' = <<[irFunction[1] EXCEPT !.children = @ \o built.ir]>>
                   /\ bodyChild' = bodyChild + 1
                   /\ UNCHANGED <<construction, irErrors>>
  /\ UNCHANGED <<unit, resolutions, child, program, contract>>

EndFunction ==
  /\ construction = "inFunction"
  /\ bodyChild > Len(unit.children[child].children)
  /\ program' = program \o irFunction
  /\ irFunction' = <<>>
  /\ construction' = "building"
  /\ child' = child + 1
  /\ UNCHANGED <<unit, resolutions, bodyChild, contract, bodyContract, irErrors>>

FinishConstruction ==
  /\ construction = "building" /\ child > Len(unit.children)
  /\ construction' = "built"
  /\ child' = 1
  /\ UNCHANGED <<unit, resolutions, bodyChild, program, irFunction, contract, bodyContract,
                 irErrors>>

Next ==
  BuildTopLevel \/ BeginFunction \/ BuildBodyChild \/ EndFunction \/ FinishConstruction

=============================================================================
