-------------------------- MODULE ResolutionProofs --------------------------
(***************************************************************************)
(* The callees of the `try` expressions, for every stream of tokens: the   *)
(* analysis resolves each `try` it visits to the one function of the unit  *)
(* with the name it calls, and the construction gives the propagation it   *)
(* builds from that `try` the same callee.                                 *)
(***************************************************************************)
EXTENDS OutputProofs

-----------------------------------------------------------------------------
(* What the analysis resolves.  A resolution belongs to one visited `try`, *)
(* since no two tokens read as an expression of the same range, and a      *)
(* registered function to one function of the unit.                        *)

NameOf(t) == Analysis!Spelling(tokens, t.children[1].children[1].range)

\* "source" tells for every function of the list which child of the unit, of
\* those before "bound", declares it; all that declare one are in the list.
Registers(functions, source, bound) ==
  /\ source \in [1..Len(functions) -> 1..bound-1]
  /\ \A id \in 1..Len(functions) :
       Analysis!Declared(unit.children[source[id]]) = <<functions[id]>>
  /\ \A k \in 1..bound-1 :
       Analysis!Declared(unit.children[k]) # <<>> => \E id \in 1..Len(functions) : source[id] = k

Registered(functions, bound) ==
  \E source \in [1..Len(functions) -> 1..bound-1] : Registers(functions, source, bound)

\* A resolution is that of a visited `try`, to the one function of its name.
FromTry(r) ==
  \E at \in 2..Len(tokens) :
    /\ Visited(TryExpression(at).node)
    /\ r.try = TryExpression(at).node.range
    /\ Analysis!Candidates(NameOf(TryExpression(at).node)) = {r.callee}

AllFromTries(list) == IsList(list) /\ \A i \in 1..Len(list) : FromTry(list[i])

\* The list resolves the `try` to a function.
Resolves(list, t, id) ==
  \E i \in 1..Len(list) : list[i].try = t.range /\ list[i].callee = id

\* The `try` is resolved, to the one function of its name, which fails with
\* the type its own function fails with.
SettledBy(list, t, type) ==
  \E id \in 1..Len(failureFunctions) :
    /\ Analysis!Candidates(NameOf(t)) = {id}
    /\ Analysis!NormalizedType(type) = Analysis!NormalizedType(failureFunctions[id].failureType)
    /\ Resolves(list, t, id)

NodeSettledBy(list, node, type) ==
  /\ node.kind = "TryExpression" => SettledBy(list, node, type)
  /\ node.kind = "TryInitialization" => SettledBy(list, node.children[2], type)

\* What a check of a visited `try` reports and records.
CheckedTry(checked, t) ==
  \/ checked.errors # <<>> /\ checked.resolution = <<>>
  \/ \E id \in 1..Len(failureFunctions) :
       /\ checked.errors = <<>>
       /\ Analysis!Candidates(NameOf(t)) = {id}
       /\ Analysis!NormalizedType(Analysis!Last(failureContexts).type)
            = Analysis!NormalizedType(failureFunctions[id].failureType)
       /\ \E r : checked.resolution = <<r>> /\ r.try = t.range /\ r.callee = id

LEMMA OneCandidate ==
  ASSUME NEW name, IsList(failureFunctions), Analysis!Candidates(name) # {},
         ~(Analysis!Cardinality(Analysis!Candidates(name)) > 1)
  PROVE  /\ Analysis!Candidates(name) = {Analysis!Min(Analysis!Candidates(name))}
         /\ Analysis!Min(Analysis!Candidates(name)) \in 1..Len(failureFunctions)
<1> DEFINE S == Analysis!Candidates(name)
<1>1. Analysis!Min(S) \in 1..Len(failureFunctions)
  BY CandidatesExist
<1>2. S \in SUBSET (1..Len(failureFunctions)) /\ Len(failureFunctions) \in Nat
  BY DEF Analysis!Candidates, IsList
<1>3. Analysis!Cardinality(S) = Cardinality(S)
  BY DEF Analysis!Cardinality, Cardinality
<1>4. Analysis!Min(S) = Min(S)
  BY DEF Analysis!Min, Min
<1> HIDE DEF S
<1>5. IsFiniteSet(S) /\ Cardinality(S) \in Nat
  <2>1. IsFiniteSet(1..Len(failureFunctions))
    BY <1>2, FS_Interval
  <2>2. IsFiniteSet(S)
    BY <1>2, <2>1, FS_Subset
  <2> QED
    BY <2>2, FS_CardinalityType
<1>6. Cardinality(S) = 1
  <2>1. Cardinality(S) # 0
    BY <1>5, FS_EmptySet DEF S
  <2>2. ~(Cardinality(S) > 1)
    BY <1>3 DEF S
  <2> QED
    BY <1>5, <2>1, <2>2
<1>7. \E x : S = {x}
  BY <1>5, <1>6, FS_Singleton
<1>8. Min(S) \in S
  BY <1>2, MinOfNaturals DEF S
<1> QED
  BY <1>1, <1>4, <1>7, <1>8 DEF S

LEMMA TryIsAnswered ==
  ASSUME NEW t, IsList(failureFunctions)
  PROVE  CheckedTry(Analysis!CheckTry(t), t)
<1> DEFINE candidates == Analysis!Candidates(NameOf(t))
           id == Analysis!Min(candidates)
           r == [try |-> t.range, callee |-> id,
                 failureType |-> failureFunctions[id].failureType]
<1>1. \A code : CheckedTry(Analysis!Rejected(code), t)
  BY OneIsNotNone DEF Analysis!Rejected, CheckedTry
<1>2. ASSUME candidates # {}, ~(Analysis!Cardinality(candidates) > 1)
      PROVE  CheckedTry(Analysis!CheckPropagation(t, id), t)
  <2>1. candidates = {id} /\ id \in 1..Len(failureFunctions)
    BY <1>2, OneCandidate
  <2>2. r.try = t.range /\ r.callee = id
    OBVIOUS
  <2>3. Analysis!CheckPropagation(t, id)
          = IF Analysis!NormalizedType(Analysis!Last(failureContexts).type)
                 # Analysis!NormalizedType(failureFunctions[id].failureType)
            THEN Analysis!Rejected("VIXC2022")
            ELSE [errors |-> <<>>, resolution |-> <<r>>]
    BY DEF Analysis!CheckPropagation
  <2> HIDE DEF id, candidates, r
  <2>4. CASE Analysis!NormalizedType(Analysis!Last(failureContexts).type)
               # Analysis!NormalizedType(failureFunctions[id].failureType)
    BY <1>1, <2>3, <2>4
  <2>5. CASE Analysis!NormalizedType(Analysis!Last(failureContexts).type)
               = Analysis!NormalizedType(failureFunctions[id].failureType)
    <3> DEFINE checked == [errors |-> <<>>, resolution |-> <<r>>]
    <3>1. checked.errors = <<>> /\ checked.resolution = <<r>>
      OBVIOUS
    <3> HIDE DEF checked
    <3>2. CheckedTry(checked, t)
      BY <2>1, <2>2, <2>5, <3>1 DEF CheckedTry, candidates
    <3> QED
      BY <2>3, <2>5, <3>2 DEF checked
  <2> QED
    BY <2>4, <2>5
<1> HIDE DEF CheckedTry
<1> QED
  BY <1>1, <1>2 DEF Analysis!CheckTry, NameOf

\* What a check reports and records, when the node is one the parser read.
LEMMA NodeIsAnswered ==
  ASSUME NEW node, IsList(failureFunctions)
  PROVE  /\ node.kind = "TryExpression" => CheckedTry(Analysis!Check(node), node)
         /\ node.kind = "TryInitialization" =>
              CheckedTry(Analysis!Check(node), node.children[2])
         /\ node.kind \notin {"TryExpression", "TryInitialization"} =>
              Analysis!Check(node).resolution = <<>>
<1>1. \A n : CheckedTry(Analysis!CheckTry(n), n)
  BY TryIsAnswered
<1>2. /\ \A code : Analysis!Rejected(code).resolution = <<>>
      /\ Analysis!Accepted.resolution = <<>>
  BY DEF Analysis!Rejected, Analysis!Accepted
<1>3. /\ Analysis!CheckSpecification(node).resolution = <<>>
      /\ Analysis!CheckFail(node).resolution = <<>>
  BY <1>2 DEF Analysis!CheckSpecification, Analysis!CheckFail
<1> QED
  BY <1>1, <1>2, <1>3 DEF Analysis!Check

\* The resolution of a visited `try` is recorded beside those there are, each
\* of which stays: the one replaced, if any, has the same callee.
LEMMA RecordedKeepsTries ==
  ASSUME IsTokenStream(tokens), AllFromTries(resolutions),
         NEW t, Visited(t), NEW new, new.try = t.range,
         Analysis!Candidates(NameOf(t)) = {new.callee}
  PROVE  /\ AllFromTries(Analysis!Recorded(new))
         /\ Resolves(Analysis!Recorded(new), t, new.callee)
         /\ \A s, id : Resolves(resolutions, s, id) => Resolves(Analysis!Recorded(new), s, id)
<1> DEFINE n == Len(resolutions)
           replaced == [i \in DOMAIN resolutions |->
                          IF resolutions[i].try = new.try THEN new ELSE resolutions[i]]
<1>1. n \in Nat /\ DOMAIN resolutions = 1..n /\ IsList(resolutions)
      /\ \A i \in 1..n : FromTry(resolutions[i])
  BY DEF AllFromTries, IsList
<1>2. FromTry(new)
  <2>1. PICK at \in 2..Len(tokens) : ReadAt(t, at) /\ Kind(at-1) # "fail"
    BY DEF Visited
  <2>2. t = TryExpression(at).node
    BY <2>1 DEF ReadAt
  <2> QED
    BY <2>1, <2>2 DEF FromTry
<1>3. \A i \in 1..n : resolutions[i].try = new.try => resolutions[i].callee = new.callee
  <2> SUFFICES ASSUME NEW i \in 1..n, resolutions[i].try = new.try
               PROVE  resolutions[i].callee = new.callee
    OBVIOUS
  <2>1. PICK at \in 2..Len(tokens) :
          /\ Visited(TryExpression(at).node)
          /\ resolutions[i].try = TryExpression(at).node.range
          /\ Analysis!Candidates(NameOf(TryExpression(at).node)) = {resolutions[i].callee}
    BY <1>1 DEF FromTry
  <2>2. PICK s : s = TryExpression(at).node
    OBVIOUS
  <2>3. \E a, b : ReadAt(s, a) /\ ReadAt(t, b)
    BY <2>1, <2>2 DEF Visited
  <2>4. s.range = t.range
    BY <2>1, <2>2
  <2>5. s = t
    BY <2>3, <2>4, RangeNamesTheTry
  <2>6. {resolutions[i].callee} = {new.callee}
    BY <2>1, <2>2, <2>5
  <2> QED
    BY <2>6
<1>4. CASE \E r \in Analysis!ToSet(resolutions) : r.try = new.try
  <2>1. Analysis!Recorded(new) = replaced
    BY <1>4 DEF Analysis!Recorded
  <2>2. \A i \in 1..n : /\ replaced[i] = new \/ replaced[i] = resolutions[i]
                        /\ replaced[i].try = resolutions[i].try
                        /\ replaced[i].callee = resolutions[i].callee
    BY <1>1, <1>3
  <2>3. PICK k \in 1..n : resolutions[k].try = new.try
    BY <1>1, <1>4 DEF Analysis!ToSet
  <2>4. replaced \in [1..n -> {replaced[i] : i \in 1..n}]
    BY <1>1
  <2> HIDE DEF replaced
  <2>5. IsList(replaced) /\ Len(replaced) = n
    BY <1>1, <2>4, FunctionIsSequence, SeqIsList
  <2>6. AllFromTries(replaced)
    BY <1>1, <1>2, <2>2, <2>5 DEF AllFromTries
  <2>7. Resolves(replaced, t, new.callee)
    BY <1>3, <2>2, <2>3, <2>5 DEF Resolves
  <2>8. \A s, id : Resolves(resolutions, s, id) => Resolves(replaced, s, id)
    BY <2>2, <2>5 DEF Resolves
  <2> QED
    BY <2>1, <2>6, <2>7, <2>8
<1>5. CASE ~\E r \in Analysis!ToSet(resolutions) : r.try = new.try
  <2> DEFINE longer == resolutions \o <<new>>
  <2>1. Append(resolutions, new) = longer
    BY <1>1 DEF IsList
  <2>2. Analysis!Recorded(new) = longer
    BY <1>5, <2>1 DEF Analysis!Recorded
  <2>3. /\ IsList(longer) /\ Len(longer) = n + 1
        /\ \A k \in 1..n : longer[k] = resolutions[k]
        /\ longer[n + 1] = new
    BY <1>1, PushedElement
  <2> HIDE DEF longer
  <2>4. \A i \in 1..n+1 : i \in 1..n \/ i = n + 1
    BY <1>1
  <2>5. n + 1 \in 1..n+1 /\ \A i \in 1..n : i \in 1..n+1
    BY <1>1
  <2>6. AllFromTries(longer)
    BY <1>1, <1>2, <2>3, <2>4 DEF AllFromTries
  <2>7. Resolves(longer, t, new.callee)
    BY <2>3, <2>5 DEF Resolves
  <2>8. \A s, id : Resolves(resolutions, s, id) => Resolves(longer, s, id)
    BY <2>3, <2>5 DEF Resolves
  <2> QED
    BY <2>2, <2>6, <2>7, <2>8
<1> QED
  BY <1>4, <1>5

\* A report over a visited node: what was resolved stays so, and unless an
\* error is reported a `try` is resolved.
LEMMA ReportResolves ==
  ASSUME NEW node, Analysis!Report(node), ChildRead(node), IsTokenStream(tokens),
         IsList(failureFunctions), IsList(semanticErrors), AllFromTries(resolutions),
         IsList(Analysis!Check(node).errors)
  PROVE  /\ AllFromTries(resolutions')
         /\ \A s, type : SettledBy(resolutions, s, type) => SettledBy(resolutions', s, type)
         /\ semanticErrors' = <<>> =>
              /\ semanticErrors = <<>>
              /\ NodeSettledBy(resolutions', node, Analysis!Last(failureContexts).type)
<1> DEFINE checked == Analysis!Check(node)
           t == IF node.kind = "TryExpression" THEN node ELSE node.children[2]
<1>1. /\ semanticErrors' = semanticErrors \o checked.errors
      /\ resolutions' = IF checked.resolution = <<>> THEN resolutions
                        ELSE Analysis!Recorded(checked.resolution[1])
  BY DEF Analysis!Report
<1>2. semanticErrors' = <<>> => semanticErrors = <<>> /\ checked.errors = <<>>
  <2> HIDE DEF checked
  <2>1. IsList(checked.errors)
    BY DEF checked
  <2> QED
    BY <1>1, <2>1, NothingReported
<1>3. CASE node.kind \notin {"TryExpression", "TryInitialization"}
  <2>1. checked.resolution = <<>>
    BY <1>3, NodeIsAnswered
  <2>2. resolutions' = resolutions
    BY <1>1, <2>1
  <2>3. \A list, type : NodeSettledBy(list, node, type)
    BY <1>3 DEF NodeSettledBy
  <2> QED
    BY <1>2, <2>2, <2>3
<1>4. CASE node.kind \in {"TryExpression", "TryInitialization"}
  <2>1. CheckedTry(checked, t) /\ Visited(t)
    BY <1>4, NodeIsAnswered DEF ChildRead
  <2>2. ASSUME NEW list, NEW type, SettledBy(list, t, type)
        PROVE  NodeSettledBy(list, node, type)
    BY <1>4, <2>2 DEF NodeSettledBy
  <2> HIDE DEF checked, t
  <2>3. CASE checked.errors # <<>> /\ checked.resolution = <<>>
    BY <1>1, <1>2, <2>3
  <2>4. CASE ~(checked.errors # <<>> /\ checked.resolution = <<>>)
    <3>1. PICK id \in 1..Len(failureFunctions) :
            /\ Analysis!Candidates(NameOf(t)) = {id}
            /\ Analysis!NormalizedType(Analysis!Last(failureContexts).type)
                 = Analysis!NormalizedType(failureFunctions[id].failureType)
            /\ \E r : checked.resolution = <<r>> /\ r.try = t.range /\ r.callee = id
      BY <2>1, <2>4 DEF CheckedTry
    <3>2. PICK r : checked.resolution = <<r>> /\ r.try = t.range /\ r.callee = id
      BY <3>1
    <3>3. checked.resolution[1] = r /\ checked.resolution # <<>>
      BY <3>2, SingletonList, OneIsNotNone
    <3>4. resolutions' = Analysis!Recorded(r)
      BY <1>1, <3>3
    <3>5. /\ AllFromTries(Analysis!Recorded(r))
          /\ Resolves(Analysis!Recorded(r), t, id)
          /\ \A s, i : Resolves(resolutions, s, i) => Resolves(Analysis!Recorded(r), s, i)
      BY <2>1, <3>1, <3>2, RecordedKeepsTries
    <3>6. SettledBy(resolutions', t, Analysis!Last(failureContexts).type)
      BY <3>1, <3>4, <3>5 DEF SettledBy
    <3>7. \A s, type : SettledBy(resolutions, s, type) => SettledBy(resolutions', s, type)
      BY <3>4, <3>5 DEF SettledBy
    <3> QED
      BY <1>2, <2>2, <3>4, <3>5, <3>6, <3>7
  <2> QED
    BY <2>3, <2>4
<1> QED
  BY <1>3, <1>4

\* The first and the last child of a kind, as the passes find them.
LEMMA FirstChild ==
  ASSUME NEW node, IsList(node.children), NEW kind, NEW at,
         at = Analysis!FirstOfKind(node, kind)
  PROVE  /\ at \in 0..Len(node.children)
         /\ at = Construction!FirstOfKind(node, kind)
         /\ at = 0 => \A i \in 1..Len(node.children) : node.children[i].kind # kind
         /\ at # 0 => /\ node.children[at].kind = kind
                      /\ \A i \in 1..Len(node.children) :
                           node.children[i].kind = kind => at <= i
<1> DEFINE S == {i \in 1..Len(node.children) : node.children[i].kind = kind}
<1>1. at = IF S = {} THEN 0 ELSE Min(S)
  BY DEF Analysis!FirstOfKind, Analysis!SelectInSeq, Analysis!Min, Min
<1>2. Construction!FirstOfKind(node, kind) = IF S = {} THEN 0 ELSE Min(S)
  BY DEF Construction!FirstOfKind, Construction!SelectInSeq, Construction!Min, Min
<1>3. Len(node.children) \in Nat
  BY DEF IsList
<1>4. S # {} => Min(S) \in S /\ \A i \in S : Min(S) <= i
  <2>1. S \in SUBSET Nat
    OBVIOUS
  <2> HIDE DEF S
  <2> QED
    BY <2>1, MinOfNaturals
<1>5. CASE S = {}
  BY <1>1, <1>2, <1>3, <1>5
<1>6. CASE S # {}
  <2>1. at \in S /\ \A i \in S : at <= i
    BY <1>1, <1>4, <1>6
  <2>2. at = Construction!FirstOfKind(node, kind)
    BY <1>1, <1>2
  <2> QED
    BY <1>3, <2>1, <2>2
<1> QED
  BY <1>5, <1>6

LEMMA LastChild ==
  ASSUME NEW node, IsList(node.children), NEW kind, NEW at,
         at = Analysis!LastOfKind(node, kind)
  PROVE  /\ at \in 0..Len(node.children)
         /\ at = 0 => \A i \in 1..Len(node.children) : node.children[i].kind # kind
         /\ at # 0 => /\ node.children[at].kind = kind
                      /\ \A i \in 1..Len(node.children) :
                           node.children[i].kind = kind => i <= at
<1> DEFINE S == {i \in 1..Len(node.children) : node.children[i].kind = kind}
<1>1. at = IF S = {} THEN 0 ELSE Max(S)
  BY DEF Analysis!LastOfKind, Analysis!SelectLastInSeq, Analysis!Max, Max
<1>2. Len(node.children) \in Nat
  BY DEF IsList
<1>3. S # {} => Max(S) \in S /\ \A i \in S : i <= Max(S)
  <2>1. S \in SUBSET (0..Len(node.children))
    OBVIOUS
  <2> HIDE DEF S
  <2> QED
    BY <1>2, <2>1, MaxOfNaturals
<1>4. CASE S = {}
  BY <1>1, <1>2, <1>4
<1>5. CASE S # {}
  <2>1. at \in S /\ \A i \in S : i <= at
    BY <1>1, <1>3, <1>5
  <2> QED
    BY <1>2, <2>1
<1> QED
  BY <1>4, <1>5

\* The tree the passes work over, once the parser is done.
FinishedTree ==
  /\ IsTokenStream(tokens) /\ syntaxErrors = <<>>
  /\ AllGood(unit.children, TRUE) /\ UnitRead(unit.children)

LEMMA FunctionsOfTheTree ==
  ASSUME FinishedTree, NEW k \in 1..Len(unit.children),
         unit.children[k].kind = "FunctionDeclaration"
  PROVE  /\ IsList(unit.children[k].children)
         /\ FunctionRead(unit.children[k].children)
         /\ WholeChildren(unit.children[k].children)
         /\ \E at \in 1..Len(unit.children[k].children) :
              /\ at = Analysis!FirstOfKind(unit.children[k], "FailureSpecification")
              /\ Analysis!ContractOf(unit.children[k]) = unit.children[k].children[at]
              /\ unit.children[k].children[at].kind = "FailureSpecification"
              /\ Len(unit.children[k].children[at].children) = 1
              /\ \A j \in 1..at : unit.children[k].children[j].kind
                                    \notin {"TryExpression", "TryInitialization"}
<1> DEFINE node == unit.children[k]
<1>1. Good(node, TRUE) /\ FunctionRead(node.children)
  BY DEF FinishedTree, AllGood, UnitRead
<1>2. node.kind = "FunctionDeclaration"
  OBVIOUS
<1> HIDE DEF node
<1>3. IsList(node.children) /\ WholeChildren(node.children) /\ Headed(node.children)
  BY <1>1, <1>2 DEF Good
<1>4. PICK at : at = Analysis!FirstOfKind(node, "FailureSpecification")
  OBVIOUS
<1>5. /\ at \in 1..Len(node.children) /\ node.children[at].kind = "FailureSpecification"
      /\ \A i \in 1..Len(node.children) :
           node.children[i].kind = "FailureSpecification" => at <= i
  <2>1. /\ at \in 0..Len(node.children)
        /\ at = 0 => \A i \in 1..Len(node.children) :
                       node.children[i].kind # "FailureSpecification"
        /\ at # 0 => /\ node.children[at].kind = "FailureSpecification"
                     /\ \A i \in 1..Len(node.children) :
                          node.children[i].kind = "FailureSpecification" => at <= i
    BY <1>3, <1>4, FirstChild
  <2>2. at # 0
    BY <1>3, <2>1 DEF Headed
  <2> QED
    BY <2>1, <2>2
<1>6. Len(node.children[at].children) = 1
  BY <1>3, <1>5 DEF WholeChildren, CompleteConstruct
<1>7. ASSUME NEW j \in 1..at, node.children[j].kind \in {"TryExpression", "TryInitialization"}
      PROVE  FALSE
  <2>1. j \in 1..Len(node.children) /\ Len(node.children) \in Nat
    BY <1>3, <1>5 DEF IsList
  <2>2. PICK h \in 1..j : node.children[h].kind = "FailureSpecification"
    BY <1>1, <1>7, <2>1 DEF FunctionRead, ConstructsFollow, Demanding
  <2>3. at <= h
    BY <1>5, <2>1, <2>2
  <2>4. h = j
    BY <1>5, <2>1, <2>2, <2>3
  <2> QED
    BY <1>7, <2>2, <2>4
<1>8. Analysis!ContractOf(node) = node.children[at]
  BY <1>4 DEF Analysis!ContractOf
<1> QED
  BY <1>1, <1>3, <1>4, <1>5, <1>6, <1>7, <1>8 DEF node

-----------------------------------------------------------------------------
(* The invariant of the resolutions.                                       *)

ContractType(f) == Analysis!ContractOf(f).children[1].range

FunctionSettledBy(list, f, to) ==
  \A j \in 1..to-1 : NodeSettledBy(list, f.children[j], ContractType(f))

UnitSettledBy(list, to) ==
  \A k \in 1..to-1 :
    unit.children[k].kind = "FunctionDeclaration" =>
      FunctionSettledBy(list, unit.children[k], Len(unit.children[k].children) + 1)

ResolvesInv ==
  /\ analysis = "collecting" => resolutions = <<>>
  /\ analysis # "collecting" => syntaxErrors = <<>>
  /\ stage = "analyze" /\ analysis = "collecting" => Registered(failureFunctions, child)
  /\ analysis # "collecting" => Registered(failureFunctions, Len(unit.children) + 1)
  /\ AllFromTries(resolutions)
  /\ stage = "analyze" /\ analysis \in {"analyzing", "inFunction"} /\ semanticErrors = <<>> =>
       UnitSettledBy(resolutions, child)
  /\ stage = "analyze" /\ analysis = "inFunction" =>
       /\ bodyChild \in 1..Len(unit.children[child].children) + 1
       /\ semanticErrors = <<>> =>
            FunctionSettledBy(resolutions, unit.children[child], bodyChild)
  /\ analysis = "accepted" => UnitSettledBy(resolutions, Len(unit.children) + 1)

Joined(words) == Analysis!FoldLeft(LAMBDA text, word : text \o word, "", words)

LEMMA TypesAreJoined ==
  \A range : Analysis!NormalizedType(range) = Joined(Analysis!Spelling(tokens, range))
BY DEF Analysis!NormalizedType, Joined

\* A declaration reads alike in the next state, and so do the resolutions.
LEMMA DeclaredStays ==
  ASSUME tokens' = tokens
  PROVE  /\ \A node : Analysis!Declared(node)' = Analysis!Declared(node)
         /\ \A t : NameOf(t)' = NameOf(t)
         /\ \A range : Analysis!NormalizedType(range)' = Analysis!NormalizedType(range)
<1>1. \A node : Analysis!Declared(node)' = Analysis!Declared(node)
  BY DEF Analysis!Declared
<1>2. \A t : NameOf(t)' = NameOf(t)
  BY DEF NameOf
<1>3. \A range : Analysis!NormalizedType(range)' = Analysis!NormalizedType(range)
  <2>1. (\A range : Analysis!NormalizedType(range) = Joined(Analysis!Spelling(tokens, range)))'
    BY TypesAreJoined, PTL
  <2>2. \A range : Analysis!NormalizedType(range)' = Joined(Analysis!Spelling(tokens', range))
    BY <2>1
  <2> QED
    BY <2>2, TypesAreJoined
<1> QED
  BY <1>1, <1>2, <1>3

LEMMA SettledStays ==
  ASSUME tokens' = tokens, unit' = unit, failureFunctions' = failureFunctions
  PROVE  /\ \A r : FromTry(r)' <=> FromTry(r)
         /\ \A list, f, to : FunctionSettledBy(list, f, to)' <=> FunctionSettledBy(list, f, to)
         /\ \A list, to : UnitSettledBy(list, to)' <=> UnitSettledBy(list, to)
<1>1. \A name : Analysis!Candidates(name)' = Analysis!Candidates(name)
  BY DEF Analysis!Candidates
<1>2. \A t : Analysis!Candidates(NameOf(t))' = Analysis!Candidates(NameOf(t))
  <2> SUFFICES ASSUME NEW t
               PROVE  Analysis!Candidates(NameOf(t))' = Analysis!Candidates(NameOf(t))
    OBVIOUS
  <2> QED
    BY DeclaredStays DEF Analysis!Candidates
<1>3. \A r : FromTry(r)' <=> FromTry(r)
  <2>1. \A at : /\ TryExpression(at)' = TryExpression(at)
                /\ Visited(TryExpression(at).node)' <=> Visited(TryExpression(at).node)
    <3>1. \A at : TryExpression(at)' = TryExpression(at)
      BY TriesStay
    <3>2. \A node : Visited(node)' <=> Visited(node)
      BY ChildReadStays
    <3> QED
      BY <3>1, <3>2
  <2> QED
    BY <1>2, <2>1 DEF FromTry
<1>4. \A list, t, type : SettledBy(list, t, type)' <=> SettledBy(list, t, type)
  BY <1>2, DeclaredStays DEF SettledBy, Resolves
<1>5. \A list, node, type : NodeSettledBy(list, node, type)' <=> NodeSettledBy(list, node, type)
  BY <1>4 DEF NodeSettledBy
<1>6. \A list, f, to : FunctionSettledBy(list, f, to)' <=> FunctionSettledBy(list, f, to)
  BY <1>5 DEF FunctionSettledBy
<1>7. \A list, to : UnitSettledBy(list, to)' <=> UnitSettledBy(list, to)
  BY <1>6 DEF UnitSettledBy
<1> QED
  BY <1>3, <1>6, <1>7

\* One more child of the unit is looked at.
LEMMA RegisteredNext ==
  ASSUME NEW functions, IsList(functions), NEW bound \in Nat, bound > 0,
         Registered(functions, bound)
  PROVE  Registered(functions \o Analysis!Declared(unit.children[bound]), bound + 1)
<1> DEFINE n == Len(functions)
           declared == Analysis!Declared(unit.children[bound])
<1>1. PICK source \in [1..n -> 1..bound-1] : Registers(functions, source, bound)
  BY DEF Registered
<1>2. n \in Nat
  BY DEF IsList
<1>3. /\ \A k \in 1..(bound+1)-1 : k \in 1..bound-1 \/ k = bound
      /\ \A k \in 1..bound-1 : k \in 1..(bound+1)-1
      /\ bound \in 1..(bound+1)-1
      /\ 1..(bound+1)-1 = 1..bound
  OBVIOUS
<1>4. CASE declared = <<>>
  <2>1. functions \o declared = functions
    BY <1>4, NothingAppended
  <2>2. source \in [1..n -> 1..(bound+1)-1]
    BY <1>1, <1>3
  <2>3. Registers(functions, source, bound + 1)
    BY <1>1, <1>3, <1>4, <2>2 DEF Registers
  <2> QED
    BY <2>1, <2>2, <2>3 DEF Registered
<1>5. CASE declared # <<>>
  <2>1. PICK d : declared = <<d>>
    BY <1>5 DEF Analysis!Declared
  <2> DEFINE longer == functions \o <<d>>
             more == [id \in 1..n+1 |-> IF id = n+1 THEN bound ELSE source[id]]
  <2>2. /\ Len(longer) = n + 1 /\ longer[n+1] = d
        /\ \A id \in 1..n : longer[id] = functions[id]
    BY PushedElement
  <2>3. /\ \A id \in 1..n+1 : id \in 1..n \/ id = n+1
        /\ \A id \in 1..n : id \in 1..n+1 /\ id # n+1
        /\ n+1 \in 1..n+1
    BY <1>2
  <2>4. /\ more[n+1] = bound
        /\ \A id \in 1..n : more[id] = source[id]
    BY <2>3
  <2>5. more \in [1..n+1 -> 1..(bound+1)-1]
    BY <1>1, <1>3, <2>3
  <2> HIDE DEF longer, more, declared, n
  <2>6. ASSUME NEW id \in 1..n+1
        PROVE  Analysis!Declared(unit.children[more[id]]) = <<longer[id]>>
    <3>1. CASE id = n+1
      BY <2>1, <2>2, <2>4, <3>1 DEF declared
    <3>2. CASE id # n+1
      <4>1. id \in 1..n
        BY <2>3, <3>2
      <4> QED
        BY <1>1, <2>2, <2>4, <4>1 DEF Registers, n
    <3> QED
      BY <3>1, <3>2
  <2>7. ASSUME NEW k \in 1..(bound+1)-1, Analysis!Declared(unit.children[k]) # <<>>
        PROVE  \E id \in 1..n+1 : more[id] = k
    <3>1. CASE k = bound
      BY <2>3, <2>4, <3>1
    <3>2. CASE k # bound
      <4>1. k \in 1..bound-1
        BY <1>3, <3>2
      <4>2. PICK id \in 1..n : source[id] = k
        BY <1>1, <2>7, <4>1 DEF Registers, n
      <4> QED
        BY <2>3, <2>4, <4>2
    <3> QED
      BY <3>1, <3>2
  <2>8. Registers(longer, more, bound + 1)
    BY <2>2, <2>5, <2>6, <2>7 DEF Registers
  <2> QED
    BY <2>1, <2>2, <2>5, <2>8 DEF Registered, longer, declared
<1> QED
  BY <1>4, <1>5

LEMMA RegisteredStays ==
  ASSUME tokens' = tokens, unit' = unit
  PROVE  \A functions, bound : Registered(functions, bound)' <=> Registered(functions, bound)
<1>1. \A k : Analysis!Declared(unit.children[k])' = Analysis!Declared(unit.children[k])
  BY DEF Analysis!Declared
<1>2. \A functions, source, bound :
        Registers(functions, source, bound)' <=> Registers(functions, source, bound)
  BY <1>1 DEF Registers
<1> QED
  BY <1>2 DEF Registered

\* What a pass of the analysis leaves behind is settled in the next state.
LEMMA ResolvesNow ==
  ASSUME UNCHANGED <<tokens, unit, failureFunctions, syntaxErrors>>, syntaxErrors = <<>>,
         analysis' # "collecting", Registered(failureFunctions, Len(unit.children) + 1),
         AllFromTries(resolutions'),
         stage' = "analyze" /\ analysis' \in {"analyzing", "inFunction"} /\ semanticErrors' = <<>> =>
           UnitSettledBy(resolutions', child'),
         stage' = "analyze" /\ analysis' = "inFunction" =>
           /\ bodyChild' \in 1..Len(unit.children[child'].children) + 1
           /\ semanticErrors' = <<>> =>
                FunctionSettledBy(resolutions', unit.children[child'], bodyChild'),
         analysis' = "accepted" => UnitSettledBy(resolutions', Len(unit.children) + 1)
  PROVE  ResolvesInv'
<1>1. /\ \A r : FromTry(r)' <=> FromTry(r)
      /\ \A list, f, to : FunctionSettledBy(list, f, to)' <=> FunctionSettledBy(list, f, to)
      /\ \A list, to : UnitSettledBy(list, to)' <=> UnitSettledBy(list, to)
  BY SettledStays
<1>2. \A functions, bound : Registered(functions, bound)' <=> Registered(functions, bound)
  BY RegisteredStays
<1>3. PICK list, to, at, f, end, functions :
        /\ list = resolutions' /\ to = child' /\ at = bodyChild'
        /\ f = unit'.children[child'] /\ end = Len(unit'.children) + 1
        /\ functions = failureFunctions'
  OBVIOUS
<1>4. AllFromTries(resolutions)'
  <2>1. \A i \in 1..Len(list) : FromTry(list[i])'
    BY <1>1, <1>3 DEF AllFromTries
  <2> QED
    BY <1>3, <2>1 DEF AllFromTries
<1>5. Registered(failureFunctions, Len(unit.children) + 1)'
  <2>1. Registered(functions, end)'
    BY <1>2, <1>3
  <2> QED
    BY <1>3, <2>1 DEF Registered
<1>6. UnitSettledBy(list, to) => UnitSettledBy(resolutions, child)'
  <2>1. UnitSettledBy(list, to) => UnitSettledBy(list, to)'
    BY <1>1
  <2> QED
    BY <1>3, <2>1 DEF UnitSettledBy
<1>7. UnitSettledBy(list, end) => UnitSettledBy(resolutions, Len(unit.children) + 1)'
  <2>1. UnitSettledBy(list, end) => UnitSettledBy(list, end)'
    BY <1>1
  <2> QED
    BY <1>3, <2>1 DEF UnitSettledBy
<1>8. FunctionSettledBy(list, f, at) =>
        FunctionSettledBy(resolutions, unit.children[child], bodyChild)'
  <2>1. FunctionSettledBy(list, f, at) => FunctionSettledBy(list, f, at)'
    BY <1>1
  <2> QED
    BY <1>3, <2>1 DEF FunctionSettledBy
<1> QED
  BY <1>3, <1>4, <1>5, <1>6, <1>7, <1>8 DEF ResolvesInv

\* What the analysis starts its step with.
LEMMA AnalysisFacts ==
  ASSUME CallInv, TriesInv, ResolvesInv, Analyze
  PROVE  /\ stage = "analyze" /\ stage' = "analyze"
         /\ FinishedTree /\ Len(unit.children) \in Nat
         /\ UNCHANGED <<tokens, unit, syntaxErrors>> /\ syntaxErrors = <<>>
         /\ IsList(failureFunctions) /\ IsList(resolutions) /\ IsList(semanticErrors)
         /\ child \in 1..Len(unit.children) + 1
         /\ analysis = "inFunction" =>
              /\ child \in 1..Len(unit.children)
              /\ unit.children[child].kind = "FunctionDeclaration"
              /\ failureContexts =
                   <<[specification |-> Analysis!ContractOf(unit.children[child]).range,
                      type |-> ContractType(unit.children[child])]>>
         /\ analysis # "inFunction" => failureContexts = <<>>
<1>1. stage = "analyze" /\ stage' = "analyze"
  BY DEF Analyze, controlVars
<1>2. AnalysisInv /\ phase = "done" /\ syntaxErrors = <<>>
  BY <1>1 DEF CallInv, RInv, SInv, AnalysisInv
<1>3. FinishedTree /\ Len(unit.children) \in Nat
  <2>1. IsTokenStream(tokens)
    BY DEF CallInv, IInv, ParserTypeOK
  <2>2. AllGood(unit.children, TRUE) /\ UnitRead(unit.children)
    BY <1>2 DEF CallInv, TreeInv, TriesInv, Clean, AllGood
  <2> QED
    <3>1. Len(unit.children) \in Nat
      BY <2>2 DEF AllGood, IsList
    <3> QED
      BY <1>2, <2>1, <2>2, <3>1 DEF FinishedTree
<1>4. UNCHANGED <<tokens, unit, syntaxErrors>>
  <2>1. UNCHANGED <<tokens, unit>>
    BY DEF Analyze, Analysis!Next, Analysis!CollectDeclaration, Analysis!StartAnalyzing,
       Analysis!AnalyzeTopLevel, Analysis!EnterFunction, Analysis!AnalyzeBodyChild,
       Analysis!LeaveFunction, Analysis!FinishAnalysis
  <2> QED
    BY <2>1 DEF Analyze, parserVars
<1>5. Analysis!TypeOK
  BY <1>1, <1>2 DEF AnalysisInv
<1>6. /\ child \in 1..Len(unit.children) + 1
      /\ analysis = "inFunction" =>
           /\ failureContexts =
                   <<[specification |-> Analysis!ContractOf(unit.children[child]).range,
                      type |-> ContractType(unit.children[child])]>>
      /\ analysis # "inFunction" => failureContexts = <<>>
  BY <1>5 DEF Analysis!TypeOK, ContractType
<1>7. analysis = "inFunction" =>
        /\ child \in 1..Len(unit.children)
        /\ unit.children[child].kind = "FunctionDeclaration"
  BY <1>1, <1>2, <1>3, <1>6 DEF AnalysisInv
<1> QED
  BY <1>1, <1>2, <1>3, <1>4, <1>6, <1>7 DEF AnalysisInv

LEMMA CollectKeepsResolves ==
  ASSUME CallInv, TriesInv, ResolvesInv, Analyze, Analysis!CollectDeclaration
  PROVE  ResolvesInv'
<1>1. /\ analysis = "collecting" /\ analysis' = "collecting" /\ child' = child + 1
      /\ failureFunctions' = failureFunctions \o Analysis!Declared(unit.children[child])
      /\ resolutions' = resolutions
  BY DEF Analysis!CollectDeclaration
<1>2. /\ stage = "analyze" /\ UNCHANGED <<tokens, unit>> /\ IsList(failureFunctions)
      /\ child \in 1..Len(unit.children) + 1 /\ Len(unit.children) \in Nat
  BY AnalysisFacts
<1>3. Registered(failureFunctions', child')
  <2>1. child \in Nat /\ child > 0
    BY <1>2
  <2>2. Registered(failureFunctions, child)
    BY <1>1, <1>2 DEF ResolvesInv
  <2> QED
    BY <1>1, <1>2, <2>1, <2>2, RegisteredNext
<1>4. Registered(failureFunctions, child)'
  <2>1. PICK functions, bound : functions = failureFunctions' /\ bound = child'
    OBVIOUS
  <2>2. Registered(functions, bound)'
    BY <1>2, <1>3, <2>1, RegisteredStays
  <2> QED
    BY <2>1, <2>2 DEF Registered
<1>5. resolutions = <<>>
  BY <1>1 DEF ResolvesInv
<1>6. AllFromTries(resolutions)'
  BY <1>1, <1>5, EmptyList DEF AllFromTries
<1> QED
  BY <1>1, <1>4, <1>5, <1>6 DEF ResolvesInv

LEMMA StartKeepsResolves ==
  ASSUME CallInv, TriesInv, ResolvesInv, Analyze, Analysis!StartAnalyzing
  PROVE  ResolvesInv'
<1>1. /\ analysis = "collecting" /\ analysis' = "analyzing" /\ child' = 1
      /\ child > Len(unit.children)
      /\ failureFunctions' = failureFunctions /\ resolutions' = resolutions
  BY DEF Analysis!StartAnalyzing
<1>2. /\ stage = "analyze" /\ UNCHANGED <<tokens, unit, syntaxErrors>> /\ syntaxErrors = <<>>
      /\ child \in 1..Len(unit.children) + 1 /\ Len(unit.children) \in Nat
  BY AnalysisFacts
<1>3. child = Len(unit.children) + 1
  BY <1>1, <1>2
<1>4. Registered(failureFunctions, Len(unit.children) + 1) /\ AllFromTries(resolutions)
  BY <1>1, <1>2, <1>3 DEF ResolvesInv
<1>5. \A list : UnitSettledBy(list, 1)
  BY DEF UnitSettledBy
<1> QED
  BY <1>1, <1>2, <1>4, <1>5, ResolvesNow

\* The child of the unit that was analyzed last is settled.
LEMMA OneMoreSettled ==
  ASSUME NEW list, NEW to \in Nat, UnitSettledBy(list, to),
         unit.children[to].kind = "FunctionDeclaration" =>
           FunctionSettledBy(list, unit.children[to], Len(unit.children[to].children) + 1)
  PROVE  UnitSettledBy(list, to + 1)
<1>1. \A k \in 1..(to+1)-1 : k \in 1..to-1 \/ k = to
  OBVIOUS
<1> QED
  BY <1>1 DEF UnitSettledBy

LEMMA MoreSettled ==
  ASSUME NEW list, NEW new,
         \A s, type : SettledBy(list, s, type) => SettledBy(new, s, type)
  PROVE  /\ \A f, to : FunctionSettledBy(list, f, to) => FunctionSettledBy(new, f, to)
         /\ \A to : UnitSettledBy(list, to) => UnitSettledBy(new, to)
<1>1. \A node, type : NodeSettledBy(list, node, type) => NodeSettledBy(new, node, type)
  BY DEF NodeSettledBy
<1>2. \A f, to : FunctionSettledBy(list, f, to) => FunctionSettledBy(new, f, to)
  BY <1>1 DEF FunctionSettledBy
<1> QED
  BY <1>2 DEF UnitSettledBy

LEMMA TopLevelKeepsResolves ==
  ASSUME CallInv, TriesInv, ResolvesInv, Analyze, Analysis!AnalyzeTopLevel
  PROVE  ResolvesInv'
<1>1. /\ analysis = "analyzing" /\ analysis' = "analyzing" /\ child' = child + 1
      /\ unit.children[child].kind # "FunctionDeclaration"
      /\ Analysis!Report(unit.children[child])
      /\ failureFunctions' = failureFunctions
  BY DEF Analysis!AnalyzeTopLevel
<1>2. /\ stage = "analyze" /\ UNCHANGED <<tokens, unit, syntaxErrors>> /\ syntaxErrors = <<>>
      /\ child \in 1..Len(unit.children) + 1 /\ Len(unit.children) \in Nat
      /\ failureContexts = <<>> /\ IsList(failureFunctions) /\ IsList(semanticErrors)
  BY <1>1, AnalysisFacts
<1>3. /\ Analysis!Check(unit.children[child]).resolution = <<>>
      /\ CheckedNode(Analysis!Check(unit.children[child]))
  BY <1>2, NodeIsChecked
<1>4. resolutions' = resolutions
  BY <1>1, <1>3 DEF Analysis!Report
<1>5. semanticErrors' = <<>> => semanticErrors = <<>>
  <2>1. IsList(Analysis!Check(unit.children[child]).errors)
    BY <1>3, EmptyList, SingletonList DEF CheckedNode
  <2>2. semanticErrors' = semanticErrors \o Analysis!Check(unit.children[child]).errors
    BY <1>1 DEF Analysis!Report
  <2> QED
    BY <1>2, <2>1, <2>2, NothingReported
<1>6. Registered(failureFunctions, Len(unit.children) + 1) /\ AllFromTries(resolutions)
  BY <1>1 DEF ResolvesInv
<1>7. semanticErrors' = <<>> => UnitSettledBy(resolutions', child')
  <2> SUFFICES ASSUME semanticErrors' = <<>> PROVE UnitSettledBy(resolutions, child + 1)
    BY <1>1, <1>4
  <2>1. UnitSettledBy(resolutions, child) /\ child \in Nat
    BY <1>1, <1>2, <1>5 DEF ResolvesInv
  <2> QED
    BY <1>1, <2>1, OneMoreSettled
<1> QED
  BY <1>1, <1>2, <1>4, <1>6, <1>7, ResolvesNow

\* A function of a finished tree has a contract with one type, and no `try`
\* in front of its body.
LEMMA EnterKeepsResolves ==
  ASSUME CallInv, TriesInv, ResolvesInv, Analyze, Analysis!EnterFunction
  PROVE  ResolvesInv'
<1> DEFINE node == unit.children[child]
           specification == Analysis!ContractOf(node)
           typed == Len(specification.children) = 1
           errors == IF typed THEN Analysis!CheckSpecification(specification).errors ELSE <<>>
<1>1. /\ analysis = "analyzing" /\ child <= Len(unit.children)
      /\ node.kind = "FunctionDeclaration"
      /\ semanticErrors' = semanticErrors \o errors
      /\ \/ /\ ~typed \/ errors # <<>>
            /\ child' = child + 1 /\ analysis' = analysis
         \/ /\ analysis' = "inFunction" /\ child' = child
            /\ bodyChild' = Analysis!FirstOfKind(node, "FailureSpecification") + 1
      /\ failureFunctions' = failureFunctions /\ resolutions' = resolutions
  BY DEF Analysis!EnterFunction, Analysis!ContractOf
<1>2. /\ stage = "analyze" /\ UNCHANGED <<tokens, unit, syntaxErrors>> /\ syntaxErrors = <<>>
      /\ child \in 1..Len(unit.children) + 1 /\ Len(unit.children) \in Nat
      /\ FinishedTree /\ IsList(semanticErrors)
  BY AnalysisFacts
<1>3. child \in 1..Len(unit.children)
  BY <1>1, <1>2
<1>4. PICK at \in 1..Len(node.children) :
        /\ at = Analysis!FirstOfKind(node, "FailureSpecification")
        /\ specification = node.children[at]
        /\ Len(node.children[at].children) = 1
        /\ \A j \in 1..at : node.children[j].kind \notin {"TryExpression", "TryInitialization"}
  BY <1>1, <1>2, <1>3, FunctionsOfTheTree
<1>5. typed /\ Len(node.children) \in Nat
  <2>1. IsList(node.children)
    BY <1>1, <1>2, <1>3, FunctionsOfTheTree
  <2> QED
    BY <1>4, <2>1 DEF IsList
<1>6. Registered(failureFunctions, Len(unit.children) + 1) /\ AllFromTries(resolutions)
  BY <1>1 DEF ResolvesInv
<1>7. IsList(errors)
  BY EmptyList, SingletonList DEF Analysis!CheckSpecification, Analysis!Rejected, Analysis!Accepted
<1> HIDE DEF errors, typed, specification, node
<1>8. semanticErrors' = <<>> => semanticErrors = <<>> /\ errors = <<>>
  BY <1>1, <1>2, <1>7, NothingReported
<1>9. semanticErrors' = <<>> => UnitSettledBy(resolutions, child)
  BY <1>1, <1>2, <1>8 DEF ResolvesInv
<1>10. CASE child' = child + 1 /\ analysis' = analysis /\ errors # <<>>
  <2>1. semanticErrors' # <<>>
    BY <1>8, <1>10
  <2> QED
    BY <1>1, <1>2, <1>6, <1>10, <2>1, ResolvesNow
<1>11. CASE analysis' = "inFunction" /\ child' = child /\ bodyChild' = at + 1
  <2>1. bodyChild' \in 1..Len(node.children) + 1
    BY <1>4, <1>5, <1>11
  <2>2. FunctionSettledBy(resolutions, node, bodyChild')
    <3>1. \A j \in 1..bodyChild'-1 : j \in 1..at
      BY <1>11
    <3>2. \A j \in 1..bodyChild'-1 :
            node.children[j].kind \notin {"TryExpression", "TryInitialization"}
      BY <1>4, <3>1
    <3> QED
      BY <3>2 DEF FunctionSettledBy, NodeSettledBy
  <2>3. node = unit.children[child']
    BY <1>11 DEF node
  <2> QED
    BY <1>1, <1>2, <1>6, <1>9, <1>11, <2>1, <2>2, <2>3, ResolvesNow
<1> QED
  BY <1>1, <1>4, <1>5, <1>10, <1>11

LEMMA BodyChildKeepsResolves ==
  ASSUME CallInv, TriesInv, ResolvesInv, Analyze, Analysis!AnalyzeBodyChild
  PROVE  ResolvesInv'
<1> DEFINE f == unit.children[child]
           node == f.children[bodyChild]
           type == Analysis!Last(failureContexts).type
<1>1. /\ analysis = "inFunction" /\ analysis' = "inFunction" /\ child' = child
      /\ bodyChild <= Len(f.children) /\ bodyChild' = bodyChild + 1
      /\ Analysis!Report(node)
      /\ failureFunctions' = failureFunctions
  BY DEF Analysis!AnalyzeBodyChild
<1>2. /\ stage = "analyze" /\ UNCHANGED <<tokens, unit, syntaxErrors>> /\ syntaxErrors = <<>>
      /\ child \in 1..Len(unit.children) /\ f.kind = "FunctionDeclaration"
      /\ FinishedTree /\ IsList(failureFunctions) /\ IsList(semanticErrors)
      /\ failureContexts = <<[specification |-> Analysis!ContractOf(f).range,
                              type |-> ContractType(f)]>>
  BY <1>1, AnalysisFacts
<1>3. type = ContractType(f)
  <2>1. \A context : Analysis!Last(<<context>>) = context
    BY SingletonList DEF Analysis!Last
  <2> QED
    BY <1>2, <2>1
<1>4. IsList(f.children) /\ FunctionRead(f.children) /\ Len(f.children) \in Nat
  <2>1. IsList(f.children) /\ FunctionRead(f.children)
    BY <1>2, FunctionsOfTheTree
  <2> QED
    BY <2>1 DEF IsList
<1>5. Registered(failureFunctions, Len(unit.children) + 1) /\ AllFromTries(resolutions)
  BY <1>1 DEF ResolvesInv
<1>6. /\ bodyChild \in 1..Len(f.children) + 1
      /\ semanticErrors = <<>> =>
           UnitSettledBy(resolutions, child) /\ FunctionSettledBy(resolutions, f, bodyChild)
  BY <1>1, <1>2 DEF ResolvesInv
<1>7. IsList(Analysis!Check(node).errors)
  <2>1. CheckedNode(Analysis!Check(node))
    BY <1>2, NodeIsChecked
  <2> QED
    BY <2>1, EmptyList, SingletonList DEF CheckedNode
<1>8. IsTokenStream(tokens)
  BY <1>2 DEF FinishedTree
<1>9. bodyChild \in 1..Len(f.children)
  BY <1>1, <1>4, <1>6
<1>10. ChildRead(node)
  BY <1>4, <1>9 DEF FunctionRead
<1> HIDE DEF f, node, type
<1>11. /\ AllFromTries(resolutions')
       /\ \A s, t : SettledBy(resolutions, s, t) => SettledBy(resolutions', s, t)
       /\ semanticErrors' = <<>> =>
            semanticErrors = <<>> /\ NodeSettledBy(resolutions', node, type)
  BY <1>1, <1>2, <1>5, <1>7, <1>8, <1>10, ReportResolves DEF type
<1>12. /\ \A g, to : FunctionSettledBy(resolutions, g, to) => FunctionSettledBy(resolutions', g, to)
       /\ \A to : UnitSettledBy(resolutions, to) => UnitSettledBy(resolutions', to)
  BY <1>11, MoreSettled
<1>13. bodyChild' \in 1..Len(f.children) + 1
  BY <1>1, <1>4, <1>9
<1>14. ASSUME semanticErrors' = <<>>
       PROVE  UnitSettledBy(resolutions', child') /\ FunctionSettledBy(resolutions', f, bodyChild')
  <2>1. UnitSettledBy(resolutions', child') /\ FunctionSettledBy(resolutions', f, bodyChild)
    BY <1>1, <1>6, <1>11, <1>12, <1>14
  <2>2. \A j \in 1..bodyChild'-1 : j \in 1..bodyChild-1 \/ j = bodyChild
    BY <1>1, <1>9
  <2>3. NodeSettledBy(resolutions', f.children[bodyChild], ContractType(f))
    BY <1>3, <1>11, <1>14 DEF node
  <2>4. FunctionSettledBy(resolutions', f, bodyChild')
    BY <2>1, <2>2, <2>3 DEF FunctionSettledBy
  <2> QED
    BY <2>1, <2>4
<1>15. f = unit.children[child']
  BY <1>1 DEF f
<1> QED
  BY <1>1, <1>2, <1>5, <1>11, <1>13, <1>14, <1>15, ResolvesNow

LEMMA LeaveKeepsResolves ==
  ASSUME CallInv, TriesInv, ResolvesInv, Analyze, Analysis!LeaveFunction
  PROVE  ResolvesInv'
<1> DEFINE f == unit.children[child]
<1>1. /\ analysis = "inFunction" /\ analysis' = "analyzing" /\ child' = child + 1
      /\ bodyChild > Len(f.children)
      /\ UNCHANGED <<failureFunctions, resolutions, semanticErrors>>
  BY DEF Analysis!LeaveFunction
<1>2. /\ stage = "analyze" /\ UNCHANGED <<tokens, unit, syntaxErrors>> /\ syntaxErrors = <<>>
      /\ child \in 1..Len(unit.children) /\ f.kind = "FunctionDeclaration"
      /\ FinishedTree
  BY <1>1, AnalysisFacts
<1>3. Len(f.children) \in Nat
  <2>1. IsList(f.children)
    BY <1>2, FunctionsOfTheTree
  <2> QED
    BY <2>1 DEF IsList
<1>4. Registered(failureFunctions, Len(unit.children) + 1) /\ AllFromTries(resolutions)
  BY <1>1 DEF ResolvesInv
<1>5. ASSUME semanticErrors = <<>> PROVE UnitSettledBy(resolutions, child + 1)
  <2>1. /\ UnitSettledBy(resolutions, child)
        /\ bodyChild \in 1..Len(f.children) + 1
        /\ FunctionSettledBy(resolutions, f, bodyChild)
    BY <1>1, <1>2, <1>5 DEF ResolvesInv
  <2> HIDE DEF f
  <2>2. bodyChild = Len(f.children) + 1
    BY <1>1, <1>3, <2>1
  <2>3. child \in Nat
    BY <1>2
  <2> QED
    BY <2>1, <2>2, <2>3, OneMoreSettled DEF f
<1> QED
  BY <1>1, <1>2, <1>4, <1>5, ResolvesNow

LEMMA FinishKeepsResolves ==
  ASSUME CallInv, TriesInv, ResolvesInv, Analyze, Analysis!FinishAnalysis
  PROVE  ResolvesInv'
<1>1. /\ analysis = "analyzing" /\ child > Len(unit.children)
      /\ analysis' = (IF semanticErrors = <<>> THEN "accepted" ELSE "rejected")
      /\ UNCHANGED <<failureFunctions, resolutions, semanticErrors>>
  BY DEF Analysis!FinishAnalysis
<1>2. /\ stage = "analyze" /\ UNCHANGED <<tokens, unit, syntaxErrors>> /\ syntaxErrors = <<>>
      /\ child \in 1..Len(unit.children) + 1 /\ Len(unit.children) \in Nat
  BY <1>1, AnalysisFacts
<1>3. child = Len(unit.children) + 1
  BY <1>1, <1>2
<1>4. Registered(failureFunctions, Len(unit.children) + 1) /\ AllFromTries(resolutions)
  BY <1>1 DEF ResolvesInv
<1>5. analysis' = "accepted" => UnitSettledBy(resolutions, Len(unit.children) + 1)
  BY <1>1, <1>2, <1>3 DEF ResolvesInv
<1> QED
  BY <1>1, <1>2, <1>4, <1>5, ResolvesNow

LEMMA AnalyzeKeepsResolves ==
  ASSUME CallInv, TriesInv, ResolvesInv, Analyze
  PROVE  ResolvesInv'
BY CollectKeepsResolves, StartKeepsResolves, TopLevelKeepsResolves, EnterKeepsResolves,
   BodyChildKeepsResolves, LeaveKeepsResolves, FinishKeepsResolves DEF Analyze, Analysis!Next

LEMMA ResolvesStay ==
  ASSUME ResolvesInv,
         UNCHANGED <<tokens, unit, failureFunctions, syntaxErrors, analysis, resolutions>>,
         stage' = "analyze" => stage = "analyze" /\ UNCHANGED <<child, bodyChild, semanticErrors>>
  PROVE  ResolvesInv'
<1>1. CASE analysis = "collecting"
  <2>1. resolutions = <<>> /\ AllFromTries(resolutions)'
    BY <1>1, EmptyList DEF ResolvesInv, AllFromTries
  <2>2. stage' = "analyze" => Registered(failureFunctions, child)'
    <3> SUFFICES ASSUME stage' = "analyze" PROVE Registered(failureFunctions, child)'
      OBVIOUS
    <3>1. PICK functions, bound : functions = failureFunctions' /\ bound = child'
      OBVIOUS
    <3>2. Registered(functions, bound)
      BY <1>1, <3>1 DEF ResolvesInv
    <3>3. Registered(functions, bound)'
      BY <3>2, RegisteredStays
    <3> QED
      BY <3>1, <3>3 DEF Registered
  <2> QED
    BY <1>1, <2>1, <2>2 DEF ResolvesInv
<1>2. CASE analysis # "collecting"
  BY <1>2, ResolvesNow DEF ResolvesInv
<1> QED
  BY <1>1, <1>2

LEMMA NoneRegistered == Registered(<<>>, 1)
<1> DEFINE source == [id \in 1..0 |-> id]
<1>1. Len(<<>>) = 0 /\ 1..0 = {} /\ 1-1 = 0
  BY EmptyList
<1>2. source \in [1..Len(<<>>) -> 1..1-1]
  BY <1>1
<1>3. Registers(<<>>, source, 1)
  BY <1>1, <1>2 DEF Registers
<1> QED
  BY <1>2, <1>3 DEF Registered

LEMMA InitResolves == Init => TriesInv /\ ResolvesInv
<1> SUFFICES ASSUME Init PROVE TriesInv /\ ResolvesInv
  OBVIOUS
<1>1. TriesInv
  BY InitIsRead DEF Init
<1>2. analysis = "collecting" /\ resolutions = <<>> /\ stage = "lex"
  BY DEF Init, Analysis!Init
<1> QED
  BY <1>1, <1>2, EmptyList DEF ResolvesInv, AllFromTries

LEMMA TriesAreKeptInCall == CallInv /\ TriesInv /\ [Next]_vars => TriesInv'
BY ParserRunsAlone, TriesAreKept, TriesStayRead DEF CallInv

LEMMA ResolvesAreKept == CallInv /\ TriesInv /\ ResolvesInv /\ [Next]_vars => ResolvesInv'
<1> SUFFICES ASSUME CallInv, TriesInv, ResolvesInv, [Next]_vars PROVE ResolvesInv'
  OBVIOUS
<1> DEFINE Values == <<tokens, unit, failureFunctions, syntaxErrors, analysis, resolutions>>
<1>1. SInv /\ AnalysisInv
  BY DEF CallInv, RInv
<1>2. /\ workVars' = workVars => UNCHANGED <<Values, child, bodyChild, semanticErrors>>
      /\ parserVars' = parserVars => syntaxErrors' = syntaxErrors
      /\ analysisVars' = analysisVars =>
           UNCHANGED <<analysis, failureFunctions, resolutions>>
  BY DEF workVars, cursor, analysisVars, parserVars
<1>3. ASSUME UNCHANGED Values, stage' # "analyze" PROVE ResolvesInv'
  BY <1>3, ResolvesStay
<1>4. CASE Lex
  <2>1. stage' = "lexed" /\ workVars' = workVars
    BY <1>4 DEF Lex
  <2> QED
    BY <1>2, <1>3, <2>1
<1>5. CASE FinishLexing
  <2>1. stage' \in {"parse", "done"} /\ workVars' = workVars
    BY <1>5 DEF FinishLexing, Proceed, Refuse, MakeResult
  <2> QED
    BY <1>2, <1>3, <2>1
<1>6. CASE Parse
  <2>1. stage = "parse" /\ stage' = "parse" /\ UNCHANGED <<analysis, resolutions>>
    BY <1>6 DEF Parse, controlVars, analysisVars
  <2>2. analysis = "collecting" /\ resolutions = <<>>
    BY <1>1, <2>1 DEF SInv, AnalysisInv
  <2> QED
    BY <2>1, <2>2, EmptyList DEF ResolvesInv, AllFromTries
<1>7. CASE FinishParsing
  <2>1. stage = "parse" /\ stage' \in {"analyze", "done"} /\ workVars' = workVars
    BY <1>7 DEF FinishParsing, Proceed, Refuse, MakeResult
  <2>2. /\ analysis = "collecting" /\ child = 1
        /\ failureFunctions = <<>> /\ resolutions = <<>>
    BY <1>1, <2>1 DEF SInv, AnalysisInv
  <2>3. UNCHANGED <<Values, child>>
    BY <1>2, <2>1
  <2>4. Registered(failureFunctions, child)'
    <3>1. PICK functions, bound : functions = <<>> /\ bound = 1
      OBVIOUS
    <3>2. Registered(functions, bound)'
      BY <2>3, <3>1, NoneRegistered, RegisteredStays
    <3> QED
      BY <2>2, <2>3, <3>1, <3>2 DEF Registered
  <2> QED
    BY <2>2, <2>3, <2>4, EmptyList DEF ResolvesInv, AllFromTries
<1>8. CASE Analyze
  BY <1>8, AnalyzeKeepsResolves
<1>9. CASE FinishAnalyzing
  <2>1. stage' \in {"build", "done"} /\ workVars' = workVars
    BY <1>9 DEF FinishAnalyzing, Proceed, Refuse, MakeResult
  <2> QED
    BY <1>2, <1>3, <2>1
<1>10. CASE BuildIr
  <2>1. /\ stage' = "build"
        /\ UNCHANGED <<tokens, failureFunctions, syntaxErrors, analysis>>
    BY <1>2, <1>10 DEF BuildIr, controlVars
  <2>2. UNCHANGED <<unit, resolutions>>
    BY <1>10 DEF BuildIr, Construction!Next, Construction!BuildTopLevel,
       Construction!BeginFunction, Construction!BuildBodyChild, Construction!EndFunction,
       Construction!FinishConstruction
  <2> QED
    BY <1>1, <1>3, <1>10, <2>1, <2>2 DEF BuildIr, controlVars
<1>11. CASE FinishBuilding
  <2>1. stage' \in {"lower", "done"} /\ workVars' = workVars
    BY <1>11 DEF FinishBuilding, Proceed, Refuse, MakeResult
  <2> QED
    BY <1>2, <1>3, <2>1
<1>12. CASE Lower
  <2>1. stage' = stage /\ stage = "lower" /\ tokens' = tokens /\ unit' = unit
    BY <1>12, TokensStay DEF Lower, controlVars
  <2>2. UNCHANGED Values
    BY <1>2, <1>12, <2>1 DEF Lower
  <2> QED
    BY <1>3, <2>1, <2>2
<1>13. CASE FinishLowering
  <2>1. stage' \in {"emit", "done"} /\ workVars' = workVars
    BY <1>13 DEF FinishLowering, Proceed, Refuse, MakeResult
  <2> QED
    BY <1>2, <1>3, <2>1
<1>14. CASE Emit
  <2>1. stage' = stage /\ stage = "emit" /\ tokens' = tokens /\ unit' = unit
    BY <1>14, TokensStay DEF Emit, controlVars
  <2>2. UNCHANGED Values
    BY <1>2, <1>14, <2>1 DEF Emit
  <2> QED
    BY <1>3, <2>1, <2>2
<1>15. CASE FinishEmitting
  <2>1. stage' = "done" /\ workVars' = workVars
    BY <1>15 DEF FinishEmitting, Refuse, MakeResult
  <2> QED
    BY <1>2, <1>3, <2>1
<1>16. CASE UNCHANGED vars
  <2>1. stage' = stage /\ workVars' = workVars
    BY <1>16 DEF vars, controlVars
  <2> QED
    BY <1>2, <2>1, ResolvesStay
<1> QED
  BY <1>4, <1>5, <1>6, <1>7, <1>8, <1>9, <1>10, <1>11, <1>12, <1>13, <1>14, <1>15, <1>16
     DEF Next, Process, Returned

\* What a registered function is, and which functions are registered.
DeclaredAs(node, name, specification) ==
  /\ node.kind = "FunctionDeclaration"
  /\ name \in 1..Len(node.children) /\ node.children[name].kind = "FunctionName"
  /\ specification \in 1..Len(node.children)
  /\ specification = Analysis!LastOfKind(node, "FailureSpecification")
  /\ node.children[specification].kind = "FailureSpecification"
  /\ specification # Len(node.children)

LEMMA DeclaredFunction ==
  ASSUME NEW node, IsList(node.children), NEW d, Analysis!Declared(node) = <<d>>
  PROVE  \E name, specification :
           /\ DeclaredAs(node, name, specification)
           /\ d.name = Analysis!Spelling(tokens, node.children[name].range)
           /\ d.declaration = node.range
           /\ d.failureType = node.children[specification].children[1].range
<1>1. PICK name, successType, declarator, specification :
        /\ name = Analysis!LastOfKind(node, "FunctionName")
        /\ successType = Analysis!LastOfKind(node, "FunctionReturnType")
        /\ declarator = Analysis!LastOfKind(node, "FunctionDeclarator")
        /\ specification = Analysis!LastOfKind(node, "FailureSpecification")
  OBVIOUS
<1> DEFINE made == [name |-> Analysis!Spelling(tokens, node.children[name].range),
                    declaration |-> node.range,
                    failureType |-> node.children[specification].children[1].range]
           refused == \/ node.kind # "FunctionDeclaration"
                      \/ 0 \in {name, successType, declarator, specification}
                      \/ Len(node.children[specification].children) # 1
                      \/ specification = Len(node.children)
<1>2. Analysis!Declared(node) = IF refused THEN <<>> ELSE <<made>>
  BY <1>1 DEF Analysis!Declared
<1>3. ~refused /\ <<made>> = <<d>>
  <2> HIDE DEF refused, made
  <2> QED
    BY <1>2, OneIsNotNone
<1>4. made = d
  <2> HIDE DEF made
  <2> QED
    BY <1>3, SingletonList
<1>5. /\ name \in 0..Len(node.children) /\ specification \in 0..Len(node.children)
      /\ name # 0 => node.children[name].kind = "FunctionName"
      /\ specification # 0 => node.children[specification].kind = "FailureSpecification"
  BY <1>1, LastChild
<1>6. name \in 1..Len(node.children) /\ specification \in 1..Len(node.children)
  <2>1. name # 0 /\ specification # 0
    BY <1>3
  <2>2. Len(node.children) \in Nat
    BY DEF IsList
  <2> QED
    BY <1>5, <2>1, <2>2
<1>7. DeclaredAs(node, name, specification)
  BY <1>1, <1>3, <1>5, <1>6 DEF DeclaredAs
<1> QED
  BY <1>4, <1>7

LEMMA NamedIsDeclared ==
  ASSUME FinishedTree, NEW k \in 1..Len(unit.children),
         unit.children[k].kind = "FunctionDeclaration",
         NEW p \in 1..Len(unit.children[k].children),
         unit.children[k].children[p].kind = "FunctionName",
         Analysis!Last(unit.children[k].children).kind # "FailureSpecification"
  PROVE  \E d : /\ Analysis!Declared(unit.children[k]) = <<d>>
                /\ d.name = Analysis!Spelling(tokens, unit.children[k].children[p].range)
<1> DEFINE node == unit.children[k]
<1>1. /\ IsList(node.children) /\ FunctionRead(node.children)
      /\ WholeChildren(node.children)
      /\ \E at \in 1..Len(node.children) : node.children[at].kind = "FailureSpecification"
  BY FunctionsOfTheTree
<1>0. IsList(node.children)
  BY <1>1
<1>2. node.kind = "FunctionDeclaration" /\ node.children[p].kind = "FunctionName"
      /\ p \in 1..Len(node.children)
      /\ node.children[Len(node.children)].kind # "FailureSpecification"
  BY DEF Analysis!Last
<1> HIDE DEF node
<1>3. PICK name, successType, declarator, specification :
        /\ name = Analysis!LastOfKind(node, "FunctionName")
        /\ successType = Analysis!LastOfKind(node, "FunctionReturnType")
        /\ declarator = Analysis!LastOfKind(node, "FunctionDeclarator")
        /\ specification = Analysis!LastOfKind(node, "FailureSpecification")
  OBVIOUS
<1>4. /\ \A i, j \in 1..Len(node.children) :
           node.children[i].kind = "FunctionName" /\ node.children[j].kind = "FunctionName" => i = j
      /\ \E i \in 1..Len(node.children) : node.children[i].kind = "FunctionReturnType"
      /\ \E i \in 1..Len(node.children) : node.children[i].kind = "FunctionDeclarator"
  BY <1>1, <1>2 DEF FunctionRead, NamedOnce
<1>5. name = p
  <2>1. /\ name \in 0..Len(node.children)
        /\ name = 0 => \A i \in 1..Len(node.children) : node.children[i].kind # "FunctionName"
        /\ name # 0 => node.children[name].kind = "FunctionName"
    BY <1>0, <1>3, LastChild
  <2>2. name # 0
    BY <1>2, <2>1
  <2>3. name \in 1..Len(node.children)
    <3>1. Len(node.children) \in Nat
      BY <1>1 DEF IsList
    <3> QED
      BY <2>1, <2>2, <3>1
  <2> QED
    BY <1>2, <1>4, <2>1, <2>2, <2>3
<1>6. successType # 0 /\ declarator # 0
  <2>1. successType = 0 =>
          \A i \in 1..Len(node.children) : node.children[i].kind # "FunctionReturnType"
    BY <1>0, <1>3, LastChild
  <2>2. declarator = 0 =>
          \A i \in 1..Len(node.children) : node.children[i].kind # "FunctionDeclarator"
    BY <1>0, <1>3, LastChild
  <2> QED
    BY <1>4, <2>1, <2>2
<1>7. /\ specification \in 1..Len(node.children)
      /\ node.children[specification].kind = "FailureSpecification"
  <2>1. /\ specification \in 0..Len(node.children)
        /\ specification = 0 =>
             \A i \in 1..Len(node.children) : node.children[i].kind # "FailureSpecification"
        /\ specification # 0 => node.children[specification].kind = "FailureSpecification"
    BY <1>0, <1>3, LastChild
  <2>2. specification # 0
    BY <1>1, <2>1
  <2>3. Len(node.children) \in Nat
    BY <1>1 DEF IsList
  <2> QED
    BY <2>1, <2>2, <2>3
<1>8. Len(node.children[specification].children) = 1
  BY <1>1, <1>7 DEF WholeChildren, CompleteConstruct
<1>9. specification # Len(node.children)
  BY <1>2, <1>7
<1>10. name # 0 /\ specification # 0
  BY <1>2, <1>5, <1>7
<1> DEFINE made == [name |-> Analysis!Spelling(tokens, node.children[name].range),
                    declaration |-> node.range,
                    failureType |-> node.children[specification].children[1].range]
<1>11. Analysis!Declared(node) = <<made>>
  BY <1>2, <1>3, <1>6, <1>8, <1>9, <1>10 DEF Analysis!Declared
<1>12. made.name = Analysis!Spelling(tokens, node.children[p].range)
  BY <1>5
<1> HIDE DEF made
<1> QED
  BY <1>11, <1>12 DEF node

LEMMA ElementsOfList ==
  ASSUME NEW s, IsList(s)
  PROVE  /\ Len(s) \in Nat
         /\ \A x : x \in Analysis!ToSet(s) <=> \E k \in 1..Len(s) : x = s[k]
BY DEF Analysis!ToSet, IsList

\* A settled `try` is resolved to the one function with a body that has the
\* name it calls, as long as no function has a contract in its body.
LEMMA SettledTryHasItsFunction ==
  ASSUME FinishedTree, IsList(failureFunctions),
         Registered(failureFunctions, Len(unit.children) + 1),
         \A g \in Analysis!Functions : ~Analysis!NestedContracts(g),
         NEW list, NEW t, NEW type, IsList(list), SettledBy(list, t, type)
  PROVE  \E g \in Analysis!Functions :
           /\ Analysis!Named(NameOf(t)) = {g}
           /\ Analysis!NormalizedType(ContractType(g)) = Analysis!NormalizedType(type)
           /\ \E r \in Analysis!ToSet(list) :
                /\ r.try = t.range
                /\ failureFunctions[r.callee].declaration = g.range
<1> DEFINE n == Len(unit.children)
<1>1. PICK id \in 1..Len(failureFunctions) :
        /\ Analysis!Candidates(NameOf(t)) = {id}
        /\ Analysis!NormalizedType(type)
             = Analysis!NormalizedType(failureFunctions[id].failureType)
        /\ Resolves(list, t, id)
  BY DEF SettledBy
<1>2. n \in Nat /\ IsList(unit.children)
  BY DEF FinishedTree, UnitRead, IsList
<1>3. PICK source : Registers(failureFunctions, source, n + 1)
  BY DEF Registered
<1>4. /\ source \in [1..Len(failureFunctions) -> 1..n]
      /\ \A i \in 1..Len(failureFunctions) :
           Analysis!Declared(unit.children[source[i]]) = <<failureFunctions[i]>>
      /\ \A k \in 1..n : Analysis!Declared(unit.children[k]) # <<>> =>
                           \E i \in 1..Len(failureFunctions) : source[i] = k
  <2>1. 1..(n + 1) - 1 = 1..n
    BY <1>2
  <2> QED
    BY <1>3, <2>1 DEF Registers
<1> DEFINE m == source[id]
           g == unit.children[m]
<1>5. m \in 1..n /\ Analysis!Declared(g) = <<failureFunctions[id]>>
  BY <1>4
<1>6. \A x : x \in Analysis!ToSet(unit.children) <=> \E k \in 1..n : x = unit.children[k]
  BY <1>2, ElementsOfList
<1>7. g.kind = "FunctionDeclaration"
  <2> HIDE DEF m
  <2> QED
    BY <1>5, OneIsNotNone DEF Analysis!Declared
<1> HIDE DEF n, m
<1>8. IsList(g.children)
  BY <1>5, <1>7, FunctionsOfTheTree DEF n
<1>9. g \in Analysis!Functions
  BY <1>5, <1>6, <1>7 DEF Analysis!Functions
<1>10. PICK name, specification :
         /\ DeclaredAs(g, name, specification)
         /\ failureFunctions[id].name = Analysis!Spelling(tokens, g.children[name].range)
         /\ failureFunctions[id].declaration = g.range
         /\ failureFunctions[id].failureType = g.children[specification].children[1].range
  BY <1>5, <1>8, DeclaredFunction
<1>11. failureFunctions[id].name = NameOf(t)
  BY <1>1 DEF Analysis!Candidates
<1>12. g \in Analysis!Named(NameOf(t))
  <2>1. g.children[name] \in Analysis!ChildrenOfKind(g, "FunctionName")
    <3>1. g.children[name] \in Analysis!ToSet(g.children)
      <4> HIDE DEF g
      <4> QED
        BY <1>8, <1>10 DEF DeclaredAs, Analysis!ToSet, IsList
    <3> QED
      BY <1>10, <3>1 DEF DeclaredAs, Analysis!ChildrenOfKind
  <2>2. Analysis!Last(g.children).kind # "FailureSpecification"
    <3> HIDE DEF g
    <3>1. \A i \in 1..Len(g.children) :
            g.children[i].kind = "FailureSpecification" => i <= specification
      <4>1. specification # 0
        BY <1>10 DEF DeclaredAs
      <4> QED
        BY <1>8, <1>10, <4>1, LastChild DEF DeclaredAs
    <3>2. /\ Len(g.children) \in 1..Len(g.children)
          /\ ~(Len(g.children) <= specification)
      <4>1. Len(g.children) \in Nat
        BY <1>8 DEF IsList
      <4> QED
        BY <1>10, <4>1 DEF DeclaredAs
    <3> QED
      BY <3>1, <3>2 DEF Analysis!Last
  <2> HIDE DEF g
  <2> QED
    BY <1>9, <1>10, <1>11, <2>1, <2>2 DEF Analysis!Named
<1>13. ASSUME NEW h \in Analysis!Named(NameOf(t)) PROVE h = g
  <2>1. /\ h \in Analysis!Functions
        /\ Analysis!Last(h.children).kind # "FailureSpecification"
        /\ \E part \in Analysis!ChildrenOfKind(h, "FunctionName") :
             Analysis!Spelling(tokens, part.range) = NameOf(t)
    BY <1>13 DEF Analysis!Named
  <2>2. h.kind = "FunctionDeclaration" /\ \E k \in 1..n : h = unit.children[k]
    BY <1>6, <2>1 DEF Analysis!Functions
  <2>3. PICK k \in 1..n : h = unit.children[k]
    BY <2>2
  <2>4. IsList(unit.children[k].children)
    BY <2>2, <2>3, FunctionsOfTheTree DEF n
  <2>5. PICK part \in Analysis!ChildrenOfKind(h, "FunctionName") :
          Analysis!Spelling(tokens, part.range) = NameOf(t)
    BY <2>1
  <2>6. \E p \in 1..Len(h.children) : part = h.children[p] /\ h.children[p].kind = "FunctionName"
    <3>1. IsList(h.children)
      BY <2>3, <2>4
    <3> QED
      BY <2>5, <3>1, ElementsOfList DEF Analysis!ChildrenOfKind
  <2>7. PICK p \in 1..Len(h.children) :
          part = h.children[p] /\ h.children[p].kind = "FunctionName"
    BY <2>6
  <2>8. \E d : Analysis!Declared(unit.children[k]) = <<d>> /\ d.name = NameOf(t)
    BY <2>1, <2>2, <2>3, <2>5, <2>7, NamedIsDeclared DEF n
  <2>9. PICK d : Analysis!Declared(unit.children[k]) = <<d>> /\ d.name = NameOf(t)
    BY <2>8
  <2>10. PICK other \in 1..Len(failureFunctions) : source[other] = k
    BY <1>4, <2>9, OneIsNotNone
  <2>11. <<d>> = <<failureFunctions[other]>>
    BY <1>4, <2>9, <2>10
  <2>12. d = failureFunctions[other]
    BY <2>11, SingletonList
  <2>13. other \in Analysis!Candidates(NameOf(t))
    BY <2>9, <2>12 DEF Analysis!Candidates
  <2>14. other = id
    BY <1>1, <2>13
  <2> QED
    BY <2>3, <2>10, <2>14 DEF m
<1>14. Analysis!Named(NameOf(t)) = {g}
  BY <1>12, <1>13
<1>15. failureFunctions[id].failureType = ContractType(g)
  BY <1>9, <1>10 DEF DeclaredAs, ContractType, Analysis!ContractOf, Analysis!NestedContracts
<1>16. \E r \in Analysis!ToSet(list) : r.try = t.range /\ r.callee = id
  <2>1. PICK i \in 1..Len(list) : list[i].try = t.range /\ list[i].callee = id
    BY <1>1 DEF Resolves
  <2>2. list[i] \in Analysis!ToSet(list)
    BY DEF Analysis!ToSet, IsList
  <2> QED
    BY <2>1, <2>2
<1>17. PICK r \in Analysis!ToSet(list) : r.try = t.range /\ r.callee = id
  BY <1>16
<1>18. failureFunctions[r.callee].declaration = g.range
  BY <1>10, <1>17
<1>19. Analysis!NormalizedType(ContractType(g)) = Analysis!NormalizedType(type)
  BY <1>1, <1>15
<1> HIDE DEF g
<1> QED
  BY <1>9, <1>14, <1>17, <1>18, <1>19

\* What is known of the unit once it is accepted.
LEMMA AcceptedUnit ==
  ASSUME CallInv, TriesInv, ResolvesInv, analysis = "accepted"
  PROVE  /\ FinishedTree /\ Len(unit.children) \in Nat /\ IsList(unit.children)
         /\ IsList(failureFunctions) /\ AllFromTries(resolutions)
         /\ Registered(failureFunctions, Len(unit.children) + 1)
         /\ UnitSettledBy(resolutions, Len(unit.children) + 1)
<1>1. phase = "done" /\ IsList(failureFunctions)
  BY DEF CallInv, AnalysisInv
<1>2. /\ syntaxErrors = <<>> /\ Registered(failureFunctions, Len(unit.children) + 1)
      /\ UnitSettledBy(resolutions, Len(unit.children) + 1) /\ AllFromTries(resolutions)
  BY DEF ResolvesInv
<1>3. FinishedTree
  <2>1. IsTokenStream(tokens)
    BY DEF CallInv, IInv, ParserTypeOK
  <2>2. AllGood(unit.children, TRUE) /\ UnitRead(unit.children)
    BY <1>1, <1>2 DEF CallInv, TreeInv, TriesInv, Clean, AllGood
  <2> QED
    BY <1>2, <2>1, <2>2 DEF FinishedTree
<1>4. Len(unit.children) \in Nat /\ IsList(unit.children)
  BY <1>3 DEF FinishedTree, UnitRead, IsList
<1> QED
  BY <1>1, <1>2, <1>3, <1>4

LEMMA ResolvesImplyFunctions ==
  ASSUME CallInv, TriesInv, ResolvesInv PROVE TriesResolveToTheirFunction
<1> SUFFICES ASSUME analysis = "accepted",
                    \A f \in Analysis!Functions : ~Analysis!NestedContracts(f),
                    NEW f \in Analysis!Functions, NEW t \in Analysis!TryNodes(f)
             PROVE  \E g \in Analysis!Functions :
                      /\ Analysis!Named(NameOf(t)) = {g}
                      /\ Analysis!NormalizedType(ContractType(g))
                           = Analysis!NormalizedType(ContractType(f))
                      /\ \E r \in Analysis!ToSet(resolutions) :
                           /\ r.try = t.range
                           /\ failureFunctions[r.callee].declaration = g.range
  BY DEF TriesResolveToTheirFunction, Analysis!TriesResolveToTheirFunction, NameOf,
         ContractType
<1>1. IsList(resolutions)
  BY AcceptedUnit DEF AllFromTries
<1>2. /\ IsList(failureFunctions) /\ Registered(failureFunctions, Len(unit.children) + 1)
      /\ UnitSettledBy(resolutions, Len(unit.children) + 1)
  BY AcceptedUnit
<1>3. FinishedTree
  BY AcceptedUnit
<1>4. Len(unit.children) \in Nat /\ IsList(unit.children)
  BY AcceptedUnit
<1>5. PICK k \in 1..Len(unit.children) : f = unit.children[k]
  BY <1>4 DEF Analysis!Functions, Analysis!ToSet, IsList
<1>6. unit.children[k].kind = "FunctionDeclaration"
  BY <1>5 DEF Analysis!Functions
<1>7. IsList(f.children)
  BY <1>3, <1>5, <1>6, FunctionsOfTheTree
<1>8. \E j \in 1..Len(f.children) :
        \/ f.children[j].kind = "TryExpression" /\ t = f.children[j]
        \/ f.children[j].kind = "TryInitialization" /\ t = f.children[j].children[2]
  BY <1>7 DEF Analysis!TryNodes, Analysis!ChildrenOfKind, Analysis!ToSet, IsList
<1>9. PICK j \in 1..Len(f.children) :
        \/ f.children[j].kind = "TryExpression" /\ t = f.children[j]
        \/ f.children[j].kind = "TryInitialization" /\ t = f.children[j].children[2]
  BY <1>8
<1>10. NodeSettledBy(resolutions, f.children[j], ContractType(f))
  <2>1. FunctionSettledBy(resolutions, f, Len(f.children) + 1)
    <3>1. k \in 1..(Len(unit.children) + 1) - 1
      BY <1>4
    <3> QED
      BY <1>2, <1>5, <1>6, <3>1 DEF UnitSettledBy
  <2>2. j \in 1..(Len(f.children) + 1) - 1
    <3>1. Len(f.children) \in Nat
      BY <1>7 DEF IsList
    <3> QED
      BY <3>1
  <2> QED
    BY <2>1, <2>2 DEF FunctionSettledBy
<1>11. SettledBy(resolutions, t, ContractType(f))
  BY <1>9, <1>10 DEF NodeSettledBy
<1> QED
  BY <1>1, <1>2, <1>3, <1>11, SettledTryHasItsFunction

(***************************************************************************)
(* For every stream of tokens, in every state of a call: what the tree     *)
(* reads its `try` expressions from, and which resolutions the analysis    *)
(* has recorded for those it has passed.  A resolution belongs to exactly  *)
(* one visited `try`, since no two of them have the same range.            *)
(***************************************************************************)
THEOREM ResolutionsInvariant == Spec => [](CallInv /\ TriesInv /\ ResolvesInv)
<1>1. Init => CallInv /\ TriesInv /\ ResolvesInv
  BY InitIsCall, InitResolves
<1>2. CallInv /\ TriesInv /\ ResolvesInv /\ [Next]_vars => (CallInv /\ TriesInv /\ ResolvesInv)'
  BY StepKeepsCall, TriesAreKeptInCall, ResolvesAreKept
<1> QED
  BY <1>1, <1>2, PTL DEF Spec

(***************************************************************************)
(* For every stream of tokens: once a unit whose bodies hold no contract   *)
(* of their own is accepted, every `try` of it is resolved to the one      *)
(* function of the unit, earlier or later, that has the name it calls and  *)
(* a body, and that one fails with the type the function around the `try`  *)
(* fails with.                                                             *)
(***************************************************************************)
THEOREM AcceptedTriesResolve == Spec => []TriesResolveToTheirFunction
<1>1. CallInv /\ TriesInv /\ ResolvesInv => TriesResolveToTheirFunction
  BY ResolvesImplyFunctions
<1> QED
  BY <1>1, ResolutionsInvariant, PTL

-----------------------------------------------------------------------------
(* What the construction builds a `try` into.                              *)

\* A propagation of a callee that fails with the type it propagates.
Knowing(p) ==
  /\ p.callee \in 1..Len(failureFunctions)
  /\ Analysis!NormalizedType(p.failureType)
       = Analysis!NormalizedType(failureFunctions[p.callee].failureType)

ChildKnows(node) ==
  /\ node.kind = "FailurePropagation" => Knowing(node)
  /\ node.kind = "TryInitialization" => Knowing(node.propagation)
  /\ node.kind = "Failure" /\ node.operand.kind = "FailurePropagation" => Knowing(node.operand)

\* A function without a contract in its body.
OneOutcome(f) == \A i \in 1..Len(f.children) : f.children[i].kind # "Outcome"

FunctionKnows(f) == OneOutcome(f) => \A i \in 1..Len(f.children) : ChildKnows(f.children[i])

ProgramKnows(nodes) ==
  \A k \in 1..Len(nodes) : nodes[k].kind = "FailureAwareFunction" => FunctionKnows(nodes[k])

CalleesInv ==
  /\ stage \in {"build", "lower", "emit"} => ProgramKnows(program)
  /\ stage = "build" /\ construction = "inFunction" =>
       /\ FunctionKnows(irFunction[1])
       /\ OneOutcome(irFunction[1]) => bodyContract = ContractType(unit.children[child])

LEMMA ResolutionIsFound ==
  ASSUME AllFromTries(resolutions), NEW t, Construction!ResolutionOf(t) # 0
  PROVE  /\ Construction!ResolutionOf(t) \in 1..Len(resolutions)
         /\ resolutions[Construction!ResolutionOf(t)].try = t.range
<1> DEFINE S == {i \in 1..Len(resolutions) : resolutions[i].try = t.range}
<1>1. Construction!ResolutionOf(t) = IF S = {} THEN 0 ELSE Min(S)
  BY DEF Construction!ResolutionOf, Construction!SelectInSeq, Construction!Min, Min
<1>2. S # {} => Min(S) \in S
  <2>1. S \in SUBSET Nat
    OBVIOUS
  <2> HIDE DEF S
  <2> QED
    BY <2>1, MinOfNaturals
<1> QED
  BY <1>1, <1>2

\* A resolution that is found for a node read as a `try` is that node's own.
LEMMA ResolutionIsOwn ==
  ASSUME IsTokenStream(tokens), AllFromTries(resolutions),
         NEW t, NEW at, ReadAt(t, at), Construction!ResolutionOf(t) # 0
  PROVE  /\ Kind(at-1) # "fail"
         /\ Analysis!Candidates(NameOf(t)) = {resolutions[Construction!ResolutionOf(t)].callee}
<1>1. PICK i \in 1..Len(resolutions) :
        i = Construction!ResolutionOf(t) /\ resolutions[i].try = t.range
  BY ResolutionIsFound
<1>2. PICK to \in 2..Len(tokens) :
        /\ Visited(TryExpression(to).node)
        /\ resolutions[i].try = TryExpression(to).node.range
        /\ Analysis!Candidates(NameOf(TryExpression(to).node)) = {resolutions[i].callee}
  BY DEF AllFromTries, FromTry
<1>3. PICK s : s = TryExpression(to).node
  OBVIOUS
<1>4. PICK from \in 2..Len(tokens) : ReadAt(s, from) /\ Kind(from-1) # "fail"
  BY <1>2, <1>3 DEF Visited
<1>5. s.range = t.range
  BY <1>1, <1>2, <1>3
<1>6. at = from /\ s = t
  BY <1>4, <1>5, RangeNamesTheTry
<1> QED
  BY <1>1, <1>2, <1>3, <1>4, <1>6

LEMMA BuiltTryKnows ==
  ASSUME IsTokenStream(tokens), AllFromTries(resolutions),
         NEW t, NEW type, NEW ir, Construction!BuildTry(t, type).ir = <<ir>>
  PROVE  /\ ir.kind = "FailurePropagation"
         /\ ~Unvisited(t)
         /\ Visited(t) /\ SettledBy(resolutions, t, type) => Knowing(ir)
<1> DEFINE found == Construction!ResolutionOf(t)
           x == [kind |-> "FailurePropagation", range |-> t.range, failureType |-> type,
                 callee |-> resolutions[found].callee,
                 operand |-> Construction!Region(t.children[1])]
<1>1. x.kind = "FailurePropagation" /\ x.failureType = type /\ x.callee = resolutions[found].callee
  OBVIOUS
<1>2. \/ \E code : Construction!BuildTry(t, type) = Construction!Failed(code)
      \/ found # 0 /\ Construction!BuildTry(t, type) = Construction!Built(x)
  BY DEF Construction!BuildTry
<1>3. (\A code : Construction!Failed(code).ir = <<>>) /\ Construction!Built(x).ir = <<x>>
  BY DEF Construction!Failed, Construction!Built
<1> HIDE DEF x, found
<1>4. found # 0 /\ <<x>> = <<ir>>
  BY <1>2, <1>3, OneIsNotNone
<1>5. x = ir
  BY <1>4, SingletonList
<1>6. ASSUME Unvisited(t) PROVE FALSE
  BY <1>4, <1>6, ResolutionIsOwn DEF Unvisited, found
<1>7. ASSUME Visited(t), SettledBy(resolutions, t, type) PROVE Knowing(ir)
  <2>1. Analysis!Candidates(NameOf(t)) = {resolutions[found].callee}
    BY <1>4, <1>7, ResolutionIsOwn DEF Visited, found
  <2>2. PICK id \in 1..Len(failureFunctions) :
          /\ Analysis!Candidates(NameOf(t)) = {id}
          /\ Analysis!NormalizedType(type)
               = Analysis!NormalizedType(failureFunctions[id].failureType)
    BY <1>7 DEF SettledBy
  <2>3. {resolutions[found].callee} = {id}
    BY <2>1, <2>2
  <2>4. ir.callee = id /\ ir.failureType = type
    BY <1>1, <1>5, <2>3
  <2> QED
    BY <2>2, <2>4 DEF Knowing
<1> QED
  BY <1>1, <1>5, <1>6, <1>7

LEMMA BuiltChildKnows ==
  ASSUME IsTokenStream(tokens), AllFromTries(resolutions),
         NEW node, ChildRead(node), NEW type, NodeSettledBy(resolutions, node, type),
         NEW ir, Construction!Build(node, type).ir = <<ir>>
  PROVE  /\ ChildKnows(ir)
         /\ node.kind = "FailureSpecification" => ir.kind = "Outcome"
<1>1. ASSUME NEW code PROVE Construction!Failed(code).ir = <<>>
  BY DEF Construction!Failed
<1>2. ASSUME NEW x PROVE Construction!Built(x).ir = <<x>>
  BY DEF Construction!Built
<1>3. ASSUME NEW built, NEW x, built.ir = <<ir>>, built = Construction!Built(x)
      PROVE  x = ir
  BY <1>2, <1>3, SingletonList
<1>4. ASSUME NEW built, built.ir = <<ir>>, NEW code PROVE built # Construction!Failed(code)
  BY <1>1, <1>4, OneIsNotNone
<1>5. CASE node.kind = "FailureSpecification"
  <2> DEFINE x == [kind |-> "Outcome", range |-> node.range,
                   failureType |-> node.children[1].range]
  <2>1. Construction!Build(node, type) = Construction!BuildSpecification(node)
    BY <1>5 DEF Construction!Build
  <2>2. \/ \E code : Construction!BuildSpecification(node) = Construction!Failed(code)
        \/ Construction!BuildSpecification(node) = Construction!Built(x)
    BY DEF Construction!BuildSpecification
  <2>3. x.kind = "Outcome"
    OBVIOUS
  <2> HIDE DEF x
  <2>4. ir = x
    BY <1>3, <1>4, <2>1, <2>2
  <2> QED
    BY <2>3, <2>4 DEF ChildKnows
<1>6. CASE node.kind = "TryExpression"
  <2>1. Construction!Build(node, type) = Construction!BuildTry(node, type)
    BY <1>6 DEF Construction!Build
  <2>2. ir.kind = "FailurePropagation" /\ Knowing(ir)
    BY <1>6, <2>1, BuiltTryKnows DEF ChildRead, NodeSettledBy
  <2> QED
    BY <1>6, <2>2 DEF ChildKnows
<1>7. CASE node.kind = "TryInitialization"
  <2> DEFINE propagation == Construction!BuildTry(node.children[2], type)
             x == [kind |-> "TryInitialization", range |-> node.range,
                   declaration |-> node.children[1].range, propagation |-> propagation.ir[1]]
  <2>1. Construction!Build(node, type) = Construction!BuildTryInitialization(node, type)
    BY <1>7 DEF Construction!Build
  <2>2. \/ \E code : Construction!BuildTryInitialization(node, type) = Construction!Failed(code)
        \/ /\ propagation.ir = <<>>
           /\ Construction!BuildTryInitialization(node, type) = propagation
        \/ /\ propagation.ir # <<>>
           /\ Construction!BuildTryInitialization(node, type) = Construction!Built(x)
    BY DEF Construction!BuildTryInitialization
  <2>3. x.kind = "TryInitialization" /\ x.propagation = propagation.ir[1]
    OBVIOUS
  <2>4. propagation.ir # <<>> => \E y : propagation.ir = <<y>>
    BY DEF Construction!BuildTry, Construction!Failed, Construction!Built
  <2> HIDE DEF x, propagation
  <2>5. propagation.ir # <<>> /\ ir = x
    BY <1>3, <1>4, <2>1, <2>2, OneIsNotNone
  <2>6. PICK y : propagation.ir = <<y>>
    BY <2>4, <2>5
  <2>7. Knowing(y)
    BY <1>7, <2>6, BuiltTryKnows DEF propagation, ChildRead, NodeSettledBy
  <2>8. x.propagation = y
    BY <2>3, <2>6, SingletonList
  <2> QED
    BY <1>7, <2>3, <2>5, <2>7, <2>8 DEF ChildKnows
<1>8. CASE node.kind = "FailStatement"
  <2> DEFINE operand == IF node.children[1].kind = "TryExpression"
                        THEN Construction!BuildTry(node.children[1], type)
                        ELSE Construction!Built(Construction!Region(node.children[1]))
             x == [kind |-> "Failure", range |-> node.range, failureType |-> type,
                   operand |-> operand.ir[1]]
  <2>1. Construction!Build(node, type) = Construction!BuildFail(node, type)
    BY <1>8 DEF Construction!Build
  <2>2. \/ \E code : Construction!BuildFail(node, type) = Construction!Failed(code)
        \/ /\ Len(node.children) = 1 /\ operand.ir = <<>>
           /\ Construction!BuildFail(node, type) = operand
        \/ /\ Len(node.children) = 1 /\ operand.ir # <<>>
           /\ Construction!BuildFail(node, type) = Construction!Built(x)
    BY DEF Construction!BuildFail
  <2>3. x.kind = "Failure" /\ x.operand = operand.ir[1]
    OBVIOUS
  <2> HIDE DEF x, operand
  <2>4. Len(node.children) = 1 /\ operand.ir # <<>> /\ ir = x
    BY <1>3, <1>4, <2>1, <2>2, OneIsNotNone
  <2>5. node.children[1].kind # "TryExpression"
    <3> SUFFICES ASSUME node.children[1].kind = "TryExpression" PROVE FALSE
      OBVIOUS
    <3>1. Unvisited(node.children[1])
      BY <1>8, <2>4 DEF ChildRead
    <3>2. operand = Construction!BuildTry(node.children[1], type)
      BY DEF operand
    <3>3. operand.ir # <<>> => \E y : operand.ir = <<y>>
      BY <3>2 DEF Construction!BuildTry, Construction!Failed, Construction!Built
    <3>4. PICK y : operand.ir = <<y>>
      BY <2>4, <3>3
    <3> QED
      BY <3>1, <3>2, <3>4, BuiltTryKnows
  <2>6. operand = Construction!Built(Construction!Region(node.children[1]))
    BY <2>5 DEF operand
  <2>7. operand.ir[1] = Construction!Region(node.children[1])
    BY <1>2, <2>6, SingletonList
  <2>8. ir.operand.kind = "CxxRegion" /\ ir.kind = "Failure"
    BY <2>3, <2>4, <2>7 DEF Construction!Region
  <2> QED
    BY <1>8, <2>8 DEF ChildKnows
<1>9. CASE node.kind = "ReturnStatement"
  <2> DEFINE x == [kind |-> "Return", range |-> node.range,
                   operand |-> Construction!Region(node.children[1])]
  <2>1. Construction!Build(node, type) = Construction!BuildReturn(node)
    BY <1>9 DEF Construction!Build
  <2>2. \/ \E code : Construction!BuildReturn(node) = Construction!Failed(code)
        \/ Construction!BuildReturn(node) = Construction!Built(x)
    BY DEF Construction!BuildReturn
  <2>3. x.kind = "Return"
    OBVIOUS
  <2> HIDE DEF x
  <2>4. ir = x
    BY <1>3, <1>4, <2>1, <2>2
  <2> QED
    BY <1>9, <2>3, <2>4 DEF ChildKnows
<1>10. CASE node.kind \notin {"FailureSpecification", "TryExpression", "TryInitialization",
                              "FailStatement", "ReturnStatement"}
  <2>1. Construction!Build(node, type) = Construction!Built(Construction!Region(node))
    BY <1>10 DEF Construction!Build
  <2>2. ir = Construction!Region(node)
    BY <1>3, <2>1
  <2>3. ir.kind = "CxxRegion"
    BY <2>2 DEF Construction!Region
  <2> QED
    BY <1>10, <2>3 DEF ChildKnows
<1> QED
  BY <1>5, <1>6, <1>7, <1>8, <1>9, <1>10

LEMMA BuiltFunctionKnowsItsContract ==
  ASSUME NEW node, IsList(node.children), NEW f, Construction!BuildFunction(node).ir = <<f>>
  PROVE  f.outcome.failureType = ContractType(node)
<1> DEFINE at == Construction!FirstOfKind(node, "FailureSpecification")
           header(kind) == Construction!Max({0} \cup {i \in 1..at-1 : node.children[i].kind = kind})
           part(kind) == node.children[header(kind)].range
           outcome == Construction!BuildSpecification(node.children[at])
           g == [kind |-> "FailureAwareFunction", range |-> node.range,
                 successType |-> part("FunctionReturnType"),
                 name |-> IF header("FunctionName") = 0 THEN Construction!NoRange ELSE part("FunctionName"),
                 declarator |-> part("FunctionDeclarator"),
                 body |-> Construction!BodyRange(node, at), outcome |-> outcome.ir[1],
                 children |-> <<>>, lowered |-> FALSE]
           absent == 0 \in {at, header("FunctionReturnType"), header("FunctionDeclarator")}
           refused == [outcome EXCEPT !.errors = @ \o <<"VIXC5016">>]
           x == [kind |-> "Outcome", range |-> node.children[at].range,
                 failureType |-> node.children[at].children[1].range]
<1>1. outcome.ir = <<>> => refused.ir = <<>>
  BY DEF Construction!BuildSpecification, Construction!Failed, Construction!Built
<1>2. /\ \A code : Construction!Failed(code).ir = <<>>
      /\ Construction!Built(g).ir = <<g>> /\ Construction!Built(x).ir = <<x>>
  BY DEF Construction!Failed, Construction!Built
<1>3. Construction!BuildFunction(node) =
        IF absent THEN Construction!Failed("VIXC5015")
        ELSE IF outcome.ir = <<>> THEN refused
        ELSE IF ~Construction!FunctionRangesValid(g) THEN Construction!Failed("VIXC5017")
        ELSE Construction!Built(g)
  BY DEF Construction!BuildFunction
<1>4. \/ \E code : outcome = Construction!Failed(code)
      \/ outcome = Construction!Built(x)
  BY DEF Construction!BuildSpecification
<1>5. g.outcome = outcome.ir[1] /\ x.failureType = node.children[at].children[1].range
  OBVIOUS
<1>6. at = Analysis!FirstOfKind(node, "FailureSpecification")
  BY FirstChild
<1> HIDE DEF absent, refused, g, x, outcome, at
<1>7. outcome.ir # <<>> /\ <<g>> = <<f>>
  BY <1>1, <1>2, <1>3, OneIsNotNone
<1>8. g = f
  BY <1>7, SingletonList
<1>9. outcome.ir = <<x>>
  BY <1>2, <1>4, <1>7
<1>10. f.outcome = x
  BY <1>5, <1>8, <1>9, SingletonList
<1> QED
  BY <1>5, <1>6, <1>10 DEF ContractType, Analysis!ContractOf

LEMMA KnowingStays ==
  ASSUME tokens' = tokens, failureFunctions' = failureFunctions
  PROVE  /\ \A f : FunctionKnows(f)' <=> FunctionKnows(f)
         /\ \A nodes : ProgramKnows(nodes)' <=> ProgramKnows(nodes)
<1>1. \A range : Analysis!NormalizedType(range)' = Analysis!NormalizedType(range)
  BY DeclaredStays
<1>2. \A p : Knowing(p)' <=> Knowing(p)
  BY <1>1 DEF Knowing
<1>3. \A node : ChildKnows(node)' <=> ChildKnows(node)
  BY <1>2 DEF ChildKnows
<1>4. \A f : FunctionKnows(f)' <=> FunctionKnows(f)
  BY <1>3 DEF FunctionKnows, OneOutcome
<1>5. \A nodes : ProgramKnows(nodes)' <=> ProgramKnows(nodes)
  BY <1>4 DEF ProgramKnows
<1> QED
  BY <1>4, <1>5

LEMMA ProgramKnowsNow ==
  ASSUME tokens' = tokens, failureFunctions' = failureFunctions, ProgramKnows(program')
  PROVE  ProgramKnows(program)'
<1>1. PICK nodes : nodes = program'
  OBVIOUS
<1>2. ProgramKnows(nodes)'
  BY <1>1, KnowingStays
<1> QED
  BY <1>1, <1>2 DEF ProgramKnows

LEMMA FunctionKnowsNow ==
  ASSUME tokens' = tokens, failureFunctions' = failureFunctions, FunctionKnows(irFunction'[1])
  PROVE  FunctionKnows(irFunction[1])'
<1>1. PICK f : f = irFunction'[1]
  OBVIOUS
<1>2. FunctionKnows(f)'
  BY <1>1, KnowingStays
<1> QED
  BY <1>1, <1>2 DEF FunctionKnows, OneOutcome

LEMMA ProgramKnowsMore ==
  ASSUME NEW nodes, IsList(nodes), ProgramKnows(nodes), NEW node,
         node.kind = "FailureAwareFunction" => FunctionKnows(node)
  PROVE  ProgramKnows(nodes \o <<node>>)
<1>1. /\ Len(nodes) \in Nat
      /\ Len(nodes \o <<node>>) = Len(nodes) + 1
      /\ \A k \in 1..Len(nodes) : (nodes \o <<node>>)[k] = nodes[k]
      /\ (nodes \o <<node>>)[Len(nodes) + 1] = node
  BY PushedElement
<1>2. \A k \in 1..Len(nodes) + 1 : k \in 1..Len(nodes) \/ k = Len(nodes) + 1
  BY <1>1
<1> QED
  BY <1>1, <1>2 DEF ProgramKnows

\* A function with a child more.
LEMMA FunctionKnowsMore ==
  ASSUME NEW f, IsIrFunction(f), FunctionKnows(f), NEW ir, OneOutcome(f) => ChildKnows(ir)
  PROVE  /\ FunctionKnows([f EXCEPT !.children = f.children \o <<ir>>])
         /\ OneOutcome([f EXCEPT !.children = f.children \o <<ir>>]) =>
              OneOutcome(f) /\ ir.kind # "Outcome"
<1> DEFINE body == f.children
           grown == body \o <<ir>>
           g == [f EXCEPT !.children = grown]
<1>1. g.children = grown
  BY DEF IsIrFunction, IrFunctionFields
<1>2. IsList(body)
  BY DEF IsIrFunction
<1> HIDE DEF g, body
<1>3. /\ Len(body) \in Nat /\ Len(grown) = Len(body) + 1
      /\ \A k \in 1..Len(body) : grown[k] = body[k]
      /\ grown[Len(body) + 1] = ir
  BY <1>2, PushedElement
<1> HIDE DEF grown
<1>4. /\ \A k \in 1..Len(body) + 1 : k \in 1..Len(body) \/ k = Len(body) + 1
      /\ \A k \in 1..Len(body) : k \in 1..Len(body) + 1
      /\ Len(body) + 1 \in 1..Len(body) + 1
  BY <1>3
<1>5. OneOutcome(g) => OneOutcome(f) /\ ir.kind # "Outcome"
  BY <1>1, <1>3, <1>4 DEF OneOutcome, body
<1>6. FunctionKnows(g)
  BY <1>1, <1>3, <1>4, <1>5 DEF FunctionKnows, body
<1> QED
  BY <1>5, <1>6 DEF g, grown, body

LEMMA BuildKeepsCallees ==
  ASSUME CallInv, SourcesInv, TriesInv, ResolvesInv, CalleesInv, BuildIr
  PROVE  CalleesInv'
<1>1. /\ stage = "build" /\ stage' = "build" /\ analysis = "accepted"
      /\ UNCHANGED <<tokens, failureFunctions, unit>>
      /\ BuildAt /\ IsList(program) /\ ProgramKnows(program)
  <2>1. stage = "build" /\ stage' = "build" /\ UNCHANGED <<tokens, failureFunctions>>
    BY DEF BuildIr, controlVars, analysisVars
  <2>2. unit' = unit
    BY DEF BuildIr, Construction!Next, Construction!BuildTopLevel,
       Construction!BeginFunction, Construction!BuildBodyChild, Construction!EndFunction,
       Construction!FinishConstruction
  <2>3. analysis = "accepted"
    BY <2>1 DEF CallInv, RInv, SInv
  <2> QED
    BY <2>1, <2>2, <2>3 DEF CallInv, SourcesInv, ProgramInv, IsProgram, CalleesInv
<1>2. /\ FinishedTree /\ Len(unit.children) \in Nat /\ AllFromTries(resolutions)
      /\ UnitSettledBy(resolutions, Len(unit.children) + 1)
  BY <1>1, AcceptedUnit
<1>3. ASSUME ProgramKnows(program'),
             construction' = "inFunction" =>
               /\ FunctionKnows(irFunction'[1])
               /\ OneOutcome(irFunction'[1]) => bodyContract' = ContractType(unit'.children[child'])
      PROVE  CalleesInv'
  <2>1. ProgramKnows(program)'
    BY <1>1, <1>3, ProgramKnowsNow
  <2>2. (construction = "inFunction")' => FunctionKnows(irFunction[1])'
    BY <1>1, <1>3, FunctionKnowsNow
  <2>3. (construction = "inFunction")' =>
          (OneOutcome(irFunction[1]) => bodyContract = ContractType(unit.children[child]))'
    BY <1>3 DEF OneOutcome, ContractType, Analysis!ContractOf
  <2> QED
    BY <2>1, <2>2, <2>3 DEF CalleesInv
<1>4. CASE Construction!BuildTopLevel
  <2> DEFINE built == Construction!Build(unit.children[child], contract)
  <2>1. /\ construction = "building"
        /\ \/ construction' = "failed" /\ program' = program
           \/ /\ built.ir # <<>> /\ program' = program \o built.ir
              /\ construction' = construction
    BY <1>4 DEF Construction!BuildTopLevel, Construction!Stop
  <2>2. ASSUME built.ir # <<>> PROVE ProgramKnows(program \o built.ir)
    <3>1. PICK ir : built.ir = <<ir>> /\ ir.kind # "FailureAwareFunction"
      BY <2>2, BuiltIsPlain
    <3> HIDE DEF built
    <3> QED
      BY <1>1, <3>1, ProgramKnowsMore
  <2> HIDE DEF built
  <2> QED
    BY <1>1, <1>3, <2>1, <2>2
<1>5. CASE Construction!BeginFunction
  <2> DEFINE node == unit.children[child]
             built == Construction!BuildFunction(node)
  <2>1. /\ program' = program /\ construction = "building" /\ child' = child
        /\ node.kind = "FunctionDeclaration" /\ child <= Len(unit.children)
        /\ \/ construction' = "failed"
           \/ /\ built.ir # <<>> /\ irFunction' = built.ir
              /\ bodyContract' = built.ir[1].outcome.failureType
    BY <1>5 DEF Construction!BeginFunction, Construction!Stop
  <2>2. child \in 1..Len(unit.children)
    BY <1>1, <2>1 DEF BuildAt
  <2>3. IsList(node.children)
    BY <1>2, <2>1, <2>2, FunctionsOfTheTree
  <2>4. ASSUME built.ir # <<>>
        PROVE  /\ FunctionKnows(built.ir[1])
               /\ built.ir[1].outcome.failureType = ContractType(node)
    <3>1. PICK f : built.ir = <<f>> /\ f.children = <<>>
      BY <2>4, BuiltFunctionIsValid
    <3>2. f.outcome.failureType = ContractType(node)
      BY <2>3, <3>1, BuiltFunctionKnowsItsContract
    <3>3. FunctionKnows(f)
      BY <3>1, EmptyList DEF FunctionKnows
    <3> HIDE DEF built
    <3> QED
      BY <3>1, <3>2, <3>3, SingletonList
  <2> HIDE DEF built
  <2>5. construction' # "failed" =>
          /\ FunctionKnows(irFunction'[1])
          /\ bodyContract' = ContractType(unit'.children[child'])
    BY <1>1, <2>1, <2>4
  <2> QED
    BY <1>1, <1>3, <2>1, <2>5
<1>6. CASE Construction!BuildBodyChild
  <2> DEFINE f == unit.children[child]
             node == f.children[bodyChild]
             built == Construction!Build(node, bodyContract)
  <2>1. /\ construction = "inFunction" /\ program' = program /\ bodyChild <= Len(f.children)
        /\ child' = child /\ bodyContract' = Construction!ContractAfter(node, bodyContract)
        /\ \/ construction' = "failed"
           \/ /\ built.ir # <<>> /\ construction' = construction
              /\ irFunction' = <<[irFunction[1] EXCEPT !.children = @ \o built.ir]>>
    BY <1>6 DEF Construction!BuildBodyChild, Construction!Stop
  <2>2. /\ child \in 1..Len(unit.children) /\ f.kind = "FunctionDeclaration"
        /\ bodyChild \in Nat \ {0}
    <3>1. /\ child \in 1..Len(unit.children)+1 /\ child <= Len(unit.children)
          /\ unit.children[child].kind = "FunctionDeclaration" /\ bodyChild \in Nat \ {0}
      BY <1>1, <2>1 DEF BuildAt
    <3> HIDE DEF f
    <3>2. child \in 1..Len(unit.children)
      BY <1>2, <3>1
    <3> QED
      BY <3>1, <3>2 DEF f
  <2>3. IsList(f.children) /\ FunctionRead(f.children)
    BY <1>2, <2>2, FunctionsOfTheTree
  <2>4. /\ bodyChild \in 1..Len(f.children)
        /\ bodyChild \in 1..(Len(f.children) + 1) - 1
        /\ child \in 1..(Len(unit.children) + 1) - 1
    <3> DEFINE n == Len(f.children)
               m == Len(unit.children)
    <3>1. n \in Nat /\ m \in Nat /\ child \in 1..m /\ bodyChild <= n /\ bodyChild \in Nat \ {0}
      <4>1. n \in Nat
        BY <2>3 DEF IsList
      <4> QED
        BY <1>2, <2>1, <2>2, <4>1
    <3> HIDE DEF n, m
    <3>2. bodyChild \in 1..n /\ bodyChild \in 1..(n + 1) - 1 /\ child \in 1..(m + 1) - 1
      BY <3>1
    <3> QED
      BY <3>2 DEF n, m
  <2>5. ChildRead(node)
    BY <2>3, <2>4 DEF FunctionRead
  <2>6. NodeSettledBy(resolutions, node, ContractType(f))
    <3>1. FunctionSettledBy(resolutions, f, Len(f.children) + 1)
      BY <1>2, <2>2, <2>4 DEF UnitSettledBy
    <3> QED
      BY <2>4, <3>1 DEF FunctionSettledBy
  <2>7. PICK g : irFunction = <<g>> /\ IsIrFunction(g)
    BY <2>1 DEF CallInv, ProgramInv
  <2>8. irFunction[1] = g
    BY <2>7, SingletonList
  <2>9. FunctionKnows(g) /\ (OneOutcome(g) => bodyContract = ContractType(f))
    BY <1>1, <2>1, <2>8 DEF CalleesInv
  <2>10. ASSUME built.ir # <<>>, irFunction' = <<[g EXCEPT !.children = g.children \o built.ir]>>
         PROVE  /\ FunctionKnows(irFunction'[1])
                /\ OneOutcome(irFunction'[1]) => bodyContract' = ContractType(f)
    <3>1. PICK ir : built.ir = <<ir>>
      BY <2>10, BuiltIsPlain
    <3>2. IsTokenStream(tokens)
      BY <1>2 DEF FinishedTree
    <3>3. OneOutcome(g) =>
            ChildKnows(ir) /\ (node.kind = "FailureSpecification" => ir.kind = "Outcome")
      BY <1>2, <2>5, <2>6, <2>9, <3>1, <3>2, BuiltChildKnows
    <3> DEFINE grown == [g EXCEPT !.children = g.children \o <<ir>>]
    <3>4. /\ FunctionKnows(grown)
          /\ OneOutcome(grown) => OneOutcome(g) /\ ir.kind # "Outcome"
      BY <2>7, <2>9, <3>3, FunctionKnowsMore
    <3> HIDE DEF grown
    <3>5. irFunction'[1] = grown
      <4>1. irFunction' = <<grown>>
        BY <2>10, <3>1 DEF grown
      <4> QED
        BY <4>1, SingletonList
    <3>6. node.kind # "FailureSpecification" => bodyContract' = bodyContract
      BY <2>1 DEF Construction!ContractAfter
    <3> QED
      BY <2>9, <3>3, <3>4, <3>5, <3>6
  <2> HIDE DEF built, node
  <2>11. construction' # "failed" =>
           /\ FunctionKnows(irFunction'[1])
           /\ OneOutcome(irFunction'[1]) => bodyContract' = ContractType(f)
    BY <2>1, <2>8, <2>10
  <2> QED
    BY <1>1, <1>3, <2>1, <2>11
<1>7. CASE Construction!EndFunction
  <2>1. /\ construction = "inFunction" /\ construction' = "building"
        /\ program' = program \o irFunction
    BY <1>7 DEF Construction!EndFunction
  <2>2. PICK g : irFunction = <<g>>
    BY <2>1 DEF CallInv, ProgramInv
  <2>3. FunctionKnows(g)
    BY <1>1, <2>1, <2>2, SingletonList DEF CalleesInv
  <2>4. ProgramKnows(program')
    BY <1>1, <2>1, <2>2, <2>3, ProgramKnowsMore
  <2> QED
    BY <1>3, <2>1, <2>4
<1>8. CASE Construction!FinishConstruction
  <2>1. program' = program /\ construction' = "built"
    BY <1>8 DEF Construction!FinishConstruction
  <2> QED
    BY <1>1, <1>3, <2>1
<1> QED
  BY <1>4, <1>5, <1>6, <1>7, <1>8 DEF BuildIr, Construction!Next

LEMMA ProgramKnowsReplaced ==
  ASSUME NEW nodes, IsList(nodes), ProgramKnows(nodes), NEW k \in 1..Len(nodes),
         NEW node, FunctionKnows(node)
  PROVE  ProgramKnows([nodes EXCEPT ![k] = node])
<1> DEFINE new == [nodes EXCEPT ![k] = node]
<1>1. /\ Len(new) = Len(nodes) /\ new[k] = node
      /\ \A l \in 1..Len(nodes) : l # k => new[l] = nodes[l]
  BY NodeReplaced
<1> HIDE DEF new
<1>2. ProgramKnows(new)
  BY <1>1 DEF ProgramKnows
<1> QED
  BY <1>2 DEF new

\* A function whose initialization has got its variable, or that is lowered.
LEMMA FunctionKnowsLowered ==
  ASSUME NEW f, IsIrFunction(f), FunctionKnows(f)
  PROVE  /\ \A mark : FunctionKnows([f EXCEPT !.lowered = mark])
         /\ \A i \in 1..Len(f.children) : \A id :
              f.children[i].kind = "TryInitialization" =>
                FunctionKnows([f EXCEPT !.children =
                  [f.children EXCEPT ![i] = LoweringStage!Numbered(f.children[i], id)]])
<1>1. ASSUME NEW mark PROVE FunctionKnows([f EXCEPT !.lowered = mark])
  <2> DEFINE g == [f EXCEPT !.lowered = mark]
  <2>1. g.children = f.children
    BY DEF IsIrFunction, IrFunctionFields
  <2> HIDE DEF g
  <2>2. FunctionKnows(g)
    BY <2>1 DEF FunctionKnows, OneOutcome
  <2> QED
    BY <2>2 DEF g
<1>2. ASSUME NEW i \in 1..Len(f.children), NEW id, f.children[i].kind = "TryInitialization"
      PROVE  FunctionKnows([f EXCEPT !.children =
               [f.children EXCEPT ![i] = LoweringStage!Numbered(f.children[i], id)]])
  <2> DEFINE body == f.children
             node == LoweringStage!Numbered(body[i], id)
             nodes == [body EXCEPT ![i] = node]
             g == [f EXCEPT !.children = nodes]
  <2>1. g.children = nodes
    BY DEF IsIrFunction, IrFunctionFields
  <2>2. node.kind = "TryInitialization" /\ node.propagation = body[i].propagation
    BY DEF LoweringStage!Numbered
  <2>3. IsList(body) /\ i \in 1..Len(body)
    BY DEF IsIrFunction
  <2> HIDE DEF g, body, node
  <2>4. /\ Len(nodes) = Len(body) /\ nodes[i] = node
        /\ \A l \in 1..Len(body) : l # i => nodes[l] = body[l]
    BY <2>3, NodeReplaced
  <2> HIDE DEF nodes
  <2>5. OneOutcome(g) => OneOutcome(f)
    BY <1>2, <2>1, <2>4 DEF OneOutcome, body
  <2>6. ChildKnows(body[i]) => ChildKnows(node)
    BY <1>2, <2>2 DEF ChildKnows, body
  <2>7. FunctionKnows(g)
    BY <2>1, <2>4, <2>5, <2>6 DEF FunctionKnows, body
  <2> QED
    BY <2>7 DEF g, nodes, node, body
<1> QED
  BY <1>1, <1>2

LEMMA LowerKeepsCallees ==
  ASSUME CallInv, CalleesInv, Lower
  PROVE  CalleesInv'
<1> DEFINE f == program[child]
<1>1. /\ stage = "lower" /\ stage' = "lower" /\ LoweringStage!Next
      /\ tokens' = tokens /\ failureFunctions' = failureFunctions
      /\ IsProgram(program) /\ IsList(program) /\ Len(program) \in Nat /\ LoweringAt
      /\ ProgramKnows(program)
  <2>1. tokens' = tokens
    BY TokensStay DEF Next, Process
  <2> QED
    BY <2>1 DEF Lower, controlVars, analysisVars, CallInv, ProgramInv, CalleesInv,
           IsProgram, IsList
<1>2. ASSUME ProgramKnows(program') PROVE CalleesInv'
  <2>1. ProgramKnows(program)'
    BY <1>1, <1>2, ProgramKnowsNow
  <2> QED
    BY <1>1, <2>1 DEF CalleesInv
<1>3. CASE LoweringStage!LowerNode \/ LoweringStage!RefuseVoidFunction
           \/ LoweringStage!BeginFunction \/ LoweringStage!FinishLowering
  <2>1. program' = program
    BY <1>3 DEF LoweringStage!LowerNode, LoweringStage!RefuseVoidFunction,
       LoweringStage!BeginFunction, LoweringStage!FinishLowering
  <2> QED
    BY <1>1, <1>2, <2>1
<1>4. CASE LoweringStage!NumberInitialization
  <2> DEFINE body == f.children
             id == LoweringStage!FreshId(f.range)
             node == LoweringStage!Numbered(body[bodyChild], id)
             g == [f EXCEPT !.children = [body EXCEPT ![bodyChild] = node]]
  <2>1. /\ lowering = "numbering" /\ child <= Len(program) /\ bodyChild <= Len(body)
        /\ \/ /\ body[bodyChild].kind = "TryInitialization"
              /\ program' = [program EXCEPT ![child] =
                               [f EXCEPT !.children = [body EXCEPT ![bodyChild] = node]]]
           \/ program' = program
    BY <1>4 DEF LoweringStage!NumberInitialization, LoweringStage!InFunction
  <2>2. child \in 1..Len(program) /\ f.kind = "FailureAwareFunction" /\ IsIrFunction(f)
    BY <1>1, <2>1 DEF LoweringAt, IsProgram
  <2>3. bodyChild \in 1..Len(body)
    <3>1. Len(body) \in Nat /\ bodyChild \in 1..Len(body)+1
      BY <1>1, <2>1, <2>2 DEF LoweringAt, IsIrFunction, IsList
    <3> QED
      BY <2>1, <3>1
  <2>4. FunctionKnows(f)
    BY <1>1, <2>2 DEF ProgramKnows
  <2>5. body[bodyChild].kind = "TryInitialization" => FunctionKnows(g)
    <3> HIDE DEF f, id
    <3> QED
      BY <2>2, <2>3, <2>4, FunctionKnowsLowered
  <2>6. body[bodyChild].kind = "TryInitialization" => ProgramKnows([program EXCEPT ![child] = g])
    <3> HIDE DEF g, body
    <3> QED
      BY <1>1, <2>2, <2>5, ProgramKnowsReplaced
  <2> QED
    BY <1>1, <1>2, <2>1, <2>6
<1>5. CASE LoweringStage!MarkLowered
  <2> DEFINE g == [f EXCEPT !.lowered = TRUE]
  <2>1. /\ lowering = "numbering" /\ child <= Len(program)
        /\ program' = [program EXCEPT ![child] = g]
    BY <1>5 DEF LoweringStage!MarkLowered, LoweringStage!InFunction
  <2>2. child \in 1..Len(program) /\ f.kind = "FailureAwareFunction" /\ IsIrFunction(f)
    BY <1>1, <2>1 DEF LoweringAt, IsProgram
  <2>3. FunctionKnows(g)
    <3>1. FunctionKnows(f)
      BY <1>1, <2>2 DEF ProgramKnows
    <3> HIDE DEF f
    <3> QED
      BY <2>2, <3>1, FunctionKnowsLowered
  <2> HIDE DEF g, f
  <2> QED
    BY <1>1, <1>2, <2>1, <2>2, <2>3, ProgramKnowsReplaced
<1> QED
  BY <1>1, <1>3, <1>4, <1>5 DEF LoweringStage!Next

LEMMA CalleesAreKept ==
  CallInv /\ SourcesInv /\ TriesInv /\ ResolvesInv /\ CalleesInv /\ [Next]_vars => CalleesInv'
<1> SUFFICES ASSUME CallInv, SourcesInv, TriesInv, ResolvesInv, CalleesInv, [Next]_vars
             PROVE  CalleesInv'
  OBVIOUS
<1>1. SInv /\ tokens' = tokens
  BY TokensStay DEF CallInv, RInv
<1>2. workVars' = workVars =>
        UNCHANGED <<program, failureFunctions, construction, irFunction, bodyContract, unit, child>>
  BY DEF workVars, cursor, analysisVars, irVars
\* Before the construction and after the call.
<1>3. ASSUME stage' \in {"lex", "lexed", "parse", "analyze", "done"} PROVE CalleesInv'
  BY <1>3 DEF CalleesInv
\* After the construction.
<1>4. ASSUME stage \in {"build", "lower", "emit"}, stage' \in {"lower", "emit"},
             UNCHANGED <<program, failureFunctions>>
      PROVE  CalleesInv'
  <2>1. ProgramKnows(program')
    BY <1>4 DEF CalleesInv
  <2>2. ProgramKnows(program)'
    BY <1>1, <1>4, <2>1, ProgramKnowsNow
  <2> QED
    BY <1>4, <2>2 DEF CalleesInv
<1>5. CASE Lex \/ FinishLexing \/ Parse \/ FinishParsing \/ Analyze \/ FinishEmitting
  BY <1>3, <1>5 DEF Lex, FinishLexing, Parse, FinishParsing, Analyze, FinishEmitting,
     Proceed, Refuse, MakeResult, controlVars
<1>6. CASE FinishAnalyzing
  <2>1. stage = "analyze" /\ stage' \in {"build", "done"} /\ workVars' = workVars
    BY <1>6 DEF FinishAnalyzing, Proceed, Refuse, MakeResult
  <2>2. construction = "building" /\ program = <<>>
    BY <1>1, <2>1 DEF SInv, CallInv, ProgramInv
  <2>3. ProgramKnows(program')
    BY <1>2, <2>1, <2>2, EmptyList DEF ProgramKnows
  <2>4. ProgramKnows(program)'
    BY <1>1, <1>2, <2>1, <2>3, ProgramKnowsNow
  <2>5. construction' # "inFunction"
    BY <1>2, <2>1, <2>2
  <2> QED
    BY <2>4, <2>5 DEF CalleesInv
<1>7. CASE BuildIr
  BY <1>7, BuildKeepsCallees
<1>8. CASE FinishBuilding
  <2>1. stage = "build" /\ stage' \in {"lower", "done"} /\ workVars' = workVars
    BY <1>8 DEF FinishBuilding, Proceed, Refuse, MakeResult
  <2> QED
    BY <1>2, <1>3, <1>4, <2>1
<1>9. CASE Lower
  BY <1>9, LowerKeepsCallees
<1>10. CASE FinishLowering
  <2>1. stage = "lower" /\ stage' \in {"emit", "done"} /\ workVars' = workVars
    BY <1>10 DEF FinishLowering, Proceed, Refuse, MakeResult
  <2> QED
    BY <1>2, <1>3, <1>4, <2>1
<1>11. CASE Emit
  <2>1. stage = "emit" /\ stage' = "emit" /\ failureFunctions' = failureFunctions
    BY <1>11 DEF Emit, controlVars, analysisVars
  <2>2. program' = program
    BY <1>11 DEF Emit, Emission!Next, Emission!EmitSupport, Emission!EmitTopLevel,
       Emission!EnterFunction, Emission!EmitBodyChild, Emission!LeaveFunction,
       Emission!FinishEmission
  <2> QED
    BY <1>4, <2>1, <2>2
<1>12. CASE UNCHANGED vars
  <2>1. stage' = stage /\ workVars' = workVars
    BY <1>12 DEF vars, controlVars
  <2>2. ASSUME stage = "build" PROVE CalleesInv'
    <3>1. ProgramKnows(program)'
      BY <1>1, <1>2, <2>1, <2>2, ProgramKnowsNow DEF CalleesInv
    <3>2. (construction = "inFunction")' => FunctionKnows(irFunction[1])'
      BY <1>1, <1>2, <2>1, <2>2, FunctionKnowsNow DEF CalleesInv
    <3>3. (construction = "inFunction")' =>
            (OneOutcome(irFunction[1]) => bodyContract = ContractType(unit.children[child]))'
      BY <1>2, <2>1, <2>2 DEF CalleesInv, OneOutcome, ContractType, Analysis!ContractOf
    <3> QED
      BY <3>1, <3>2, <3>3 DEF CalleesInv
  <2> QED
    BY <1>1, <1>2, <1>3, <1>4, <2>1, <2>2 DEF SInv
<1> QED
  BY <1>5, <1>6, <1>7, <1>8, <1>9, <1>10, <1>11, <1>12 DEF Next, Process, Returned

LEMMA CalleesImplyKnowing ==
  ASSUME CallInv, CalleesInv PROVE PropagationsKnowTheirCallee
<1> SUFFICES ASSUME stage \in {"lower", "emit"}, NEW f \in IrFunctions,
                    \A node \in ToSet(f.children) : node.kind # "Outcome",
                    NEW p \in Propagations(f)
             PROVE  Knowing(p)
  <2> SUFFICES ASSUME stage \in {"lower", "emit"}, NEW f \in IrFunctions,
                      \A node \in ToSet(f.children) : node.kind # "Outcome",
                      NEW p \in Propagations(f)
               PROVE  /\ p.callee \in DOMAIN failureFunctions
                      /\ Analysis!NormalizedType(p.failureType)
                           = Analysis!NormalizedType(failureFunctions[p.callee].failureType)
    BY DEF PropagationsKnowTheirCallee
  <2>1. DOMAIN failureFunctions = 1..Len(failureFunctions)
    BY DEF CallInv, AnalysisInv, IsList
  <2> QED
    BY <2>1 DEF Knowing
<1>1. IsProgram(program) /\ ProgramKnows(program)
  BY DEF CallInv, ProgramInv, CalleesInv
<1>2. \E k \in 1..Len(program) : f = program[k] /\ program[k].kind = "FailureAwareFunction"
  BY <1>1 DEF IrFunctions, IsProgram, IsList, ToSet
<1>3. IsList(f.children) /\ FunctionKnows(f)
  BY <1>1, <1>2 DEF IsProgram, IsIrFunction, ProgramKnows
<1>4. \A i \in 1..Len(f.children) : f.children[i] \in ToSet(f.children)
  BY <1>3 DEF IsList, ToSet
<1>5. \A i \in 1..Len(f.children) : ChildKnows(f.children[i])
  BY <1>3, <1>4 DEF FunctionKnows, OneOutcome
<1>6. \E i \in 1..Len(f.children) :
        \/ f.children[i].kind = "FailurePropagation" /\ p = f.children[i]
        \/ f.children[i].kind = "TryInitialization" /\ p = f.children[i].propagation
        \/ /\ f.children[i].kind = "Failure" /\ f.children[i].operand.kind = "FailurePropagation"
           /\ p = f.children[i].operand
  <2>1. \A x \in ToSet(f.children) : \E i \in 1..Len(f.children) : x = f.children[i]
    BY <1>3 DEF IsList, ToSet
  <2> QED
    BY <2>1 DEF Propagations
<1> QED
  BY <1>5, <1>6 DEF ChildKnows

(***************************************************************************)
(* For every stream of tokens: once the construction has built a function  *)
(* without a contract in its body, each of its propagations has the        *)
(* callee the analysis resolved its `try` to, and propagates the failures  *)
(* that callee declares, through the lowering and the emission.            *)
(***************************************************************************)
THEOREM PropagationsHaveTheirCallee == Spec => []PropagationsKnowTheirCallee
<1> DEFINE Inv == CallInv /\ RangesInv /\ SourcesInv /\ TriesInv /\ ResolvesInv /\ CalleesInv
<1>1. Init => Inv
  <2>1. Init => stage = "lex"
    BY DEF Init
  <2> QED
    BY <2>1, InitIsCall, InitHasRanges, InitIsSourced, InitResolves DEF CalleesInv
<1>2. Inv /\ [Next]_vars => Inv'
  BY StepKeepsCall, RangesAreKeptInCall, SourcesAreKept, TriesAreKeptInCall, ResolvesAreKept,
     CalleesAreKept DEF CallInv
<1>3. Inv => PropagationsKnowTheirCallee
  BY CalleesImplyKnowing
<1> QED
  BY <1>1, <1>2, <1>3, PTL DEF Spec

=============================================================================
