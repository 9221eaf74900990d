---------------------------- MODULE ValueLemmas ----------------------------
(***************************************************************************)
(* What the proofs of all components need to know of values: the least and *)
(* greatest elements of sets of naturals, which the scanning loops of the  *)
(* front end are written with, and lists of any elements.                  *)
(***************************************************************************)
EXTENDS Integers, FiniteSetsExt, SequencesExt, SequenceTheorems, WellFoundedInduction, TLAPS

Less == {pair \in Nat \X Nat : pair[1] < pair[2]}

\* The order of the naturals, as the relation the library's theorems take.
LEMMA LessIsWellFounded == IsWellFoundedOn(Less, Nat)
<1>1. Less = OpToRel(<, Nat)
  BY DEF OpToRel, Less
<1>2. QED
  BY <1>1, NatLessThanWellFounded

\* A non-empty set of naturals has a least element, and Min returns it.
LEMMA MinOfNaturals ==
  ASSUME NEW S \in SUBSET Nat, S # {}
  PROVE  Min(S) \in S /\ \A y \in S : Min(S) <= y
<1>1. PICK x \in S : \A y \in S : ~(<<y, x>> \in Less)
  BY LessIsWellFounded, WFMin
<1>2. ASSUME NEW y \in S PROVE x <= y
  <2>1. <<y, x>> \notin Less
    BY <1>1
  <2>2. QED
    BY <2>1 DEF Less
<1>3. QED
  BY <1>2 DEF Min

\* A scan that may stop at any index of S, and stops at the limit at the
\* latest, returns an index between its start and the limit.
LEMMA ScanStops ==
  ASSUME NEW limit \in Nat, NEW first \in 1..limit,
         NEW S \in SUBSET (first..limit), limit \in S
  PROVE  Min(S) \in first..limit
<1>1. S \in SUBSET Nat
  OBVIOUS
<1>2. QED
  BY <1>1, MinOfNaturals

\* A non-empty bounded set of naturals has a greatest element.
LEMMA MaxOfNaturals ==
  ASSUME NEW bound \in Nat, NEW S \in SUBSET (0..bound), S # {}
  PROVE  Max(S) \in S /\ \A y \in S : y <= Max(S)
<1> DEFINE T == {bound - y : y \in S}
<1>1. T \in SUBSET Nat
  OBVIOUS
<1>2. T # {}
  OBVIOUS
<1>3. PICK x \in S : bound - x = Min(T)
  <2> HIDE DEF T
  <2>1. Min(T) \in T
    BY <1>1, <1>2, MinOfNaturals
  <2>2. QED
    BY <2>1 DEF T
<1>4. \A z \in T : Min(T) <= z
  <2> HIDE DEF T
  <2>1. QED
    BY <1>1, <1>2, MinOfNaturals
<1>5. ASSUME NEW y \in S PROVE x >= y
  <2>1. bound - y \in T
    OBVIOUS
  <2>2. Min(T) <= bound - y
    BY <2>1, <1>4
  <2>3. bound - x <= bound - y
    BY <2>2, <1>3
  <2>4. QED
    BY <2>3
<1>6. QED
  BY <1>5 DEF Max

\* The least and the greatest element of a set of integers, when they are known.
LEMMA MinIs ==
  ASSUME NEW S \in SUBSET Int, NEW x \in S, \A y \in S : x <= y
  PROVE  Min(S) = x
<1>1. Min(S) \in S /\ \A y \in S : Min(S) <= y
  BY DEF Min
<1>2. Min(S) \in Int /\ x \in Int /\ Min(S) <= x /\ x <= Min(S)
  BY <1>1
<1> QED
  BY <1>2

LEMMA MaxIs ==
  ASSUME NEW S \in SUBSET Int, NEW x \in S, \A y \in S : y <= x
  PROVE  Max(S) = x
<1>1. Max(S) \in S /\ \A y \in S : y <= Max(S)
  BY DEF Max
<1>2. Max(S) \in Int /\ x \in Int /\ Max(S) <= x /\ x <= Max(S)
  BY <1>1
<1> QED
  BY <1>2

LEMMA MinOfTwo ==
  ASSUME NEW x \in Int, NEW y \in Int
  PROVE  Min({x, y}) = IF x <= y THEN x ELSE y
BY MinIs

LEMMA MaxOfTwo ==
  ASSUME NEW x \in Int, NEW y \in Int
  PROVE  Max({x, y}) = IF x <= y THEN y ELSE x
BY MaxIs

-----------------------------------------------------------------------------
(* Lists: sequences of which only the elements are known.                  *)

IsList(s) == s \in Seq(ToSet(s))

LEMMA SeqIsList ==
  ASSUME NEW S, NEW s \in Seq(S)
  PROVE  IsList(s)
<1>1. PICK n \in Nat : s \in [1..n -> S]
  BY SeqDef
<1>2. s \in [1..n -> ToSet(s)]
  BY <1>1 DEF ToSet
<1>3. QED
  BY <1>2, SeqDef DEF IsList

LEMMA FunctionIsSequence ==
  ASSUME NEW count \in Nat, NEW R, NEW f \in [1..count -> R]
  PROVE  f \in Seq(R) /\ Len(f) = count
OBVIOUS

LEMMA ConcatOfLists ==
  ASSUME NEW s, NEW t, IsList(s), IsList(t)
  PROVE  /\ IsList(s \o t)
         /\ Len(s) \in Nat /\ Len(t) \in Nat
         /\ Len(s \o t) = Len(s) + Len(t)
         /\ \A k \in 1..Len(s) : (s \o t)[k] = s[k]
         /\ \A k \in 1..Len(t) : (s \o t)[Len(s) + k] = t[k]
<1> DEFINE S == ToSet(s) \cup ToSet(t)
<1>1. s \in Seq(S) /\ t \in Seq(S)
  <2>1. ToSet(s) \subseteq S /\ ToSet(t) \subseteq S
    OBVIOUS
  <2>2. QED
    BY <2>1, SeqMonotonic DEF IsList
<1> HIDE DEF S
<1>2. s \o t \in Seq(S)
  BY <1>1, ConcatProperties
<1>3. Len(s) \in Nat /\ Len(t) \in Nat
  BY <1>1, LenProperties
<1>4. /\ Len(s \o t) = Len(s) + Len(t)
      /\ \A i \in 1 .. Len(s) + Len(t) : (s \o t)[i] =
                     IF i <= Len(s) THEN s[i] ELSE t[i - Len(s)]
  BY <1>1, ConcatProperties
<1>5. ASSUME NEW k \in 1..Len(s) PROVE (s \o t)[k] = s[k]
  <2>1. k \in 1..Len(s) + Len(t) /\ k <= Len(s)
    BY <1>3
  <2>2. QED
    BY <1>4, <2>1
<1>6. ASSUME NEW k \in 1..Len(t) PROVE (s \o t)[Len(s) + k] = t[k]
  <2>1. /\ Len(s) + k \in 1..Len(s) + Len(t) /\ ~(Len(s) + k <= Len(s))
        /\ (Len(s) + k) - Len(s) = k
    BY <1>3
  <2>2. QED
    BY <1>4, <2>1
<1>7. IsList(s \o t)
  BY <1>2, SeqIsList
<1>8. QED
  BY <1>3, <1>4, <1>5, <1>6, <1>7

LEMMA SingletonList ==
  ASSUME NEW x
  PROVE  IsList(<<x>>) /\ Len(<<x>>) = 1 /\ <<x>>[1] = x
<1>1. <<x>> \in Seq({x})
  OBVIOUS
<1>2. QED
  BY <1>1, SeqIsList

LEMMA EmptyList == IsList(<<>>) /\ Len(<<>>) = 0
<1>1. <<>> \in Seq({})
  OBVIOUS
<1>2. QED
  BY <1>1, SeqIsList

\* A property of every element survives concatenation.
LEMMA PushedElement ==
  ASSUME NEW s, NEW x, IsList(s)
  PROVE  /\ IsList(s \o <<x>>)
         /\ Len(s) \in Nat
         /\ Len(s \o <<x>>) = Len(s) + 1
         /\ \A k \in 1..Len(s) : (s \o <<x>>)[k] = s[k]
         /\ (s \o <<x>>)[Len(s) + 1] = x
<1>1. IsList(<<x>>) /\ Len(<<x>>) = 1 /\ <<x>>[1] = x
  BY SingletonList
<1>2. QED
  BY <1>1, ConcatOfLists

LEMMA OneIsNotNone == \A x : <<x>> # <<>>
<1> SUFFICES ASSUME NEW x PROVE <<x>> # <<>>
  OBVIOUS
<1>1. Len(<<x>>) = 1 /\ Len(<<>>) = 0
  OBVIOUS
<1> QED
  BY <1>1

LEMMA NothingReported ==
  ASSUME NEW s, NEW t, IsList(s), IsList(t), s \o t = <<>>
  PROVE  s = <<>> /\ t = <<>>
<1>1. Len(s) \in Nat /\ Len(t) \in Nat /\ Len(s \o t) = Len(s) + Len(t)
  BY ConcatOfLists
<1>2. Len(s \o t) = 0
  BY EmptyList
<1>3. Len(s) = 0 /\ Len(t) = 0
  BY <1>1, <1>2
<1>4. s \in Seq(ToSet(s)) /\ t \in Seq(ToSet(t))
  BY DEF IsList
<1> QED
  BY <1>3, <1>4, EmptySeq

LEMMA ListsAssociate ==
  ASSUME NEW s, NEW t, NEW u, IsList(s), IsList(t), IsList(u)
  PROVE  s \o (t \o u) = (s \o t) \o u
<1> DEFINE S == ToSet(s) \cup ToSet(t) \cup ToSet(u)
<1>1. ToSet(s) \subseteq S /\ ToSet(t) \subseteq S /\ ToSet(u) \subseteq S
  OBVIOUS
<1>2. s \in Seq(S) /\ t \in Seq(S) /\ u \in Seq(S)
  BY <1>1, SeqMonotonic DEF IsList
<1> HIDE DEF S
<1> QED
  BY <1>2, ConcatAssociative

LEMMA NothingAppended ==
  ASSUME NEW s, IsList(s)
  PROVE  s \o <<>> = s /\ <<>> \o s = s
BY ConcatEmptySeq DEF IsList

=============================================================================
