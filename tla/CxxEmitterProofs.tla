-------------------------- MODULE CxxEmitterProofs --------------------------
(***************************************************************************)
(* The emitter's source map is ordered in every reachable state, whatever  *)
(* is written, and its two lookups agree because it is.                    *)
(***************************************************************************)
EXTENDS CxxEmitter, ValueLemmas, SequenceTheorems

Ranges == [begin : Int, end : Int]

LEMMA NoRangeIsARange == NoRange \in Ranges
<1>1. -1 \in Int
  OBVIOUS
<1>2. QED
  BY <1>1 DEF NoRange, Ranges, Invalid

\* What is known of an entry of a map.
LEMMA EntryFacts ==
  ASSUME NEW sourceMap \in Seq(Entries), NEW i \in 1..Len(sourceMap)
  PROVE  /\ Len(sourceMap) \in Nat /\ sourceMap[i] \in Entries
         /\ sourceMap[i].begin \in Nat /\ sourceMap[i].end \in Nat
<1>1. sourceMap[i] \in Entries
  BY ElementOfSeq
<1>2. \A entry \in Entries : entry.begin \in Nat /\ entry.end \in Nat
  BY DEF Entries
<1>3. Len(sourceMap) \in Nat
  OBVIOUS
<1>4. QED
  BY <1>1, <1>2, <1>3

\* One more entry keeps the map ordered: add() refuses the others.
LEMMA MappedStaysOrdered ==
  ASSUME NEW state \in Emitters, Ordered(state),
         NEW text \in Seq(Units), NEW original \in Ranges
  PROVE  LET sourceMap == Mapped(state, text, original)
             limit == Len(state.output) + Len(text)
         IN  /\ sourceMap \in Seq(Entries)
             /\ \A i \in 1..Len(sourceMap) :
                  /\ ValidEntry(sourceMap[i])
                  /\ sourceMap[i].begin < sourceMap[i].end
                  /\ sourceMap[i].end <= limit
                  /\ \A j \in 1..i-1 : sourceMap[j].end <= sourceMap[i].begin
<1> DEFINE old == state.sourceMap
           begin == Len(state.output)
           limit == begin + Len(text)
           entry == MapEntry(begin, limit, original)
           new == Mapped(state, text, original)
<1>1. /\ old \in Seq(Entries) /\ Len(old) \in Nat
      /\ begin \in Nat /\ Len(text) \in Nat /\ limit \in Nat
      /\ state.output \in Seq(Units)
  BY DEF Emitters
<1>2. \A i \in 1..Len(old) :
        /\ old[i] \in Entries /\ ValidEntry(old[i])
        /\ old[i].begin < old[i].end /\ old[i].end <= begin /\ old[i].end <= limit
        /\ \A j \in 1..i-1 : old[j].end <= old[i].begin
  <2>1. ASSUME NEW i \in 1..Len(old) PROVE old[i] \in Entries /\ old[i].end \in Nat
    <3>1. old \in Seq(Entries)
      BY <1>1
    <3> HIDE DEF old
    <3>2. QED
      BY <3>1, EntryFacts
  <2>2. ASSUME NEW i \in 1..Len(old)
        PROVE  /\ ValidEntry(old[i])
               /\ old[i].begin < old[i].end /\ old[i].end <= begin
               /\ \A j \in 1..i-1 : old[j].end <= old[i].begin
    BY DEF Ordered
  <2>3. QED
    BY <1>1, <2>1, <2>2
<1>3. CASE new = old
  BY <1>1, <1>2, <1>3
<1>4. CASE new # old
  <2>1. /\ ValidRange(original) /\ text # <<>>
        /\ new = Append(old, entry) /\ ValidEntry(entry)
    BY <1>4 DEF Mapped, Add, Accepts
  <2>2. begin < limit
    BY <1>1, <2>1, EmptySeq
  <2>3. /\ entry \in Entries
        /\ entry.begin = begin /\ entry.end = limit
    BY <1>1 DEF MapEntry, Entries, Ranges
  <2> HIDE DEF old, begin, limit, entry, new
  <2>4. /\ new \in Seq(Entries) /\ Len(new) = Len(old) + 1
        /\ \A i \in 1..Len(old) : new[i] = old[i]
        /\ new[Len(old) + 1] = entry
    BY <1>1, <2>1, <2>3
  <2>5. ASSUME NEW i \in 1..Len(new)
        PROVE  /\ ValidEntry(new[i]) /\ new[i].begin < new[i].end
               /\ new[i].end <= limit
               /\ \A j \in 1..i-1 : new[j].end <= new[i].begin
    <3>1. CASE i \in 1..Len(old)
      <4>1. \A j \in 1..i-1 : new[j] = old[j]
        <5> TAKE j \in 1..i-1
        <5>1. j \in 1..Len(old)
          BY <1>1, <3>1
        <5>2. QED
          BY <2>4, <5>1
      <4>2. QED
        BY <1>2, <2>4, <3>1, <4>1
    <3>2. CASE i = Len(old) + 1
      <4>1. \A j \in 1..i-1 : j \in 1..Len(old) /\ new[j] = old[j]
        BY <1>1, <2>4, <3>2
      <4>2. \A j \in 1..i-1 : new[j].end <= begin
        BY <1>2, <4>1
      <4>3. new[i] = entry
        BY <2>4, <3>2
      <4>4. QED
        BY <2>1, <2>2, <2>3, <4>2, <4>3, <1>1
    <3>3. QED
      BY <1>1, <2>4, <3>1, <3>2
  <2>6. QED
    BY <2>4, <2>5 DEF new, limit, begin
<1>5. QED
  BY <1>3, <1>4

\* A write keeps the emitter's type and the order of its map.
LEMMA WriteKeepsOrder ==
  ASSUME NEW state \in Emitters, Ordered(state),
         NEW text \in Seq(Units), NEW original \in Ranges
  PROVE  Write(state, text, original) \in Emitters /\ Ordered(Write(state, text, original))
<1> DEFINE written == Write(state, text, original)
<1>1. /\ state.output \in Seq(Units) /\ state.indentation \in Nat
      /\ written.output = state.output \o text
      /\ written.sourceMap = Mapped(state, text, original)
      /\ written = [output |-> state.output \o text,
                    sourceMap |-> Mapped(state, text, original),
                    indentation |-> state.indentation]
  <2> DEFINE mapped == Mapped(state, text, original)
  <2>1. written = [state EXCEPT !.output = state.output \o text, !.sourceMap = mapped]
    BY DEF Write
  <2> HIDE DEF mapped, written
  <2>2. QED
    BY <2>1 DEF Emitters, mapped
<1>2. /\ written.output \in Seq(Units)
      /\ Len(written.output) = Len(state.output) + Len(text)
  BY <1>1, ConcatProperties
<1>3. Mapped(state, text, original) \in Seq(Entries)
  BY MappedStaysOrdered
<1>4. written \in Emitters
  BY <1>1, <1>2, <1>3 DEF Emitters
<1>5. Ordered(written)
  <2>1. \A i \in 1..Len(written.sourceMap) :
          /\ ValidEntry(written.sourceMap[i])
          /\ written.sourceMap[i].begin < written.sourceMap[i].end
          /\ written.sourceMap[i].end <= Len(written.output)
          /\ \A j \in 1..i-1 : written.sourceMap[j].end <= written.sourceMap[i].begin
    <3> HIDE DEF written
    <3>1. QED
      BY <1>1, <1>2, MappedStaysOrdered
  <2> HIDE DEF written
  <2>2. QED
    BY <2>1 DEF Ordered
<1>6. QED
  BY <1>4, <1>5

\* Two spaces a level, and the end of a line, are text.
LEMMA LayoutIsText ==
  ASSUME emitter \in Emitters
  PROVE  Indentation \in Seq(Units) /\ LineEnd \in Seq(Units)
<1>1. 2 * emitter.indentation \in Nat
  BY DEF Emitters
<1>2. ASSUME NEW length \in Nat
      PROVE  [i \in 1..length |-> " "] \in Seq(Units)
  <2>1. " " \in Units
    BY EmitterAssumption
  <2>2. [i \in 1..length |-> " "] \in [1..length -> Units]
    BY <2>1
  <2>3. QED
    BY <2>2, SeqDef
<1>3. Indentation \in Seq(Units)
  BY <1>1, <1>2 DEF Indentation
<1>4. LineEnd \in Seq(Units)
  <2>1. "\n" \in Units
    BY EmitterAssumption
  <2>2. \A unit \in Units : <<unit>> \in Seq(Units)
    OBVIOUS
  <2>3. QED
    BY <2>1, <2>2 DEF LineEnd
<1>5. QED
  BY <1>3, <1>4

\* Every call keeps the source map ordered and within the output.
THEOREM MapStaysOrdered == Spec => []TypeOK
<1>1. Init => TypeOK
  <2> SUFFICES ASSUME Init
               PROVE  TypeOK
    OBVIOUS
  <2>1. emitter = [output |-> <<>>, sourceMap |-> <<>>, indentation |-> 0]
    BY DEF Init, EmptyEmitter
  <2>2. /\ emitter.sourceMap = <<>> /\ emitter \in Emitters
    BY <2>1, EmptySeq DEF Init, Emitters, EmptyEmitter
  <2>3. QED
    BY <2>2, EmptySeq DEF TypeOK, Ordered
<1>2. TypeOK /\ [Next]_emitter => TypeOK'
  <2> SUFFICES ASSUME TypeOK, [Next]_emitter
               PROVE  TypeOK'
    OBVIOUS
  <2>1. emitter \in Emitters /\ Ordered(emitter)
    BY DEF TypeOK
  <2>2. ASSUME WriteAny
        PROVE  TypeOK'
    <3>1. PICK indented \in BOOLEAN, line \in BOOLEAN, text \in Texts, original \in Originals :
            WriteText(indented, text, original, line)
      BY <2>2 DEF WriteAny
    <3>2. text \in Seq(Units) /\ original \in Ranges
      BY EmitterAssumption DEF Ranges
    <3> DEFINE prefixed == IF indented THEN Write(emitter, Indentation, NoRange) ELSE emitter
               written == Write(prefixed, text, original)
               result == IF line THEN Write(written, LineEnd, NoRange) ELSE written
    <3>3. prefixed \in Emitters /\ Ordered(prefixed)
      <4>1. CASE indented
        BY <2>1, <4>1, LayoutIsText, NoRangeIsARange, WriteKeepsOrder
      <4>2. CASE ~indented
        BY <2>1, <4>2
      <4>3. QED
        BY <4>1, <4>2
    <3>4. written \in Emitters /\ Ordered(written)
      <4> HIDE DEF prefixed
      <4>1. QED
        BY <3>2, <3>3, WriteKeepsOrder
    <3>5. result \in Emitters /\ Ordered(result)
      <4> HIDE DEF written
      <4>1. CASE line
        BY <2>1, <3>4, <4>1, LayoutIsText, NoRangeIsARange, WriteKeepsOrder
      <4>2. CASE ~line
        BY <3>4, <4>2
      <4>3. QED
        BY <4>1, <4>2
    <3>6. emitter' = result
      BY <3>1 DEF WriteText
    <3> HIDE DEF result
    <3>7. QED
      BY <3>5, <3>6 DEF TypeOK, Ordered
  <2>3. ASSUME Indent \/ Dedent
        PROVE  TypeOK'
    <3>1. /\ emitter'.output = emitter.output
          /\ emitter'.sourceMap = emitter.sourceMap
          /\ emitter' \in Emitters
      BY <2>1, <2>3 DEF Indent, Dedent, Emitters
    <3>2. QED
      BY <2>1, <3>1 DEF TypeOK, Ordered
  <2>4. ASSUME Reset
        PROVE  TypeOK'
    <3>1. emitter' = [output |-> <<>>, sourceMap |-> <<>>, indentation |-> 0]
      BY <2>4 DEF Reset, EmptyEmitter
    <3>2. QED
      BY <3>1, EmptySeq DEF TypeOK, Emitters, Ordered
  <2>5. CASE UNCHANGED emitter
    BY <2>1, <2>5 DEF TypeOK, Ordered
  <2>6. QED
    BY <2>2, <2>3, <2>4, <2>5 DEF Next
<1>3. QED
  BY <1>1, <1>2, PTL DEF Spec

\* Over an ordered map the last entry that starts by an offset is the only
\* one that can cover it, so the binary search and the scan find the same.
LEMMA OrderedLookupsAgree ==
  ASSUME NEW state \in Emitters, Ordered(state), NEW offset \in Nat
  PROVE  OriginalRangeFor(state.sourceMap, offset)
           = FirstOriginalRangeFor(state.sourceMap, offset)
<1> DEFINE map == state.sourceMap
           started == {0} \cup {i \in 1..Len(map) : map[i].begin <= offset}
           last == Max(started)
           covering == {i \in 1..Len(map) :
                          /\ Covers(map[i], offset)
                          /\ \A j \in 1..i-1 : map[j].begin <= offset}
<1>1. /\ map \in Seq(Entries) /\ Len(map) \in Nat
      /\ \A i \in 1..Len(map) : map[i].begin \in Nat /\ map[i].end \in Nat
  <2>1. map \in Seq(Entries) /\ Len(map) \in Nat
    BY DEF Emitters
  <2> HIDE DEF map
  <2>2. QED
    BY <2>1, EntryFacts
<1>2. /\ \A i \in 1..Len(map) : map[i].begin < map[i].end
      /\ \A i, j \in 1..Len(map) : j < i => map[j].end <= map[i].begin
  BY <1>1 DEF Ordered
<1>3. last \in started /\ \A i \in started : i <= last
  <2>1. started \in SUBSET (0..Len(map)) /\ started # {}
    BY <1>1
  <2> HIDE DEF started
  <2>2. QED
    BY <1>1, <2>1, MaxOfNaturals
<1>4. OriginalRangeFor(map, offset)
        = IF last # 0 /\ Covers(map[last], offset) THEN map[last].original ELSE NoRange
  BY DEF OriginalRangeFor, StartedBy
<1>5. FirstOriginalRangeFor(map, offset)
        = IF covering = {} THEN NoRange ELSE map[Min(covering)].original
  BY DEF FirstOriginalRangeFor
<1>6. ASSUME NEW i \in covering PROVE i = last
  <2>1. i \in 1..Len(map) /\ map[i].begin <= offset /\ offset < map[i].end
    BY DEF Covers
  <2>2. i \in started /\ i <= last
    BY <2>1, <1>3
  <2>3. last \in 1..Len(map) /\ map[last].begin <= offset
    BY <1>1, <1>3, <2>1, <2>2
  <2> HIDE DEF last, covering, started, map
  <2>4. ~(i < last)
    BY <1>1, <1>2, <2>1, <2>3
  <2>5. QED
    BY <1>1, <2>1, <2>2, <2>3, <2>4
<1>7. CASE covering = {}
  <2>1. ~(last # 0 /\ Covers(map[last], offset))
    <3> SUFFICES ASSUME last # 0, Covers(map[last], offset)
                 PROVE  last \in covering
      BY <1>7
    <3>1. last \in 1..Len(map) /\ map[last].begin <= offset
      BY <1>3
    <3>2. \A j \in 1..last-1 : map[j].begin <= offset
      <4> HIDE DEF last, map, covering, started
      <4> TAKE j \in 1..last-1
      <4>1. j \in 1..Len(map) /\ j < last
        BY <1>1, <3>1
      <4>2. map[j].begin < map[j].end /\ map[j].end <= map[last].begin
        BY <1>2, <3>1, <4>1
      <4>3. QED
        BY <1>1, <3>1, <4>1, <4>2
    <3> HIDE DEF last
    <3>3. QED
      BY <3>1, <3>2
  <2> HIDE DEF map, last, covering
  <2>2. QED
    BY <1>4, <1>5, <1>7, <2>1 DEF map
<1>8. CASE covering # {}
  <2>1. Min(covering) \in covering
    <3>1. covering \in SUBSET Nat
      OBVIOUS
    <3> HIDE DEF covering
    <3>2. QED
      BY <1>8, <3>1, MinOfNaturals
  <2>2. Min(covering) = last
    <3> HIDE DEF covering, last
    <3>1. QED
      BY <1>6, <2>1
  <2>3. last # 0 /\ Covers(map[last], offset)
    <3>1. last \in covering
      <4> HIDE DEF covering, last
      <4>1. QED
        BY <2>1, <2>2
    <3> HIDE DEF last
    <3>2. QED
      BY <3>1
  <2> HIDE DEF map, last, covering
  <2>4. QED
    BY <1>4, <1>5, <1>8, <2>2, <2>3 DEF map
<1>9. QED
  BY <1>7, <1>8

\* The binary search of the source map and the scan of the result's mappings
\* give every offset the same original range, in every reachable state.
THEOREM BothLookupsAgree == Spec => []LookupsAgree
<1>1. TypeOK => LookupsAgree
  <2> SUFFICES ASSUME TypeOK, NEW offset \in 0..Len(emitter.output)
               PROVE  OriginalRangeFor(emitter.sourceMap, offset)
                        = FirstOriginalRangeFor(emitter.sourceMap, offset)
    BY DEF LookupsAgree
  <2>1. offset \in Nat
    OBVIOUS
  <2>2. QED
    BY <2>1, OrderedLookupsAgree DEF TypeOK
<1>2. QED
  BY <1>1, MapStaysOrdered, PTL

-----------------------------------------------------------------------------
(* The emitter implements AnnotatedOutput.                                 *)

\* A lookup finds the entry that covers the offset, if there is one.
LEMMA LookupFindsTheCover ==
  ASSUME NEW state \in Emitters, Ordered(state), NEW offset \in Nat
  PROVE  /\ \A i \in 1..Len(state.sourceMap) :
              Covers(state.sourceMap[i], offset)
                => OriginalRangeFor(state.sourceMap, offset) = state.sourceMap[i].original
         /\ (\A i \in 1..Len(state.sourceMap) : ~Covers(state.sourceMap[i], offset))
              => OriginalRangeFor(state.sourceMap, offset) = NoRange
<1> DEFINE map == state.sourceMap
           started == {0} \cup {i \in 1..Len(map) : map[i].begin <= offset}
           last == Max(started)
<1>1. /\ map \in Seq(Entries) /\ Len(map) \in Nat
      /\ \A i \in 1..Len(map) : map[i].begin \in Nat /\ map[i].end \in Nat
  <2>1. map \in Seq(Entries) /\ Len(map) \in Nat
    BY DEF Emitters
  <2> HIDE DEF map
  <2>2. QED
    BY <2>1, EntryFacts
<1>2. \A i, j \in 1..Len(map) : j < i => map[j].end <= map[i].begin
  BY <1>1 DEF Ordered
<1>3. last \in started /\ \A i \in started : i <= last
  <2>1. started \in SUBSET (0..Len(map)) /\ started # {}
    BY <1>1
  <2> HIDE DEF started
  <2>2. QED
    BY <1>1, <2>1, MaxOfNaturals
<1>4. OriginalRangeFor(map, offset)
        = IF last # 0 /\ Covers(map[last], offset) THEN map[last].original ELSE NoRange
  BY DEF OriginalRangeFor, StartedBy
<1>5. ASSUME NEW i \in 1..Len(map), Covers(map[i], offset)
      PROVE  i = last
  <2>1. map[i].begin <= offset /\ offset < map[i].end
    BY <1>5 DEF Covers
  <2>2. i \in started /\ i <= last
    BY <2>1, <1>3
  <2>3. last \in 1..Len(map) /\ map[last].begin <= offset
    BY <1>1, <1>3, <2>2
  <2> HIDE DEF last, started, map
  <2>4. ~(i < last)
    BY <1>1, <1>2, <2>1, <2>3
  <2>5. QED
    BY <1>1, <2>2, <2>3, <2>4
<1>6. last \in 0..Len(map)
  BY <1>1, <1>3
<1> HIDE DEF last, started
<1>7. ASSUME NEW i \in 1..Len(map), Covers(map[i], offset)
      PROVE  OriginalRangeFor(map, offset) = map[i].original
  <2>1. i = last /\ last # 0
    BY <1>1, <1>5, <1>7
  <2>2. QED
    BY <1>4, <1>7, <2>1
<1>8. ASSUME \A i \in 1..Len(map) : ~Covers(map[i], offset)
      PROVE  OriginalRangeFor(map, offset) = NoRange
  <2>1. last # 0 => last \in 1..Len(map)
    BY <1>1, <1>6
  <2>2. QED
    BY <1>4, <1>8, <2>1
<1>9. QED
  BY <1>7, <1>8

\* The range a text written with `original` is mapped to.
OriginOf(original) == IF ValidRange(original) THEN original ELSE NoRange

\* A write maps its own offsets to its range and leaves the others alone.
LEMMA WriteMapsItsOffsets ==
  ASSUME NEW state \in Emitters, Ordered(state),
         NEW text \in Seq(Units), NEW original \in Ranges,
         NEW offset \in Nat, offset < Len(state.output) + Len(text)
  PROVE  OriginalRangeFor(Mapped(state, text, original), offset)
           = IF offset < Len(state.output)
             THEN OriginalRangeFor(state.sourceMap, offset)
             ELSE OriginOf(original)
<1> DEFINE old == state.sourceMap
           begin == Len(state.output)
           limit == begin + Len(text)
           entry == MapEntry(begin, limit, original)
           written == Write(state, text, original)
           new == written.sourceMap
<1>1. /\ old \in Seq(Entries) /\ Len(old) \in Nat /\ state.output \in Seq(Units)
      /\ begin \in Nat /\ Len(text) \in Nat /\ limit \in Nat
  BY DEF Emitters
<1>2. written \in Emitters /\ Ordered(written) /\ new = Mapped(state, text, original)
  <2>1. new = Mapped(state, text, original)
    BY DEF Write, Emitters
  <2>2. QED
    BY <2>1, WriteKeepsOrder
<1>3. \A i \in 1..Len(old) : /\ old[i].begin \in Nat /\ old[i].end \in Nat
                             /\ old[i].end <= begin
  <2>1. \A i \in 1..Len(old) : old[i].begin \in Nat /\ old[i].end \in Nat
    <3> HIDE DEF old
    <3>1. QED
      BY <1>1, EntryFacts
  <2>2. QED
    BY <2>1 DEF Ordered
<1>4. /\ \A i \in 1..Len(old) : Covers(old[i], offset)
           => OriginalRangeFor(old, offset) = old[i].original
      /\ (\A i \in 1..Len(old) : ~Covers(old[i], offset))
           => OriginalRangeFor(old, offset) = NoRange
  BY LookupFindsTheCover
<1>5. /\ \A i \in 1..Len(new) : Covers(new[i], offset)
           => OriginalRangeFor(new, offset) = new[i].original
      /\ (\A i \in 1..Len(new) : ~Covers(new[i], offset))
           => OriginalRangeFor(new, offset) = NoRange
  <2> HIDE DEF written
  <2>1. QED
    BY <1>2, LookupFindsTheCover
<1>6. offset >= begin => \A i \in 1..Len(old) : ~Covers(old[i], offset)
  BY <1>1, <1>3 DEF Covers
<1>7. CASE ValidRange(original) /\ text # <<>>
  <2>1. begin < limit
    BY <1>1, <1>7, EmptySeq
  <2>2. /\ entry.begin = begin /\ entry.end = limit /\ entry.original = original
        /\ entry \in Entries
    BY <1>1 DEF MapEntry, Entries, Ranges
  <2>3. Accepts(old, entry)
    <3>1. ValidEntry(entry)
      BY <1>1, <1>7, <2>1, <2>2 DEF ValidEntry
    <3>2. old # <<>> => Len(old) \in 1..Len(old)
      BY <1>1, EmptySeq
    <3> HIDE DEF old, entry
    <3>3. old # <<>> => old[Len(old)].end <= entry.begin
      BY <1>3, <2>2, <3>2
    <3>4. QED
      BY <3>1, <3>3 DEF Accepts
  <2>4. new = Append(old, entry)
    <3> HIDE DEF new
    <3>1. QED
      BY <1>2, <1>7, <2>3 DEF Mapped, Add
  <2> HIDE DEF old, begin, limit, entry, new
  <2>5. /\ Len(new) = Len(old) + 1
        /\ \A i \in 1..Len(old) : new[i] = old[i]
        /\ new[Len(old) + 1] = entry
    BY <1>1, <2>2, <2>4
  <2>6. CASE offset < begin
    <3>1. ~Covers(entry, offset)
      BY <1>1, <2>2, <2>6 DEF Covers
    <3>2. CASE \E i \in 1..Len(old) : Covers(old[i], offset)
      <4>1. PICK i \in 1..Len(old) : Covers(old[i], offset)
        BY <3>2
      <4>2. i \in 1..Len(new) /\ new[i] = old[i]
        BY <1>1, <2>5
      <4>3. OriginalRangeFor(new, offset) = OriginalRangeFor(old, offset)
        BY <1>4, <1>5, <4>1, <4>2
      <4>4. QED
        BY <1>2, <2>6, <4>3 DEF old, begin
    <3>3. CASE \A i \in 1..Len(old) : ~Covers(old[i], offset)
      <4>1. \A i \in 1..Len(new) : i \in 1..Len(old) \/ i = Len(old) + 1
        BY <1>1, <2>5
      <4>2. \A i \in 1..Len(new) : ~Covers(new[i], offset)
        BY <2>5, <3>1, <3>3, <4>1
      <4>3. OriginalRangeFor(new, offset) = OriginalRangeFor(old, offset)
        BY <1>4, <1>5, <3>3, <4>2
      <4>4. QED
        BY <1>2, <2>6, <4>3 DEF old, begin
    <3>4. QED
      BY <3>2, <3>3
  <2>7. CASE ~(offset < begin)
    <3>1. Covers(entry, offset)
      BY <1>1, <2>2, <2>7 DEF Covers, limit, begin
    <3>2. Len(old) + 1 \in 1..Len(new)
      BY <1>1, <2>5
    <3>3. OriginalRangeFor(new, offset) = original
      BY <1>5, <2>2, <2>5, <3>1, <3>2
    <3>4. QED
      BY <1>2, <1>7, <2>7, <3>3 DEF OriginOf, begin
  <2>8. QED
    BY <2>6, <2>7
<1>8. CASE ~(ValidRange(original) /\ text # <<>>)
  <2>1. new = old
    <3> HIDE DEF new
    <3>1. QED
      BY <1>2, <1>8 DEF Mapped
  <2>2. CASE offset < begin
    BY <1>2, <2>1, <2>2
  <2>3. CASE ~(offset < begin)
    <3>1. text # <<>>
      BY <1>1, <2>3, EmptySeq
    <3>2. OriginalRangeFor(old, offset) = NoRange
      BY <1>1, <1>4, <1>6, <2>3
    <3> HIDE DEF new, old
    <3>3. QED
      BY <1>2, <1>8, <2>1, <2>3, <3>1, <3>2 DEF OriginOf
  <2>4. QED
    BY <2>2, <2>3
<1>9. QED
  BY <1>7, <1>8

AnnotatedUnits == [unit : Units, origin : Ranges]

\* A lookup returns a range, or none.
LEMMA LookupGivesARange ==
  ASSUME NEW state \in Emitters, Ordered(state), NEW offset \in Nat
  PROVE  OriginalRangeFor(state.sourceMap, offset) \in Ranges
<1>1. state.sourceMap \in Seq(Entries)
  BY DEF Emitters
<1>2. CASE \E i \in 1..Len(state.sourceMap) : Covers(state.sourceMap[i], offset)
  <2>1. PICK i \in 1..Len(state.sourceMap) : Covers(state.sourceMap[i], offset)
    BY <1>2
  <2>2. OriginalRangeFor(state.sourceMap, offset) = state.sourceMap[i].original
    BY <2>1, LookupFindsTheCover
  <2>3. state.sourceMap[i] \in Entries
    BY <1>1, EntryFacts
  <2>4. QED
    BY <2>2, <2>3 DEF Entries, Ranges
<1>3. CASE \A i \in 1..Len(state.sourceMap) : ~Covers(state.sourceMap[i], offset)
  BY <1>3, LookupFindsTheCover, NoRangeIsARange
<1>4. QED
  BY <1>2, <1>3

\* What the refinement mapping gives, unit by unit.
LEMMA AnnotatedIsASequence ==
  ASSUME NEW state \in Emitters, Ordered(state)
  PROVE  /\ Annotated(state) \in Seq(AnnotatedUnits)
         /\ Len(Annotated(state)) = Len(state.output)
         /\ \A i \in 1..Len(state.output) :
              Annotated(state)[i] = [unit |-> state.output[i],
                                     origin |-> OriginalRangeFor(state.sourceMap, i - 1)]
<1>1. state.output \in Seq(Units) /\ Len(state.output) \in Nat
  BY DEF Emitters
<1>2. ASSUME NEW i \in 1..Len(state.output)
      PROVE  [unit |-> state.output[i], origin |-> OriginalRangeFor(state.sourceMap, i - 1)]
               \in AnnotatedUnits
  <2>1. i - 1 \in Nat
    BY <1>1
  <2>2. OriginalRangeFor(state.sourceMap, i - 1) \in Ranges
    BY <2>1, LookupGivesARange
  <2>3. state.output[i] \in Units
    BY <1>1, ElementOfSeq
  <2>4. QED
    BY <2>2, <2>3 DEF AnnotatedUnits
<1>3. Annotated(state) \in [1..Len(state.output) -> AnnotatedUnits]
  BY <1>2 DEF Annotated
<1>4. Annotated(state) \in Seq(AnnotatedUnits)
  BY <1>1, <1>3, SeqDef
<1>5. Len(Annotated(state)) = Len(state.output)
  <2> DEFINE annotated == Annotated(state)
  <2>1. DOMAIN annotated = 1..Len(state.output)
    BY DEF Annotated
  <2> HIDE DEF annotated
  <2>2. Len(annotated) \in Nat /\ DOMAIN annotated = 1..Len(annotated)
    BY <1>4, LenProperties DEF annotated
  <2>3. 1..Len(annotated) = 1..Len(state.output)
    BY <2>1, <2>2
  <2>4. Len(annotated) = Len(state.output)
    BY <1>1, <2>2, <2>3
  <2>5. QED
    BY <2>4 DEF annotated
<1>6. QED
  BY <1>4, <1>5 DEF Annotated

LEMMA AnnotationIsASequence ==
  ASSUME NEW text \in Seq(Units), NEW origin \in Ranges
  PROVE  /\ Provenance!Annotate(text, origin) \in Seq(AnnotatedUnits)
         /\ Len(Provenance!Annotate(text, origin)) = Len(text)
         /\ \A i \in 1..Len(text) :
              Provenance!Annotate(text, origin)[i] = [unit |-> text[i], origin |-> origin]
<1> DEFINE annotation == Provenance!Annotate(text, origin)
<1>1. Len(text) \in Nat
  OBVIOUS
<1>2. \A i \in 1..Len(text) : text[i] \in Units
  BY ElementOfSeq
<1>3. /\ annotation \in [1..Len(text) -> AnnotatedUnits]
      /\ DOMAIN annotation = 1..Len(text)
      /\ \A i \in 1..Len(text) : annotation[i] = [unit |-> text[i], origin |-> origin]
  BY <1>2 DEF Provenance!Annotate, AnnotatedUnits
<1> HIDE DEF annotation
<1>4. annotation \in Seq(AnnotatedUnits)
  BY <1>1, <1>3, SeqDef
<1>5. Len(annotation) \in Nat /\ DOMAIN annotation = 1..Len(annotation)
  BY <1>4, LenProperties
<1>6. Len(annotation) = Len(text)
  <2>1. 1..Len(annotation) = 1..Len(text)
    BY <1>3, <1>5
  <2>2. QED
    BY <1>1, <1>5, <2>1
<1>7. QED
  BY <1>3, <1>4, <1>6 DEF annotation

\* One write is one annotation.
LEMMA WriteAnnotates ==
  ASSUME NEW state \in Emitters, Ordered(state),
         NEW text \in Seq(Units), NEW original \in Ranges
  PROVE  Annotated(Write(state, text, original))
           = Annotated(state) \o Provenance!Annotate(text, OriginOf(original))
<1> DEFINE written == Write(state, text, original)
           annotation == Provenance!Annotate(text, OriginOf(original))
           left == Annotated(written)
           right == Annotated(state) \o annotation
<1>1. /\ state.output \in Seq(Units) /\ Len(state.output) \in Nat /\ Len(text) \in Nat
      /\ written.output = state.output \o text
      /\ written.sourceMap = Mapped(state, text, original)
  BY DEF Emitters, Write
<1>2. written \in Emitters /\ Ordered(written)
  BY WriteKeepsOrder
<1>3. /\ Len(written.output) = Len(state.output) + Len(text)
      /\ \A i \in 1..Len(state.output) + Len(text) : written.output[i] =
           IF i <= Len(state.output) THEN state.output[i] ELSE text[i - Len(state.output)]
  BY <1>1, ConcatProperties
<1>4. OriginOf(original) \in Ranges
  BY NoRangeIsARange DEF OriginOf
<1> HIDE DEF written
<1>5. /\ left \in Seq(AnnotatedUnits) /\ Len(left) = Len(state.output) + Len(text)
      /\ \A i \in 1..Len(state.output) + Len(text) :
           left[i] = [unit |-> written.output[i],
                      origin |-> OriginalRangeFor(written.sourceMap, i - 1)]
  BY <1>2, <1>3, AnnotatedIsASequence
<1>6. /\ Annotated(state) \in Seq(AnnotatedUnits)
      /\ Len(Annotated(state)) = Len(state.output)
      /\ \A i \in 1..Len(state.output) :
           Annotated(state)[i] = [unit |-> state.output[i],
                                  origin |-> OriginalRangeFor(state.sourceMap, i - 1)]
  BY AnnotatedIsASequence
<1>7. /\ annotation \in Seq(AnnotatedUnits) /\ Len(annotation) = Len(text)
      /\ \A i \in 1..Len(text) :
           annotation[i] = [unit |-> text[i], origin |-> OriginOf(original)]
  BY <1>4, AnnotationIsASequence
<1> HIDE DEF annotation, left
<1>8. /\ right \in Seq(AnnotatedUnits) /\ Len(right) = Len(state.output) + Len(text)
      /\ \A i \in 1..Len(state.output) + Len(text) : right[i] =
           IF i <= Len(state.output) THEN Annotated(state)[i]
           ELSE annotation[i - Len(state.output)]
  <2> DEFINE before == Annotated(state)
  <2>1. before \in Seq(AnnotatedUnits) /\ Len(before) = Len(state.output)
    BY <1>6
  <2> HIDE DEF before
  <2>2. annotation \in Seq(AnnotatedUnits)
    BY <1>7
  <2>3. /\ before \o annotation \in Seq(AnnotatedUnits)
        /\ Len(before \o annotation) = Len(before) + Len(annotation)
        /\ \A i \in 1..Len(before) + Len(annotation) : (before \o annotation)[i] =
             IF i <= Len(before) THEN before[i] ELSE annotation[i - Len(before)]
    BY <2>1, <2>2, ConcatProperties
  <2>4. QED
    BY <1>7, <2>1, <2>3 DEF before
<1> HIDE DEF right
<1>9. ASSUME NEW i \in 1..Len(state.output) + Len(text)
      PROVE  left[i] = right[i]
  <2>1. i - 1 \in Nat /\ i - 1 < Len(state.output) + Len(text)
    BY <1>1
  <2>2. OriginalRangeFor(written.sourceMap, i - 1)
          = IF i - 1 < Len(state.output)
            THEN OriginalRangeFor(state.sourceMap, i - 1)
            ELSE OriginOf(original)
    BY <1>1, <2>1, WriteMapsItsOffsets
  <2>3. CASE i <= Len(state.output)
    <3>1. i \in 1..Len(state.output) /\ i - 1 < Len(state.output)
      BY <1>1, <2>3
    <3>2. right[i] = [unit |-> state.output[i],
                      origin |-> OriginalRangeFor(state.sourceMap, i - 1)]
      BY <1>6, <1>8, <2>3, <3>1
    <3>3. written.output[i] = state.output[i]
      BY <1>3, <2>3
    <3>4. QED
      BY <1>5, <2>2, <3>1, <3>2, <3>3
  <2>4. CASE ~(i <= Len(state.output))
    <3>1. i - Len(state.output) \in 1..Len(text) /\ ~(i - 1 < Len(state.output))
      BY <1>1, <2>4
    <3>2. right[i] = [unit |-> text[i - Len(state.output)], origin |-> OriginOf(original)]
      BY <1>7, <1>8, <2>4, <3>1
    <3>3. written.output[i] = text[i - Len(state.output)]
      BY <1>3, <2>4
    <3>4. QED
      BY <1>5, <2>2, <3>1, <3>2, <3>3
  <2>5. QED
    BY <2>3, <2>4
<1>10. left = right
  BY <1>5, <1>8, <1>9, SeqEqual
<1>11. QED
  BY <1>10 DEF left, right, written, annotation

\* Writing no text changes nothing.
LEMMA EmptyWrite ==
  ASSUME NEW state \in Emitters, NEW original \in Ranges
  PROVE  Write(state, <<>>, original) = state
<1>1. state.output \o <<>> = state.output
  BY ConcatEmptySeq DEF Emitters
<1>2. Mapped(state, <<>>, original) = state.sourceMap
  BY DEF Mapped
<1> DEFINE output == state.output \o <<>>
           sourceMap == Mapped(state, <<>>, original)
<1>3. Write(state, <<>>, original) = [state EXCEPT !.output = output, !.sourceMap = sourceMap]
  BY DEF Write
<1> HIDE DEF output, sourceMap
<1>4. output = state.output /\ sourceMap = state.sourceMap
  BY <1>1, <1>2 DEF output, sourceMap
<1>5. QED
  BY <1>3, <1>4 DEF Emitters

\* An emitter without output has no annotated output.
LEMMA EmptyIsUnannotated ==
  Annotated(EmptyEmitter) = <<>>
<1>1. EmptyEmitter.output = <<>> /\ Len(<<>>) = 0
  BY DEF EmptyEmitter
<1>2. 1..Len(EmptyEmitter.output) = {}
  BY <1>1
<1>3. QED
  BY <1>2 DEF Annotated

LEMMA IndentBoundIsNatural == IndentBound \in Nat /\ 0 \in 0..IndentBound
<1>1. IndentBound \in Nat
  BY EmitterAssumption
<1>2. QED
  BY <1>1

\* The bound the model puts on the indentation holds.
LEMMA IndentationBounded ==
  Spec => [](emitter \in Emitters /\ emitter.indentation \in 0..IndentBound)
<1> DEFINE Bounded == emitter.indentation \in 0..IndentBound
<1>1. Init => Bounded
  BY IndentBoundIsNatural DEF Init, EmptyEmitter
<1>2. TypeOK /\ Bounded /\ [Next]_emitter => Bounded'
  <2> SUFFICES ASSUME TypeOK, Bounded, [Next]_emitter
               PROVE  Bounded'
    OBVIOUS
  <2>1. emitter \in Emitters /\ IndentBound \in Nat
    BY IndentBoundIsNatural DEF TypeOK
  <2>2. ASSUME WriteAny
        PROVE  emitter'.indentation = emitter.indentation
    <3>1. \A state, text, original :
            Write(state, text, original).indentation = state.indentation
      BY DEF Write
    <3>2. QED
      BY <2>2, <3>1 DEF WriteAny, WriteText
  <2>3. CASE Indent
    BY <2>1, <2>3 DEF Indent, Emitters
  <2>4. CASE Dedent
    BY <2>1, <2>4 DEF Dedent, Emitters
  <2>5. CASE Reset
    BY <2>1, <2>5 DEF Reset, EmptyEmitter
  <2>6. QED
    BY <2>2, <2>3, <2>4, <2>5 DEF Next
<1>3. TypeOK => emitter \in Emitters
  BY DEF TypeOK
<1>4. QED
  BY <1>1, <1>2, <1>3, MapStaysOrdered, PTL DEF Spec

\* The emitter implements AnnotatedOutput: whatever is written, in whatever
\* order, every unit of the output is looked up with the range it was written
\* for, the map never loses or moves one.
THEOREM KeepsItsProvenance == Spec => KeepsProvenance
<1> DEFINE mapped == Annotated(emitter)
           Bounded == emitter \in Emitters /\ emitter.indentation \in 0..IndentBound
<1>1. Init => Provenance!Init
  BY EmptyIsUnannotated DEF Init, Provenance!Init
<1>2. TypeOK /\ Bounded /\ [Next]_emitter => [Provenance!Next]_mapped
  <2> SUFFICES ASSUME TypeOK, Bounded, [Next]_emitter
               PROVE  Provenance!Next \/ UNCHANGED mapped
    OBVIOUS
  <2>1. emitter \in Emitters /\ Ordered(emitter)
    BY DEF TypeOK
  <2>2. ASSUME WriteAny
        PROVE  Provenance!Extend
    <3>1. PICK indented \in BOOLEAN, line \in BOOLEAN, text \in Texts, original \in Originals :
            WriteText(indented, text, original, line)
      BY <2>2 DEF WriteAny
    <3>2. text \in Seq(Units) /\ original \in Ranges
      BY EmitterAssumption DEF Ranges
    <3> DEFINE before == IF indented THEN Indentation ELSE <<>>
               after == IF line THEN LineEnd ELSE <<>>
               prefixed == Write(emitter, before, NoRange)
               written == Write(prefixed, text, original)
               result == Write(written, after, NoRange)
    <3>3. before \in Seq(Units) /\ after \in Seq(Units)
      BY <2>1, LayoutIsText, EmptySeq
    <3>4. prefixed \in Emitters /\ Ordered(prefixed)
      <4> HIDE DEF before
      <4>1. QED
        BY <2>1, <3>3, NoRangeIsARange, WriteKeepsOrder
    <3>5. written \in Emitters /\ Ordered(written)
      <4> HIDE DEF prefixed
      <4>1. QED
        BY <3>2, <3>4, WriteKeepsOrder
    <3>6. emitter' = result
      <4>1. prefixed = IF indented THEN Write(emitter, Indentation, NoRange) ELSE emitter
        BY <2>1, NoRangeIsARange, EmptyWrite
      <4>2. result = IF line THEN Write(written, LineEnd, NoRange) ELSE written
        <5> HIDE DEF written
        <5>1. QED
          BY <3>5, NoRangeIsARange, EmptyWrite
      <4> HIDE DEF prefixed, result
      <4>3. QED
        BY <3>1, <4>1, <4>2 DEF WriteText, written
    <3>7. Annotated(prefixed) = Annotated(emitter) \o Provenance!Annotate(before, NoRange)
      <4>1. OriginOf(NoRange) = NoRange
        BY DEF OriginOf
      <4> HIDE DEF before
      <4>2. QED
        BY <2>1, <3>3, <4>1, NoRangeIsARange, WriteAnnotates
    <3>8. Annotated(written) = Annotated(prefixed) \o Provenance!Annotate(text, OriginOf(original))
      <4> HIDE DEF prefixed
      <4>1. QED
        BY <3>2, <3>4, WriteAnnotates
    <3>9. Annotated(result) = Annotated(written) \o Provenance!Annotate(after, NoRange)
      <4>1. OriginOf(NoRange) = NoRange
        BY DEF OriginOf
      <4> HIDE DEF after, written
      <4>2. QED
        BY <3>3, <3>5, <4>1, NoRangeIsARange, WriteAnnotates
    <3>10. before \in {[i \in 1..2 * level |-> " "] : level \in 0..IndentBound}
      <4>1. CASE indented
        BY <4>1 DEF Indentation
      <4>2. CASE ~indented
        <5>1. 0 \in 0..IndentBound
          BY IndentBoundIsNatural
        <5>2. [i \in 1..2 * 0 |-> " "] = <<>>
          OBVIOUS
        <5>3. QED
          BY <4>2, <5>1, <5>2
      <4>3. QED
        BY <4>1, <4>2
    <3>11. after \in {<<>>, LineEnd}
      OBVIOUS
    <3>12. OriginOf(original) \in {range \in Originals : ValidRange(range)} \cup {NoRange}
      BY <3>1 DEF OriginOf
    <3>13. mapped' = Annotated(result)
      BY <3>6
    <3> HIDE DEF mapped, before, after, prefixed, written, result
    <3>14. mapped' = mapped \o Provenance!Annotate(before, NoRange)
                            \o Provenance!Annotate(text, OriginOf(original))
                            \o Provenance!Annotate(after, NoRange)
      BY <3>7, <3>8, <3>9, <3>13 DEF mapped
    <3>15. QED
      BY <3>10, <3>11, <3>12, <3>14 DEF Provenance!Extend, mapped
  <2>3. ASSUME Indent \/ Dedent \/ UNCHANGED emitter
        PROVE  UNCHANGED mapped
    <3>1. emitter'.output = emitter.output /\ emitter'.sourceMap = emitter.sourceMap
      BY <2>1, <2>3 DEF Indent, Dedent, Emitters
    <3>2. QED
      BY <3>1 DEF Annotated
  <2>4. ASSUME Reset
        PROVE  Provenance!Restart
    BY <2>4, EmptyIsUnannotated DEF Reset, Provenance!Restart
  <2>5. QED
    BY <2>2, <2>3, <2>4 DEF Next, Provenance!Next
<1>3. QED
  BY <1>1, <1>2, MapStaysOrdered, IndentationBounded, PTL
     DEF Spec, KeepsProvenance, Provenance!Spec

=============================================================================
