--------------------------- MODULE GeneratedOutput ---------------------------
(***************************************************************************)
(* The text the C++ backend produces and the source map beside it          *)
(* (src/backends/cxx/CxxSourceMap.cpp and the write functions of           *)
(* CxxEmitter.cpp), as values.                                             *)
(*                                                                         *)
(* A text is a sequence of units, one per generated byte that the          *)
(* properties tell apart; offsets are zero-based.                          *)
(***************************************************************************)
EXTENDS SyntaxTree, FiniteSetsExt

\* CxxSourceMapEntry.
MapEntry(begin, end, original) == [begin |-> begin, end |-> end, original |-> original]

\* CxxSourceMapEntry::valid.
ValidEntry(entry) == ValidRange(entry.original) /\ entry.begin <= entry.end

\* CxxSourceMapEntry::contains.
Covers(entry, offset) == entry.begin <= offset /\ offset < entry.end

\* CxxSourceMap::add: an entry that is not valid or starts before the end of
\* the last one is refused.
Accepts(sourceMap, entry) ==
  /\ ValidEntry(entry)
  /\ sourceMap = <<>> \/ sourceMap[Len(sourceMap)].end <= entry.begin

Add(sourceMap, entry) ==
  IF Accepts(sourceMap, entry) THEN Append(sourceMap, entry) ELSE sourceMap

\* Mutated form: std::lower_bound.
StartedBefore(sourceMap, offset) ==
  Max({0} \cup {i \in 1..Len(sourceMap) : sourceMap[i].begin < offset})

\* std::upper_bound over the entries, which are sorted: how many start at or
\* before the offset.
StartedBy(sourceMap, offset) ==
  Max({0} \cup {i \in 1..Len(sourceMap) : sourceMap[i].begin <= offset})

\* CxxSourceMap::find and original_range_for: NoRange when there is none.
OriginalRangeFor(sourceMap, offset) ==
  LET candidate == StartedBy(sourceMap, offset)
  IN  IF candidate # 0 /\ Covers(sourceMap[candidate], offset)
      THEN sourceMap[candidate].original
      ELSE NoRange

\* FrontendResult::original_range_for: the first entry in generated order.
FirstOriginalRangeFor(sourceMap, offset) ==
  LET covering == {i \in 1..Len(sourceMap) :
                     /\ Covers(sourceMap[i], offset)
                     /\ \A j \in 1..i-1 : sourceMap[j].begin <= offset}
  IN  IF covering = {} THEN NoRange ELSE sourceMap[Min(covering)].original

-----------------------------------------------------------------------------
(* What an emitter holds: output_, source_map_ and indentation_level_.     *)

EmptyEmitter == [output |-> <<>>, sourceMap |-> <<>>, indentation |-> 0]

\* Mutated form: the text is mapped from its first byte but one too far.
MappedTooFar(emitter, text, original) ==
  LET begin == Len(emitter.output)
  IN  IF ~ValidRange(original) \/ text = <<>>
      THEN emitter.sourceMap
      ELSE Add(emitter.sourceMap, MapEntry(begin, begin + Len(text) + 1, original))

\* CxxEmitter::map: the refusal of an entry is ignored.
Mapped(emitter, text, original) ==
  LET begin == Len(emitter.output)
  IN  IF ~ValidRange(original) \/ text = <<>>
      THEN emitter.sourceMap
      ELSE Add(emitter.sourceMap, MapEntry(begin, begin + Len(text), original))

\* write(text, original_range); write(text) is the case of no range.
Write(emitter, text, original) ==
  [emitter EXCEPT !.output = @ \o text, !.sourceMap = Mapped(emitter, text, original)]

=============================================================================
