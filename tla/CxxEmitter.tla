------------------------------ MODULE CxxEmitter ------------------------------
(***************************************************************************)
(* The emitter of generated C++ (src/backends/cxx/CxxEmitter.cpp): an      *)
(* output string and its source map under every order of the operations a  *)
(* backend may call.  One step is one call.                                *)
(***************************************************************************)
EXTENDS GeneratedOutput

CONSTANTS
  Units,        \* the bytes that are told apart, layout included
  Texts,        \* the texts a backend writes: sequences of units
  Originals,    \* the original ranges it gives them, NoRange for none
  OutputBound,  \* bound on the length of the output
  IndentBound   \* bound on the indentation level

ASSUME EmitterAssumption ==
  /\ {" ", "\n"} \subseteq Units
  /\ \A text \in Texts : text \in Seq(Units)
  /\ \A range \in Originals : range \in [begin : Int, end : Int]
  /\ OutputBound \in Nat /\ IndentBound \in Nat

VARIABLE emitter

Init == emitter = EmptyEmitter

\* write_indent: two spaces a level.
Indentation == [i \in 1..2 * emitter.indentation |-> " "]

\* newline.
LineEnd == <<"\n">>

\* write, write_line, write_indented and write_indented_line, with an original
\* range or without.
WriteText(indented, text, original, line) ==
  LET prefixed == IF indented THEN Write(emitter, Indentation, NoRange) ELSE emitter
      written == Write(prefixed, text, original)
  IN  emitter' = IF line THEN Write(written, LineEnd, NoRange) ELSE written

WriteAny ==
  /\ Len(emitter.output) < OutputBound
  /\ \E indented, line \in BOOLEAN, text \in Texts, original \in Originals :
       WriteText(indented, text, original, line)

Indent ==
  /\ emitter.indentation < IndentBound
  /\ emitter' = [emitter EXCEPT !.indentation = @ + 1]

\* dedent at level zero does nothing.
Dedent ==
  /\ emitter.indentation > 0
  /\ emitter' = [emitter EXCEPT !.indentation = @ - 1]

\* Mutated form: the source map of the last output stays.
ResetKeepingMap == emitter' = [EmptyEmitter EXCEPT !.sourceMap = emitter.sourceMap]

Reset == emitter' = EmptyEmitter

Next == WriteAny \/ Indent \/ Dedent \/ Reset

Spec == Init /\ [][Next]_emitter

-----------------------------------------------------------------------------
(* Properties.                                                             *)

Entries == [begin : Nat, end : Nat, original : [begin : Int, end : Int]]

Emitters == [output : Seq(Units), sourceMap : Seq(Entries), indentation : Nat]

\* The entries are valid and not empty, follow one another without
\* overlapping and lie within the output.
Ordered(state) ==
  \A i \in 1..Len(state.sourceMap) :
    LET entry == state.sourceMap[i]
    IN  /\ ValidEntry(entry)
        /\ entry.begin < entry.end /\ entry.end <= Len(state.output)
        /\ \A j \in 1..i-1 : state.sourceMap[j].end <= entry.begin

(***************************************************************************)
(* The source map stays ordered and within the output: what every lookup   *)
(* relies on and add() enforces by dropping entries, through any sequence  *)
(* of writes and resets.                                                   *)
(***************************************************************************)
TypeOK == emitter \in Emitters /\ Ordered(emitter)

(***************************************************************************)
(* The two lookups of the program agree on every generated offset: the     *)
(* binary search of the source map and the scan of FrontendResult over     *)
(* the copied mappings.                                                    *)
(***************************************************************************)
LookupsAgree ==
  \A offset \in 0..Len(emitter.output) :
    OriginalRangeFor(emitter.sourceMap, offset)
      = FirstOriginalRangeFor(emitter.sourceMap, offset)

\* The output, each unit with the original range its offset is mapped to.
Annotated(state) ==
  [i \in 1..Len(state.output) |->
     [unit |-> state.output[i], origin |-> OriginalRangeFor(state.sourceMap, i - 1)]]

(***************************************************************************)
(* The emitter keeps what AnnotatedOutput promises: looking up the offset  *)
(* of a unit gives the range that unit was written with, for every unit    *)
(* and after any sequence of calls.                                        *)
(***************************************************************************)
Provenance == INSTANCE AnnotatedOutput WITH
  annotated <- Annotated(emitter),
  Origins <- {range \in Originals : ValidRange(range)} \cup {NoRange},
  NoOrigin <- NoRange,
  Indentations <- {[i \in 1..2 * level |-> " "] : level \in 0..IndentBound},
  LineEnds <- {<<>>, LineEnd}

KeepsProvenance == Provenance!Spec

=============================================================================
