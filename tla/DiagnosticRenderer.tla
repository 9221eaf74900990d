-------------------------- MODULE DiagnosticRenderer --------------------------
(***************************************************************************)
(* DiagnosticRenderer::render over the diagnostics of one call             *)
(* (src/diagnostics/DiagnosticRenderer.cpp), each of which builds a        *)
(* SourceFile of its own (src/source/SourceFile.cpp), one byte per step.   *)
(*                                                                         *)
(* A diagnostic is its range; severity, code, message, hint and path are   *)
(* text that is copied.  What is printed is told in byte offsets: a row is *)
(* the number it is labelled with and the bytes [from, to) it shows.       *)
(***************************************************************************)
EXTENDS SyntaxTree, FiniteSetsExt

VARIABLES
  source,       \* the bytes of the source, one string each
  diagnostics,  \* the ranges of FrontendResult::diagnostics
  lineStarts,   \* SourceFile::line_starts_ of the diagnostic being rendered
  scanned,      \* the offset of build_line_index's loop
  printed       \* what was rendered so far

rendererVars == <<source, diagnostics, lineStarts, scanned, printed>>

At(offset) == source[offset+1]

-----------------------------------------------------------------------------
(* SourceFile.  Lines are counted from one here.                           *)

\* Mutated form: lower_bound for upper_bound.
LineForBefore(offset) ==
  Max({1} \cup {line \in 1..Len(lineStarts) : lineStarts[line] < offset})

\* line_index_for_offset.
LineFor(offset) ==
  Max({1} \cup {line \in 1..Len(lineStarts) : lineStarts[line] <= offset})

\* The end of a line without the last byte of it, if it is this one.
Without(byte, start, end) == IF end > start /\ At(end-1) = byte THEN end - 1 ELSE end

\* Mutated form: the carriage return of CR LF stays in the line.
LineEndKeepingReturn(line) ==
  LET end == IF line < Len(lineStarts) THEN lineStarts[line+1] ELSE Len(source)
  IN  Without("\n", lineStarts[line], end)

\* line: without LF and without a CR before it, or at the end of the source.
LineEnd(line) ==
  LET start == lineStarts[line]
      end == IF line < Len(lineStarts) THEN lineStarts[line+1] ELSE Len(source)
  IN  Without("\r", start, Without("\n", start, end))

Row(line) == [number |-> line, from |-> lineStarts[line], to |-> LineEnd(line)]

-----------------------------------------------------------------------------
(* DiagnosticRenderer.                                                     *)

Pending == diagnostics[Len(printed)+1]

\* The source is looked at for this diagnostic.
Located(range) == ValidRange(range) /\ range.begin <= Len(source)

\* Mutated form: the underline runs on over the lines behind.
UnderlineWidthUnclipped(range, lineEnd) ==
  IF range.end <= range.begin THEN 1 ELSE range.end - range.begin

UnderlineWidth(range, lineEnd) == Max({1, Min({range.end, lineEnd}) - range.begin})

HeaderOnly == [located |-> FALSE]

Excerpt(range) ==
  LET line == LineFor(range.begin)
      start == lineStarts[line]
      column == range.begin - start
      underlined == Min({column, LineEnd(line) - start})
      shown == {n \in line-1..line+1 : n \in 1..Len(lineStarts)}
  IN  [located |-> TRUE, line |-> line, column |-> column + 1,
       rows |-> [i \in 1..Cardinality(shown) |-> Row(Min(shown) + i - 1)],
       prefix |-> [i \in 1..underlined |-> IF At(start+i-1) = "\t" THEN "\t" ELSE " "],
       width |-> UnderlineWidth(range, LineEnd(line))]

NoSourceFile == lineStarts' = <<0>> /\ scanned' = 0

RendererInit ==
  /\ source = <<>> /\ diagnostics = <<>> /\ printed = <<>>
  /\ lineStarts = <<0>> /\ scanned = 0

\* Mutated form: the newline itself begins the next line.
IndexByteAtNewline ==
  /\ Len(printed) < Len(diagnostics) /\ Located(Pending)
  /\ scanned < Len(source)
  /\ lineStarts' = IF At(scanned) = "\n" THEN Append(lineStarts, scanned) ELSE lineStarts
  /\ scanned' = scanned + 1
  /\ UNCHANGED <<source, diagnostics, printed>>

\* One iteration of build_line_index.
IndexByte ==
  /\ Len(printed) < Len(diagnostics) /\ Located(Pending)
  /\ scanned < Len(source)
  /\ lineStarts' = IF At(scanned) = "\n" THEN Append(lineStarts, scanned + 1) ELSE lineStarts
  /\ scanned' = scanned + 1
  /\ UNCHANGED <<source, diagnostics, printed>>

\* Mutated form: the next diagnostic goes on with this line index.
RenderExcerptKeepingIndex ==
  /\ Len(printed) < Len(diagnostics) /\ Located(Pending)
  /\ scanned = Len(source)
  /\ printed' = Append(printed, Excerpt(Pending))
  /\ scanned' = 0
  /\ UNCHANGED <<source, diagnostics, lineStarts>>

RenderExcerpt ==
  /\ Len(printed) < Len(diagnostics) /\ Located(Pending)
  /\ scanned = Len(source)
  /\ printed' = Append(printed, Excerpt(Pending))
  /\ NoSourceFile
  /\ UNCHANGED <<source, diagnostics>>

RenderHeader ==
  /\ Len(printed) < Len(diagnostics) /\ ~Located(Pending)
  /\ printed' = Append(printed, HeaderOnly)
  /\ UNCHANGED <<source, diagnostics, lineStarts, scanned>>

RenderStep == IndexByte \/ RenderExcerpt \/ RenderHeader

-----------------------------------------------------------------------------
(* Properties.                                                             *)

RendererTypeOK ==
  /\ source \in Seq(STRING)
  /\ scanned \in 0..Len(source)
  /\ lineStarts \in Seq(0..scanned)
  /\ diagnostics \in Seq([begin : Int, end : Int])
  /\ Len(printed) <= Len(diagnostics)

(***************************************************************************)
(* SourceFile.hpp:179, "Offset zero is always registered as the beginning  *)
(* of the first logical line.  Every LF byte registers the following byte  *)
(* as the start of the next logical line": ascending, each start once,     *)
(* nothing kept of the source file of an earlier diagnostic.               *)
(***************************************************************************)
LineIndexExact ==
  /\ lineStarts # <<>> /\ lineStarts[1] = 0
  /\ \A i, j \in 1..Len(lineStarts) : i < j => lineStarts[i] < lineStarts[j]
  /\ ToSet(lineStarts) = {0} \cup {o \in 1..scanned : At(o-1) = "\n"}

\* The excerpts printed, with the range each is printed for.
Excerpts ==
  {[range |-> diagnostics[i], excerpt |-> printed[i]] :
     i \in {k \in 1..Len(printed) : printed[k].located}}

Newlines(from, to) == {o \in from..to-1 : At(o) = "\n"}

(***************************************************************************)
(* DiagnosticRenderer.hpp:49: the "one-based line and column" printed are  *)
(* those of the first byte of the range, also when that byte is part of a  *)
(* line terminator or the end of the source; and every diagnostic whose    *)
(* range the source has is printed with them.                              *)
(***************************************************************************)
PositionsAreOfTheRange ==
  /\ \A i \in 1..Len(printed) : printed[i].located <=> diagnostics[i] # NoRange
  /\ \A e \in Excerpts :
       LET before == Newlines(0, e.range.begin)
       IN  /\ e.excerpt.line = Cardinality(before) + 1
           /\ e.excerpt.column = e.range.begin - Max({-1} \cup before)

\* The byte at this offset is not shown: a terminator, or a CR at the end.
Hidden(offset) ==
  \/ offset = Len(source)
  \/ At(offset) = "\n"
  \/ At(offset) = "\r" /\ (offset + 1 = Len(source) \/ At(offset+1) = "\n")

(***************************************************************************)
(* "The immediately preceding and following source lines are shown when    *)
(* they exist" (DiagnosticRenderer.hpp:51): the rows are whole lines       *)
(* without their LF or CR LF, under their own numbers, and there are as    *)
(* many as the source has.                                                 *)
(***************************************************************************)
RowsAreLines ==
  \A e \in Excerpts :
    LET rows == e.excerpt.rows
        last == Cardinality(Newlines(0, Len(source))) + 1
    IN  /\ {row.number : row \in ToSet(rows)}
             = (e.excerpt.line-1..e.excerpt.line+1) \cap (1..last)
        /\ \A i \in 1..Len(rows)-1 : rows[i].number < rows[i+1].number
        /\ \A row \in ToSet(rows) :
             /\ row.number = Cardinality(Newlines(0, row.from)) + 1
             /\ row.from = 0 \/ At(row.from-1) = "\n"
             /\ Newlines(row.from, row.to) = {}
             /\ Hidden(row.to) /\ (row.to = row.from \/ ~Hidden(row.to-1))

(***************************************************************************)
(* "An underline derived from the range": the carets stand below the bytes *)
(* of the range that the line shows and below no other; below the first    *)
(* byte, or behind the line, if it shows none of them.  The prefix has a   *)
(* tab wherever the line has one, and only there.                          *)
(***************************************************************************)
CaretsMarkTheRange ==
  \A e \in Excerpts :
    LET row == CHOOSE row \in ToSet(e.excerpt.rows) : row.number = e.excerpt.line
        first == row.from + Len(e.excerpt.prefix)
        marked == first..first+e.excerpt.width-1
        shown == (e.range.begin..e.range.end-1) \cap (row.from..row.to-1)
    IN  /\ marked = IF shown # {} THEN shown ELSE {Min({e.range.begin, row.to})}
        /\ \A i \in 1..Len(e.excerpt.prefix) :
             e.excerpt.prefix[i] = IF At(row.from+i-1) = "\t" THEN "\t" ELSE " "

=============================================================================
