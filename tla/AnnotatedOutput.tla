---------------------------- MODULE AnnotatedOutput ----------------------------
(***************************************************************************)
(* What the emitter promises: a text every unit of which remembers the     *)
(* range of the source it was written for, and keeps it for as long as the *)
(* text grows.  Layout around a text belongs to no source.                 *)
(***************************************************************************)
EXTENDS Naturals, Sequences

CONSTANTS
  Texts,        \* the texts that may be added
  Origins,      \* the ranges they may be added for, NoOrigin included
  NoOrigin,
  Indentations, \* the layout that may precede a text
  LineEnds      \* the layout that may follow it

VARIABLE annotated

Annotate(text, origin) ==
  [i \in 1..Len(text) |-> [unit |-> text[i], origin |-> origin]]

Init == annotated = <<>>

Extend ==
  \E before \in Indentations, text \in Texts, origin \in Origins, after \in LineEnds :
    annotated' = annotated \o Annotate(before, NoOrigin)
                           \o Annotate(text, origin)
                           \o Annotate(after, NoOrigin)

Restart == annotated' = <<>>

Next == Extend \/ Restart

Spec == Init /\ [][Next]_annotated

=============================================================================
