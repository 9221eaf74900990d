----------------------------- MODULE MCCxxEmitter -----------------------------
(***************************************************************************)
(* Short texts, the empty one included, written with valid, empty, invalid *)
(* and missing original ranges.                                            *)
(***************************************************************************)
EXTENDS CxxEmitter

MCUnits == {" ", "\n", "a", "b", ";"}

MCTexts == {<<>>, <<"a">>, <<"b", ";">>}

MCOriginals == {NoRange, [begin |-> 0, end |-> 2], [begin |-> 1, end |-> 1],
                [begin |-> 2, end |-> 1], [begin |-> 3, end |-> 4]}

=============================================================================
