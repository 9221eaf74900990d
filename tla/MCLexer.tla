------------------------------- MODULE MCLexer -------------------------------
(***************************************************************************)
(* Every short source over the bytes that matter to one part of the lexer, *)
(* and every pair of words, numbers, punctuation and trivia that touch.    *)
(***************************************************************************)
EXTENDS Lexer

CONSTANTS
  CommentBound, LiteralBound, NumberBound,  \* lengths of the sources
  NumberBytes                               \* the bytes numbers are made of

CommentBytes == {"/", "*", "\n", "a"}
LiteralBytes == {"\"", "'", "\\", "\n", "\r", "a"}

Words ==
  {<<"f", "a", "i", "l">>, <<"f", "a", "i", "l", "s">>, <<"t", "r", "y">>,
   <<"r", "e", "t", "u", "r", "n">>, <<"f", "a", "i", "l", "e", "d">>, <<"T", "r", "y">>,
   <<"_", "9">>, <<"_">>}

Numbers == {<<"0">>, <<"1", "e", "-", "5">>, <<".", "5">>, <<"0", "x", "f">>}

Others == {<<"\"", "\"">>, <<"'">>, <<"@">>, <<"NUL">>, <<"/", "/">>, <<"/", "*", "*", "/">>}

Parts == Words \cup Numbers \cup Others \cup Pairs
         \cup {<<byte>> : byte \in Singles \cup Spaces}

MCSources ==
  UNION {SeqOf(CommentBytes, CommentBound), SeqOf(LiteralBytes, LiteralBound),
         SeqOf(NumberBytes, NumberBound),
         {first \o second : first, second \in Parts}}

=============================================================================
