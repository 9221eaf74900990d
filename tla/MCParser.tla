------------------------------ MODULE MCParser ------------------------------
(***************************************************************************)
(* Small sources for the parser, with and without trivia between words:    *)
(* every short sequence of words or of phrases, at top level and inside a  *)
(* function body, and every declaration of a small header grammar.         *)
(***************************************************************************)
EXTENDS Parser

CONSTANTS
  Words, TopLevelBound, BodyBound,  \* raw word sequences and their lengths
  PhraseBound,                      \* how many phrases a source joins
  Gaps                              \* bytes of trivia between two words

Phrases(set, bound) == {FlattenSeq(phrases) : phrases \in SeqOf(set, bound)}

InFunction(bodies) ==
  {<<"int", "f", "(", ")", "fails", "E", "{">> \o body \o <<"}">> : body \in bodies}

TopLevelPhrases ==
  {<<"int", "f", "(", ")">>, <<"fails", "E">>, <<"fail", "x", ";">>, <<"(">>, <<")">>,
   <<"{">>, <<"}">>, <<"int", "g", ";">>, <<"try", "f", "(", ")">>}

BodyPhrases ==
  {<<"return", "x", ";">>, <<"fail", "x", ";">>, <<"fail", "try", "f", "(", ")", ";">>,
   <<"auto", "x", "=", "try", "f", "(", ")", ";">>, <<"const">>, <<"try", "{", "}">>,
   <<"return", "x", "}">>, <<"{">>, <<"}">>, <<"int", "g", "(", ")", "fails", "F">>}

\* Declarations before, success types, declarators and ends of a declaration.
Before == {<<>>, <<"int", "g", ";">>, <<"n", "{", "int", "g", ";", "}">>,
           <<"int", "h", "(", ")", "fails", "E", ";">>, <<"n", "{">>, <<"}", "g">>}
SuccessType == {<<>>, <<"int">>, <<"int", "N", "::">>, <<"template", "int">>}
Declarator == {<<"f", "(", ")">>, <<"f", "(", "g", "(", ")", ")">>, <<"(", ")">>,
               <<"f", ")">>, <<"f", "(", ")", "const">>}
Contract == {<<"fails", "E">>, <<"fails">>, <<"fails", "E", "(", "{", ")">>}
Ending == {<<";">>, <<"{", "}">>, <<"{", "return", "x", ";", "}">>, <<"{", "{", "}">>, <<>>}

HeaderSources ==
  {b \o s \o d \o c \o e : b \in Before, s \in SuccessType, d \in Declarator,
                           c \in Contract, e \in Ending}

Sources ==
  UNION {SeqOf(Words, TopLevelBound), InFunction(SeqOf(Words, BodyBound)),
         Phrases(TopLevelPhrases, PhraseBound),
         InFunction(Phrases(BodyPhrases, PhraseBound)), HeaderSources}

MCStreams == {Lexed(source, gap) : source \in Sources, gap \in Gaps}

-----------------------------------------------------------------------------
(* Well-formed programs that show a disagreement of the code with its      *)
(* documents: functions with one or two statements, one per line.          *)

Statements ==
  {<<"return", "x", ";">>, <<"fail", "x", ";">>,
   <<"auto", "x", "=", "try", "f", "(", ")", ";">>, <<"return", "try", "f", "(", ")", ";">>}

WellFormedFunctions ==
  InFunction({FlattenSeq(statements) : statements \in SeqOf(Statements, 2)})

FunctionStreams == {Lexed(source, 1) : source \in WellFormedFunctions}

\* The same functions without their closing brace.
UnterminatedStreams == {Lexed(Front(source), 1) : source \in WellFormedFunctions}

=============================================================================
