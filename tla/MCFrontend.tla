------------------------------ MODULE MCFrontend ------------------------------
(***************************************************************************)
(* Programs of up to two failure-aware functions with ordinary C++ around  *)
(* them, one byte of trivia between any two words.                         *)
(***************************************************************************)
EXTENDS Frontend

CONSTANTS
  BodyBound,    \* statements in the first function
  Statements    \* which statements those are

Function(success, name, failure, body) ==
  success \o <<name, "(", ")", "fails", failure, "{">> \o body \o <<"}">>

Try(name) == <<"try", name, "(", ")">>

WellFormed ==
  {<<"return", "x", ";">>, <<"fail", "e", ";">>,
   <<"auto", "x", "=">> \o Try("g") \o <<";">>,
   <<"auto", "__vixc_outcome_1", "=">> \o Try("f") \o <<";">>,
   <<"n", "(", ")", ";">>}

Unusual ==
  {<<"const", "auto", "x", "=">> \o Try("g") \o <<";">>,
   <<"else", "return", "x", ";">>,
   <<"fail">> \o Try("g") \o <<";">>,
   Try("g") \o <<";">>, Try("n") \o <<";">>, <<"try", "x", ";">>,
   <<"return">> \o Try("g") \o <<";">>,
   <<"int", "h", "(", ")", "fails", "F", ";">>,
   <<"try", "{", "}">>, <<"return", ";">>}

\* One statement each for the disagreements with the documents.
ConstTry == {<<"const", "auto", "x", "=">> \o Try("g") \o <<";">>}
FailTry == {<<"fail">> \o Try("g") \o <<";">>}
NestedContract == {<<"int", "h", "(", ")", "fails", "F", ";">>}

AllStatements == WellFormed \cup Unusual

\* Any statement, and any after a well-formed one.
Bodies ==
  {<<>>} \cup Statements
  \cup (IF BodyBound > 1
        THEN {first \o second : first \in WellFormed, second \in Statements} ELSE {})

Seconds ==
  {Function(<<"long">>, name, failure, body) :
     name \in {"f", "g"}, failure \in {"E", "F"},
     body \in {<<"return", "y", ";">>, <<"auto", "z", "=">> \o Try("f") \o <<";">>}}
  \cup {<<>>, <<"int", "g", "(", ")", "fails", "E", ";">>, <<"fail", "e", ";">>,
        Function(<<"void">>, "g", "E", <<"return", "y", ";">>)}

Sources ==
  {<<"n", ";">> \o Function(<<"int">>, "f", "E", body) \o second :
     body \in Bodies, second \in Seconds}

MCStreams == {Lexed(source, 1) : source \in Sources}

\* The contract of the second function in front of the first.
EarlyContracts ==
  {Lexed(<<"fails", "F", ";">> \o Function(<<"int">>, "f", "E", body), 1) : body \in Bodies}

AllStreams == MCStreams \cup EarlyContracts

\* The first function beside the one it calls.
CalleeStreams ==
  {Lexed(Function(<<"int">>, "f", "E", body)
         \o Function(<<"int">>, "g", "E", <<"return", "y", ";">>), 1) : body \in Bodies}

\* One program for every stage that can end a call, and one the source of
\* which ends after any word.
EndingStreams ==
  {Lexed(Function(<<"int">>, "f", "E", body), 1) :
     body \in {<<"return", "x", ";">>, <<"return", ";">>, Try("n") \o <<";">>,
              <<"fail">> \o Try("f") \o <<";">>, Try("f") \o <<";">>,
              <<"auto", "x", "=">> \o Try("f") \o <<";">>}}
  \cup {Lexed(Function(<<"void">>, "f", "E", <<"return", "x", ";">>), 1)}
  \cup LET whole == Function(<<"int">>, "f", "E",
                            <<"return", "x", ";", "auto", "x", "=">> \o Try("f")
                            \o <<";", "fail", "e", ";", "{", "}">>)
       IN  {Lexed(SubSeq(whole, 1, n), 1) : n \in 0..Len(whole)}

MCMentionedIds(word) ==
  IF word = "__vixc_outcome_1" THEN {1} ELSE {}

Request(action, retain) == [action |-> action, retainSourceMap |-> retain]

AllRequests == {Request("Analyze", FALSE), Request("Lower", TRUE), Request("Emit", FALSE),
                Request("Emit", TRUE)}

EmitRequests == {Request("Emit", TRUE)}

=============================================================================
