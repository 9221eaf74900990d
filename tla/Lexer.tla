-------------------------------- MODULE Lexer --------------------------------
(***************************************************************************)
(* The lexer (src/syntax/Lexer.cpp): lex_all over one source, a sequence   *)
(* of bytes, each byte a string of one character.  "NUL" and "VT" are the  *)
(* bytes TLA+ has no escape for; current() and peek() also return "NUL"    *)
(* outside the source.                                                     *)
(*                                                                         *)
(* A step is one iteration of a loop that keeps state (trivia, numbers,    *)
(* string and character literals) or one whole token.  The offset, as in   *)
(* the code, counts the bytes consumed.                                    *)
(***************************************************************************)
EXTENDS SyntaxTree, FiniteSetsExt

CONSTANT Sources

ASSUME SourcesAssumption == \A text \in Sources : text \in Seq(STRING)

VARIABLES
  source, offset,
  phase,    \* "scan" between tokens, "number" and "literal" inside one, "done"
  begin,    \* where the number or literal begins
  seen,     \* what lex_number has seen: the prefix 0x, a dot, an exponent
  tokens, errors

vars == <<source, offset, phase, begin, seen, tokens, errors>>

-----------------------------------------------------------------------------
(* Bytes, in the "C" locale the program runs in.                           *)

Digits == {"0", "1", "2", "3", "4", "5", "6", "7", "8", "9"}

Letters ==
  {"a", "b", "c", "d", "e", "f", "g", "h", "i", "j", "k", "l", "m",
   "n", "o", "p", "q", "r", "s", "t", "u", "v", "w", "x", "y", "z",
   "A", "B", "C", "D", "E", "F", "G", "H", "I", "J", "K", "L", "M",
   "N", "O", "P", "Q", "R", "S", "T", "U", "V", "W", "X", "Y", "Z"}

Spaces == {" ", "\t", "\n", "VT", "\f", "\r"}

IdentifierStart == Letters \cup {"_"}
IdentifierContinue == IdentifierStart \cup Digits
NumberContinue == IdentifierContinue \cup {"'", "."}

\* The markers a sign may follow.
ExponentMarkers(hexadecimal) == IF hexadecimal THEN {"p", "P"} ELSE {"e", "E"}

Singles == {"(", ")", "{", "}", "[", "]", ",", ";", ":", ".", "?", "=", "!", "<", ">",
            "+", "-", "*", "/", "%", "&", "|", "^", "~"}

Pairs == {<<":", ":">>, <<"=", "=">>, <<"!", "=">>, <<"<", "=">>, <<">", "=">>,
          <<"-", ">">>, <<"&", "&">>, <<"|", "|">>}

PairKind(pair) ==
  CASE pair = <<":", ":">> -> "::" [] pair = <<"=", "=">> -> "=="
    [] pair = <<"!", "=">> -> "!=" [] pair = <<"<", "=">> -> "<="
    [] pair = <<">", "=">> -> ">=" [] pair = <<"-", ">">> -> "->"
    [] pair = <<"&", "&">> -> "&&" [] pair = <<"|", "|">> -> "||"

WordKind(text) ==
  CASE text = <<"f", "a", "i", "l">> -> "fail"
    [] text = <<"f", "a", "i", "l", "s">> -> "fails"
    [] text = <<"t", "r", "y">> -> "try"
    [] text = <<"r", "e", "t", "u", "r", "n">> -> "return"
    [] OTHER -> "Identifier"

LiteralKind(quote) == IF quote = "\"" THEN "StringLiteral" ELSE "CharacterLiteral"

Kinds ==
  Singles \cup {PairKind(pair) : pair \in Pairs} \cup Keywords
  \cup {"Invalid", "EndOfFile", "Identifier", "IntegerLiteral", "FloatingLiteral",
        "StringLiteral", "CharacterLiteral"}

-----------------------------------------------------------------------------
(* Helpers of the lexer.                                                   *)

At(place) == IF place < Len(source) THEN source[place+1] ELSE "NUL"
AtEnd == offset >= Len(source)
Current == At(offset)
Peek == At(offset+1)
Quote == At(begin)

\* The bytes of the source in [from, to).
Bytes(from, to) == SubSeq(source, from+1, to)

\* make_token.
Token(kind, from, to) == [kind |-> kind, text |-> Bytes(from, to), begin |-> from, end |-> to]

\* The token [from, to) is returned by next and pushed by lex_all.
Deliver(kind, from, to) ==
  /\ tokens' = Append(tokens, Token(kind, from, to))
  /\ offset' = to

\* Mutated form: a failure at the end of the source is not reported.
ReportUnterminatedBeforeEnd(from, to) ==
  errors' = IF to < Len(source) THEN Append(errors, [begin |-> from, end |-> to]) ELSE errors

ReportUnterminated(from, to) == errors' = Append(errors, [begin |-> from, end |-> to])

Init ==
  /\ source \in Sources
  /\ offset = 0 /\ begin = 0
  /\ phase = "scan"
  /\ seen = [hexadecimal |-> FALSE, dot |-> FALSE, exponent |-> FALSE]
  /\ tokens = <<>> /\ errors = <<>>

-----------------------------------------------------------------------------
(* skip_trivia.                                                            *)

\* Mutated form: the space is not consumed.
SkipSpaceInPlace ==
  /\ phase = "scan" /\ ~AtEnd /\ Current \in Spaces
  /\ UNCHANGED vars

SkipSpace ==
  /\ phase = "scan" /\ ~AtEnd /\ Current \in Spaces
  /\ offset' = offset + 1
  /\ UNCHANGED <<source, phase, begin, seen, tokens, errors>>

\* Up to the newline, which is left to SkipSpace.
SkipLineComment ==
  /\ phase = "scan" /\ Current = "/" /\ Peek = "/"
  /\ offset' = Min({o \in offset+2..Len(source) : o = Len(source) \/ At(o) = "\n"})
  /\ UNCHANGED <<source, phase, begin, seen, tokens, errors>>

\* Where a comment closes whose marker is looked for from one offset on.
Closings(first) == {o \in first..Len(source)-2 : At(o) = "*" /\ At(o+1) = "/"}

SkipBlockCommentFrom(first) ==
  /\ phase = "scan" /\ Current = "/" /\ Peek = "*"
  /\ IF Closings(first) # {}
     THEN offset' = Min(Closings(first)) + 2 /\ UNCHANGED errors
     ELSE offset' = Len(source) /\ ReportUnterminated(offset, Len(source))
  /\ UNCHANGED <<source, phase, begin, seen, tokens>>

\* Mutated form: the star that opens the comment may also close it.
SkipBlockCommentEarly == SkipBlockCommentFrom(offset+1)

SkipBlockComment == SkipBlockCommentFrom(offset+2)

-----------------------------------------------------------------------------
(* next: a byte that is no trivia begins a token.                          *)

AtToken ==
  /\ phase = "scan" /\ ~AtEnd
  /\ Current \notin Spaces
  /\ ~(Current = "/" /\ Peek \in {"/", "*"})

LexEndOfFile ==
  /\ phase = "scan" /\ AtEnd
  /\ Deliver("EndOfFile", offset, offset)
  /\ phase' = "done"
  /\ UNCHANGED <<source, begin, seen, errors>>

LexIdentifierOrKeyword ==
  /\ AtToken /\ Current \in IdentifierStart
  /\ LET end == Min({o \in offset+1..Len(source) :
                       o = Len(source) \/ At(o) \notin IdentifierContinue})
     IN  Deliver(WordKind(Bytes(offset, end)), offset, end)
  /\ UNCHANGED <<source, phase, begin, seen, errors>>

AtNumber == Current \in Digits \/ (Current = "." /\ Peek \in Digits)

BeginNumber ==
  /\ AtToken /\ AtNumber
  /\ LET prefixed == Current = "0" /\ Peek \in {"x", "X"}
     IN  /\ seen' = [hexadecimal |-> prefixed, dot |-> Current = ".", exponent |-> FALSE]
         /\ offset' = offset + IF prefixed THEN 2 ELSE 1
  /\ begin' = offset
  /\ phase' = "number"
  /\ UNCHANGED <<source, tokens, errors>>

ContinueNumberWith(markers) ==
  /\ phase = "number" /\ ~AtEnd /\ Current \in NumberContinue
  /\ LET marker == Current \in markers
     IN  /\ seen' = [seen EXCEPT !.dot = @ \/ Current = ".", !.exponent = @ \/ marker]
         /\ offset' = offset + IF marker /\ Peek \in {"+", "-"} THEN 2 ELSE 1
  /\ UNCHANGED <<source, phase, begin, tokens, errors>>

\* Mutated form: e is an exponent marker in a hexadecimal number too.
ContinueNumberAnyMarker == ContinueNumberWith({"e", "E", "p", "P"})

ContinueNumber == ContinueNumberWith(ExponentMarkers(seen.hexadecimal))

EndNumber ==
  /\ phase = "number" /\ (AtEnd \/ Current \notin NumberContinue)
  /\ Deliver(IF seen.dot \/ seen.exponent THEN "FloatingLiteral" ELSE "IntegerLiteral",
             begin, offset)
  /\ phase' = "scan"
  /\ UNCHANGED <<source, begin, seen, errors>>

\* The pair is preferred to its first byte (match); the rest is Invalid.
LexPunctuationUsing(after) ==
  /\ AtToken /\ ~AtNumber /\ Current \notin IdentifierStart \cup {"\"", "'"}
  /\ IF <<Current, Peek>> \in Pairs
     THEN /\ tokens' = Append(tokens, Token(PairKind(<<Current, Peek>>), offset, offset+2))
          /\ offset' = offset + after
     ELSE Deliver(IF Current \in Singles THEN Current ELSE "Invalid", offset, offset+1)
  /\ UNCHANGED <<source, phase, begin, seen, errors>>

\* Mutated form: match compares the second byte and does not consume it.
LexPunctuationKeepingSecond == LexPunctuationUsing(1)

LexPunctuation == LexPunctuationUsing(2)

-----------------------------------------------------------------------------
(* lex_string_literal and lex_character_literal.                           *)

BeginLiteral ==
  /\ AtToken /\ Current \in {"\"", "'"}
  /\ begin' = offset
  /\ offset' = offset + 1
  /\ phase' = "literal"
  /\ UNCHANGED <<source, seen, tokens, errors>>

CloseLiteral ==
  /\ phase = "literal" /\ ~AtEnd /\ Current = Quote
  /\ Deliver(LiteralKind(Quote), begin, offset+1)
  /\ phase' = "scan"
  /\ UNCHANGED <<source, begin, seen, errors>>

\* Mutated form: the end of the source behind the backslash is not looked for.
EscapeInLiteralUnchecked ==
  /\ phase = "literal" /\ ~AtEnd /\ Current = "\\"
  /\ offset' = offset + IF Peek = "\r" /\ At(offset+2) = "\n" THEN 3 ELSE 2
  /\ UNCHANGED <<source, phase, begin, seen, tokens, errors>>

\* A backslash takes the next byte with it, or the two of a CR LF.
EscapeInLiteral ==
  /\ phase = "literal" /\ ~AtEnd /\ Current = "\\"
  /\ offset' = offset + (IF offset+1 = Len(source) THEN 1
                         ELSE IF Peek = "\r" /\ At(offset+2) = "\n" THEN 3 ELSE 2)
  /\ UNCHANGED <<source, phase, begin, seen, tokens, errors>>

ByteOfLiteral ==
  /\ phase = "literal" /\ ~AtEnd /\ Current \notin {Quote, "\\", "\n", "\r"}
  /\ offset' = offset + 1
  /\ UNCHANGED <<source, phase, begin, seen, tokens, errors>>

\* The line or the source ends first.
UnterminatedLiteral ==
  /\ phase = "literal" /\ (AtEnd \/ Current \in {"\n", "\r"})
  /\ ReportUnterminated(begin, offset)
  /\ Deliver("Invalid", begin, offset)
  /\ phase' = "scan"
  /\ UNCHANGED <<source, begin, seen>>

-----------------------------------------------------------------------------
LexerStep ==
  \/ SkipSpace \/ SkipLineComment \/ SkipBlockComment
  \/ LexEndOfFile \/ LexIdentifierOrKeyword \/ LexPunctuation
  \/ BeginNumber \/ ContinueNumber \/ EndNumber
  \/ BeginLiteral \/ CloseLiteral \/ EscapeInLiteral \/ ByteOfLiteral \/ UnterminatedLiteral

\* lex_all returns once.
Done == phase = "done" /\ UNCHANGED vars

Next == LexerStep \/ Done

\* lex_all is a loop on one thread.
Spec == Init /\ [][Next]_vars /\ WF_vars(LexerStep)

-----------------------------------------------------------------------------
(* Properties.                                                             *)

(***************************************************************************)
(* Every offset stays within the source: the lookahead of the escapes, of  *)
(* the pairs and of the comments never leads past its end.                 *)
(***************************************************************************)
TypeOK ==
  /\ source \in Seq(STRING)
  /\ offset \in 0..Len(source)
  /\ phase \in {"scan", "number", "literal", "done"}
  /\ begin \in 0..offset
  /\ phase \in {"number", "literal"} => begin < offset
  /\ seen \in [hexadecimal : BOOLEAN, dot : BOOLEAN, exponent : BOOLEAN]
  /\ tokens \in Seq([kind : Kinds, text : Seq(STRING), begin : Nat, end : Nat])
  /\ errors \in Seq([begin : Nat, end : Nat])

(***************************************************************************)
(* Lexer.hpp:106, "the resulting collection always ends with exactly one   *)
(* EndOfFile token": what the parser assumes of its input (IsTokenStream), *)
(* whatever the bytes.                                                     *)
(***************************************************************************)
DeliversTokenStream ==
  phase = "done" => tokens # <<>> /\ TokensInOrder(tokens)

-----------------------------------------------------------------------------
(* What trivia is, told without scanning: a cut of the bytes into pieces   *)
(* that each are a space or a comment.                                     *)

LineComment(from, to) ==
  /\ At(from) = "/" /\ At(from+1) = "/" /\ from + 2 <= to
  /\ \A o \in from..to-1 : At(o) # "\n"
  /\ to = Len(source) \/ At(to) = "\n"

OpenComment(from) ==
  /\ from + 2 <= Len(source) /\ At(from) = "/" /\ At(from+1) = "*"
  /\ \A o \in from+2..Len(source)-2 : ~(At(o) = "*" /\ At(o+1) = "/")

ClosedComment(from, to) ==
  /\ At(from) = "/" /\ At(from+1) = "*" /\ from + 4 <= to
  /\ \A o \in from+2..to-2 : (At(o) = "*" /\ At(o+1) = "/") <=> o = to - 2

Piece(from, to) ==
  \/ to = from + 1 /\ At(from) \in Spaces
  \/ LineComment(from, to)
  \/ ClosedComment(from, to)
  \/ OpenComment(from) /\ to = Len(source)

IsTrivia(from, to) ==
  \E cuts \in SUBSET (from..to) :
    /\ from \in cuts /\ to \in cuts
    /\ \A a, b \in cuts :
         (a < b /\ \A c \in cuts : ~(a < c /\ c < b)) => Piece(a, b)

EndOfToken(i) == IF i = 0 THEN 0 ELSE tokens[i].end

(***************************************************************************)
(* Lexer.hpp:41, "Whitespace and comments are treated as trivia and are    *)
(* not emitted as tokens": between two tokens there is nothing else, so    *)
(* that no byte of the program is lost in the scan of a comment.           *)
(***************************************************************************)
GapsAreTrivia ==
  \A i \in 1..Len(tokens) : IsTrivia(EndOfToken(i-1), tokens[i].begin)

-----------------------------------------------------------------------------
(* What a token of each kind looks like, with the bytes around it.         *)

\* An odd number of backslashes stands before the byte inside the literal.
Escaped(first, place) ==
  LET others == {o \in first+1..place-1 : At(o) # "\\"}
      start == IF others = {} THEN first + 1 ELSE Max(others) + 1
  IN  (place - start) % 2 = 1

\* The literal cannot go on over this byte.
Stops(first, place) ==
  \/ At(place) = At(first) /\ ~Escaped(first, place)
  \/ At(place) = "\r" /\ ~Escaped(first, place)
  \/ /\ At(place) = "\n" /\ ~Escaped(first, place)
     /\ ~(At(place-1) = "\r" /\ Escaped(first, place-1))

IsLiteral(token) ==
  /\ token.end >= token.begin + 2
  /\ LiteralKind(At(token.begin)) = token.kind
  /\ At(token.end-1) = At(token.begin)
  /\ \A o \in token.begin+1..token.end-1 : Stops(token.begin, o) <=> o = token.end - 1

IsUnterminated(token) ==
  /\ token.kind = "Invalid" /\ At(token.begin) \in {"\"", "'"}
  /\ \A o \in token.begin+1..token.end-1 : ~Stops(token.begin, o)
  /\ \/ token.end = Len(source)
     \/ At(token.end) \in {"\n", "\r"} /\ Stops(token.begin, token.end)

IsWord(token) ==
  /\ token.text[1] \in IdentifierStart
  /\ \A o \in token.begin..token.end-1 : At(o) \in IdentifierContinue
  /\ At(token.end) \notin IdentifierContinue
  /\ token.kind = WordKind(token.text)

\* A sign belongs to a number exactly behind an exponent marker, and an
\* unsigned number goes on as long as it can.
IsNumber(token) ==
  LET markers == ExponentMarkers(At(token.begin) = "0" /\ At(token.begin+1) \in {"x", "X"})
      inside == token.begin..token.end-1
      MaySign(o) == o > token.begin /\ At(o-1) \in markers
  IN  /\ At(token.begin) \in Digits \/ (At(token.begin) = "." /\ At(token.begin+1) \in Digits)
      /\ \A o \in inside : At(o) \in NumberContinue \/ (At(o) \in {"+", "-"} /\ MaySign(o))
      /\ ~(At(token.end) \in NumberContinue \/ (At(token.end) \in {"+", "-"} /\ MaySign(token.end)))
      /\ (token.kind = "FloatingLiteral") <=> \E o \in inside : At(o) \in markers \cup {"."}

IsPunctuation(token) ==
  \/ /\ token.text \in Pairs /\ token.kind = PairKind(token.text)
  \/ /\ Len(token.text) = 1 /\ token.kind = token.text[1]
     /\ <<At(token.begin), At(token.end)>> \notin Pairs
  \/ /\ Len(token.text) = 1 /\ token.kind = "Invalid"
     /\ token.text[1] \notin Singles \cup IdentifierContinue \cup Spaces \cup {"\"", "'"}

IsLexeme(token) ==
  CASE token.kind = "EndOfFile" -> token.begin = Len(source)
    [] token.kind \in {"StringLiteral", "CharacterLiteral"} -> IsLiteral(token)
    [] token.kind \in {"IntegerLiteral", "FloatingLiteral"} -> IsNumber(token)
    [] token.kind \in Keywords \cup {"Identifier"} -> IsWord(token)
    [] OTHER -> IsUnterminated(token) \/ IsPunctuation(token)

(***************************************************************************)
(* Every token is what its kind says and as long as it can be: a literal   *)
(* ends at its first quote that no backslash escapes and never spans a     *)
(* line unless the line break is escaped, a sign is part of a number only  *)
(* after an exponent, a word is a keyword only if it is that very word.    *)
(***************************************************************************)
TokensAreLexemes ==
  \A i \in 1..Len(tokens) :
    /\ tokens[i].text = Bytes(tokens[i].begin, tokens[i].end)
    /\ IsLexeme(tokens[i])

(***************************************************************************)
(* The frontend goes on to parse unless the lexer reported something.  The *)
(* errors are exactly the literals that do not end and a comment that      *)
(* takes the rest of the source, each reported once, at its bytes.         *)
(***************************************************************************)
ErrorsAreTheUnterminated ==
  phase = "done" =>
    LET last == EndOfToken(Len(tokens)-1)
    IN  /\ IsInjective(errors)
        /\ ToSet(errors) =
             {[begin |-> token.begin, end |-> token.end] :
                token \in {t \in ToSet(tokens) : IsUnterminated(t)}}
             \cup {[begin |-> from, end |-> Len(source)] :
                     from \in {o \in last..Len(source) : OpenComment(o) /\ IsTrivia(last, o)}}

(***************************************************************************)
(* Every source is lexed to its end.                                       *)
(***************************************************************************)
Terminates == <>(phase = "done")

=============================================================================
