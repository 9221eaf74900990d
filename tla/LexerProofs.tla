----------------------------- MODULE LexerProofs -----------------------------
(***************************************************************************)
(* What the lexer delivers, for every set of sources: a token stream of    *)
(* the form the parser assumes, with nothing but trivia between tokens,    *)
(* each token a whole lexeme, and an error for exactly what does not end.  *)
(***************************************************************************)
EXTENDS Lexer, ValueLemmas

TokenType == [kind : Kinds, text : Seq(STRING), begin : Nat, end : Nat]

\* Up to where the source is divided into tokens and trivia.
Frontier == IF phase \in {"number", "literal"} THEN begin ELSE offset

\* The tokens delivered so far ascend to the frontier, and only the last
\* token of a finished lexer marks the end of file.
Ascending ==
  /\ \A i \in 1..Len(tokens) :
       /\ tokens[i].begin <= tokens[i].end /\ tokens[i].end <= Frontier
       /\ tokens[i].kind = "EndOfFile" <=> (phase = "done" /\ i = Len(tokens))
       /\ tokens[i].kind = "EndOfFile" <=> tokens[i].begin = tokens[i].end
  /\ \A i, j \in 1..Len(tokens) : i < j => tokens[i].end <= tokens[j].begin
  /\ phase = "done" => tokens # <<>>

IInv == TypeOK /\ Ascending

-----------------------------------------------------------------------------
(* What the steps have in common.                                          *)

LEMMA KindsOfTokens ==
  /\ \A pair \in Pairs : PairKind(pair) \in Kinds \ {"EndOfFile"}
  /\ \A text : WordKind(text) \in Kinds \ {"EndOfFile"}
  /\ Singles \subseteq Kinds \ {"EndOfFile"}
  /\ {"Invalid", "IntegerLiteral", "FloatingLiteral", "StringLiteral", "CharacterLiteral"}
       \subseteq Kinds \ {"EndOfFile"}
<1>1. \A pair \in Pairs : PairKind(pair) \in Kinds
  BY DEF Kinds
<1>2. \A pair \in Pairs : PairKind(pair) # "EndOfFile"
  BY DEF PairKind, Pairs
<1>3. \A text : WordKind(text) \in Keywords \cup {"Identifier"}
  BY DEF WordKind, Keywords
<1>4. Keywords \cup {"Identifier"} \subseteq Kinds \ {"EndOfFile"}
  BY DEF Keywords, Kinds
<1>5. Singles \subseteq Kinds \ {"EndOfFile"}
  <2>1. Singles \subseteq Kinds
    BY DEF Kinds
  <2>2. "EndOfFile" \notin Singles
    BY DEF Singles
  <2>3. QED
    BY <2>1, <2>2
<1>6. {"Invalid", "IntegerLiteral", "FloatingLiteral", "StringLiteral", "CharacterLiteral"}
       \subseteq Kinds \ {"EndOfFile"}
  BY DEF Kinds
<1>7. QED
  BY <1>1, <1>2, <1>3, <1>4, <1>5, <1>6

\* A token made of bytes of the source is one, with the range it was given.
LEMMA TokenIsTyped ==
  ASSUME source \in Seq(STRING), NEW kind \in Kinds,
         NEW from \in Nat, NEW to \in 0..Len(source), from <= to
  PROVE  Token(kind, from, to) \in TokenType
<1>1. Bytes(from, to) \in Seq(STRING)
  BY DEF Bytes
<1>2. QED
  BY <1>1 DEF Token, TokenType

LEMMA RangesOfTokens ==
  ASSUME TypeOK
  PROVE  \A i \in 1..Len(tokens) : tokens[i].begin \in Nat /\ tokens[i].end \in Nat
<1>1. tokens \in Seq(TokenType)
  BY DEF TypeOK, TokenType
<1>2. \A i \in 1..Len(tokens) : tokens[i] \in TokenType
  BY <1>1
<1>3. \A token \in TokenType : token.begin \in Nat /\ token.end \in Nat
  BY DEF TokenType
<1>4. QED
  BY <1>2, <1>3

\* Delivering a token that lies between the frontier and the new offset keeps
\* the stream in order.
LEMMA DeliveryKeepsOrder ==
  ASSUME IInv, phase # "done",
         NEW kind \in Kinds \ {"EndOfFile"}, NEW to \in 0..Len(source), Frontier < to,
         tokens' = Append(tokens, Token(kind, Frontier, to)),
         phase' = "scan", offset' = to
  PROVE  tokens' \in Seq(TokenType) /\ Ascending'
<1> DEFINE last == Token(kind, Frontier, to)
<1>1. Frontier \in Nat /\ tokens \in Seq(TokenType) /\ to \in Nat
  BY DEF IInv, TypeOK, Frontier, TokenType
<1>2. last \in TokenType
  BY <1>1, TokenIsTyped DEF IInv, TypeOK
<1>3. last.begin = Frontier /\ last.end = to /\ last.kind = kind
  BY DEF Token
<1> HIDE DEF last
<1>4. /\ tokens' = Append(tokens, last) /\ tokens' \in Seq(TokenType)
      /\ Len(tokens') = Len(tokens) + 1 /\ Len(tokens) \in Nat
      /\ tokens'[Len(tokens)+1] = last
      /\ \A i \in 1..Len(tokens) : tokens'[i] = tokens[i]
  BY <1>1, <1>2 DEF last
<1>5. Frontier' = to
  BY DEF Frontier
<1>6. \A i \in 1..Len(tokens) :
        /\ tokens[i].begin \in Nat /\ tokens[i].end \in Nat
        /\ tokens[i].begin <= tokens[i].end /\ tokens[i].end <= Frontier
        /\ tokens[i].kind # "EndOfFile" /\ tokens[i].begin # tokens[i].end
  BY RangesOfTokens DEF IInv, Ascending
<1>7. ASSUME NEW i \in 1..Len(tokens')
      PROVE  /\ tokens'[i].begin <= tokens'[i].end /\ tokens'[i].end <= to
             /\ tokens'[i].kind # "EndOfFile" /\ tokens'[i].begin # tokens'[i].end
  <2>1. CASE i \in 1..Len(tokens)
    BY <2>1, <1>1, <1>4, <1>6
  <2>2. CASE i = Len(tokens) + 1
    BY <2>2, <1>1, <1>3, <1>4
  <2>3. QED
    BY <2>1, <2>2, <1>4
<1>8. ASSUME NEW i \in 1..Len(tokens'), NEW j \in 1..Len(tokens'), i < j
      PROVE  tokens'[i].end <= tokens'[j].begin
  <2>1. i \in 1..Len(tokens)
    BY <1>4, <1>8
  <2>2. CASE j \in 1..Len(tokens)
    BY <2>1, <2>2, <1>4, <1>8 DEF IInv, Ascending
  <2>3. CASE j = Len(tokens) + 1
    BY <2>1, <2>3, <1>3, <1>4, <1>6
  <2>4. QED
    BY <2>2, <2>3, <1>4
<1>9. QED
  BY <1>4, <1>5, <1>7, <1>8 DEF Ascending

\* A step that delivers nothing and moves no frontier back keeps the order.
LEMMA ScanningKeepsOrder ==
  ASSUME IInv, phase # "done", phase' # "done", UNCHANGED tokens,
         Frontier' \in Nat, Frontier <= Frontier'
  PROVE  Ascending'
<1>1. Frontier \in Nat
  BY DEF IInv, TypeOK, Frontier
<1>2. \A i \in 1..Len(tokens) : tokens[i].begin \in Nat /\ tokens[i].end \in Nat
  BY RangesOfTokens DEF IInv
<1>3. QED
  BY <1>1, <1>2 DEF IInv, Ascending

\* A byte that can be told from the end of the source is inside it.
LEMMA ByteInside ==
  ASSUME NEW place, At(place) # "NUL"
  PROVE  place < Len(source)
  BY DEF At

\* The loops of the trivia stop past the marker and within the source.
LEMMA TriviaStops ==
  ASSUME TypeOK, phase = "scan", SkipSpace \/ SkipLineComment \/ SkipBlockComment
  PROVE  offset' \in offset+1..Len(source)
<1>1. offset \in Nat /\ Len(source) \in Nat
  BY DEF TypeOK
<1>2. CASE SkipSpace
  BY <1>1, <1>2 DEF SkipSpace, AtEnd
<1>3. CASE SkipLineComment
  <2>1. offset + 1 < Len(source)
    <3>1. At(offset+1) # "NUL"
      BY <1>3 DEF SkipLineComment, Peek
    <3>2. QED
      BY <3>1, ByteInside
  <2> DEFINE Ends == {o \in offset+2..Len(source) : o = Len(source) \/ At(o) = "\n"}
  <2>2. Min(Ends) \in offset+2..Len(source)
    <3>1. Ends \in SUBSET (offset+2..Len(source)) /\ Len(source) \in Ends
      BY <1>1, <2>1
    <3>2. offset + 2 \in 1..Len(source)
      BY <1>1, <2>1
    <3> HIDE DEF Ends
    <3>3. QED
      BY <1>1, <3>1, <3>2, ScanStops
  <2>3. offset' = Min(Ends)
    BY <1>3 DEF SkipLineComment
  <2> HIDE DEF Ends
  <2>4. QED
    BY <1>1, <2>2, <2>3
<1>4. CASE SkipBlockComment
  <2>1. offset + 1 < Len(source)
    <3>1. At(offset+1) # "NUL"
      BY <1>4 DEF SkipBlockComment, SkipBlockCommentFrom, Peek
    <3>2. QED
      BY <3>1, ByteInside
  <2>2. CASE Closings(offset+2) # {}
    <3>1. Min(Closings(offset+2)) \in Closings(offset+2)
      <4>1. Closings(offset+2) \in SUBSET Nat
        BY <1>1 DEF Closings
      <4>2. QED
        BY <2>2, <4>1, MinOfNaturals
    <3>2. Min(Closings(offset+2)) \in offset+2..Len(source)-2
      BY <3>1 DEF Closings
    <3>3. QED
      BY <1>1, <1>4, <2>2, <3>2 DEF SkipBlockComment, SkipBlockCommentFrom
  <2>3. CASE Closings(offset+2) = {}
    BY <1>1, <1>4, <2>1, <2>3 DEF SkipBlockComment, SkipBlockCommentFrom
  <2>4. QED
    BY <2>2, <2>3
<1>5. QED
  BY <1>2, <1>3, <1>4

\* A word ends behind its first byte and within the source.
LEMMA WordStops ==
  ASSUME TypeOK, ~AtEnd
  PROVE  Min({o \in offset+1..Len(source) : o = Len(source) \/ At(o) \notin IdentifierContinue})
           \in offset+1..Len(source)
<1> DEFINE Ends == {o \in offset+1..Len(source) : o = Len(source) \/ At(o) \notin IdentifierContinue}
<1>1. offset \in Nat /\ Len(source) \in Nat /\ offset < Len(source)
  BY DEF TypeOK, AtEnd
<1>2. Ends \in SUBSET (offset+1..Len(source)) /\ Len(source) \in Ends
  BY <1>1
<1>3. offset + 1 \in 1..Len(source)
  BY <1>1
<1>4. Min(Ends) \in offset+1..Len(source)
  <2> HIDE DEF Ends
  <2>1. QED
    BY <1>1, <1>2, <1>3, ScanStops
<1>5. QED
  BY <1>4

-----------------------------------------------------------------------------
(* The invariant.                                                          *)

LEMMA InitEstablishesIInv == Init => IInv
<1> SUFFICES ASSUME Init PROVE IInv
  OBVIOUS
<1>1. source \in Seq(STRING)
  BY SourcesAssumption DEF Init
<1>2. Len(source) \in Nat
  BY <1>1
<1>3. TypeOK
  BY <1>1, <1>2 DEF Init, TypeOK
<1>4. Ascending
  BY DEF Init, Ascending
<1>5. QED
  BY <1>3, <1>4 DEF IInv

\* Trivia moves the offset on and leaves the tokens alone.
LEMMA TriviaStep ==
  ASSUME IInv, SkipSpace \/ SkipLineComment \/ SkipBlockComment
  PROVE  IInv'
<1>1. /\ phase = "scan" /\ UNCHANGED <<source, phase, begin, seen, tokens>>
      /\ UNCHANGED errors \/ ReportUnterminated(offset, Len(source))
  BY DEF SkipSpace, SkipLineComment, SkipBlockComment, SkipBlockCommentFrom
<1>2. offset' \in offset+1..Len(source) /\ offset \in Nat /\ Len(source) \in Nat
      /\ begin \in 0..offset
  BY <1>1, TriviaStops DEF IInv, TypeOK
<1>3. errors' \in Seq([begin : Nat, end : Nat])
  <2>1. CASE UNCHANGED errors
    BY <2>1 DEF IInv, TypeOK
  <2>2. CASE ReportUnterminated(offset, Len(source))
    <3>1. [begin |-> offset, end |-> Len(source)] \in [begin : Nat, end : Nat]
      BY <1>2
    <3>2. errors \in Seq([begin : Nat, end : Nat])
      BY DEF IInv, TypeOK
    <3>3. QED
      BY <2>2, <3>1, <3>2 DEF ReportUnterminated
  <2>3. QED
    BY <1>1, <2>1, <2>2
<1>4. TypeOK'
  BY <1>1, <1>2, <1>3 DEF IInv, TypeOK
<1>5. Ascending'
  <2>1. Frontier = offset /\ Frontier' = offset'
    BY <1>1 DEF Frontier
  <2>2. QED
    BY <1>1, <1>2, <2>1, ScanningKeepsOrder
<1>6. QED
  BY <1>4, <1>5 DEF IInv

\* The first bytes of a number or a literal: the frontier stays in front.
LEMMA BeginStep ==
  ASSUME IInv, BeginNumber \/ BeginLiteral
  PROVE  IInv'
<1>1. /\ phase = "scan" /\ ~AtEnd /\ UNCHANGED <<source, tokens, errors>>
      /\ begin' = offset /\ phase' \in {"number", "literal"}
  BY DEF BeginNumber, BeginLiteral, AtToken
<1>2. offset \in Nat /\ Len(source) \in Nat /\ offset < Len(source)
  BY <1>1 DEF IInv, TypeOK, AtEnd
<1>3. offset' \in offset+1..Len(source)
  <2>1. CASE BeginLiteral
    <3>1. offset' = offset + 1
      BY <2>1 DEF BeginLiteral
    <3>2. QED
      BY <1>2, <3>1
  <2>2. CASE BeginNumber
    <3>1. Peek \in {"x", "X"} => offset + 1 < Len(source)
      BY ByteInside DEF Peek
    <3>2. QED
      BY <1>2, <2>2, <3>1 DEF BeginNumber
  <2>3. QED
    BY <2>1, <2>2
<1>4. seen' \in [hexadecimal : BOOLEAN, dot : BOOLEAN, exponent : BOOLEAN]
  <2>1. CASE BeginNumber
    BY <2>1 DEF BeginNumber
  <2>2. CASE BeginLiteral
    BY <2>2 DEF BeginLiteral, IInv, TypeOK
  <2>3. QED
    BY <2>1, <2>2
<1>5. TypeOK'
  BY <1>1, <1>2, <1>3, <1>4 DEF IInv, TypeOK
<1>6. Ascending'
  <2>1. Frontier = offset /\ Frontier' = offset
    BY <1>1 DEF Frontier
  <2>2. QED
    BY <1>1, <1>2, <2>1, ScanningKeepsOrder
<1>7. QED
  BY <1>5, <1>6 DEF IInv

\* The bytes inside a number or a literal.
LEMMA InsideStep ==
  ASSUME IInv, ContinueNumber \/ EscapeInLiteral \/ ByteOfLiteral
  PROVE  IInv'
<1>1. /\ phase \in {"number", "literal"} /\ ~AtEnd
      /\ UNCHANGED <<source, phase, begin, tokens, errors>>
  BY DEF ContinueNumber, ContinueNumberWith, EscapeInLiteral, ByteOfLiteral
<1>2. /\ offset \in Nat /\ Len(source) \in Nat /\ offset < Len(source)
      /\ begin \in Nat /\ begin < offset
  BY <1>1 DEF IInv, TypeOK, AtEnd
<1>3. offset' \in offset+1..Len(source)
  <2>1. CASE ByteOfLiteral
    BY <1>2, <2>1 DEF ByteOfLiteral
  <2>2. CASE ContinueNumber
    <3>1. Peek \in {"+", "-"} => offset + 1 < Len(source)
      BY ByteInside DEF Peek
    <3>2. QED
      BY <1>2, <2>2, <3>1 DEF ContinueNumber, ContinueNumberWith
  <2>3. CASE EscapeInLiteral
    <3>1. At(offset+2) = "\n" => offset + 2 < Len(source)
      BY ByteInside
    <3>2. QED
      BY <1>2, <2>3, <3>1 DEF EscapeInLiteral
  <2>4. QED
    BY <2>1, <2>2, <2>3
<1>4. seen' \in [hexadecimal : BOOLEAN, dot : BOOLEAN, exponent : BOOLEAN]
  BY DEF ContinueNumber, ContinueNumberWith, EscapeInLiteral, ByteOfLiteral, IInv, TypeOK
<1>5. TypeOK'
  BY <1>1, <1>2, <1>3, <1>4 DEF IInv, TypeOK
<1>6. Ascending'
  <2>1. Frontier = begin /\ Frontier' = begin
    BY <1>1 DEF Frontier
  <2>2. QED
    BY <1>1, <1>2, <2>1, ScanningKeepsOrder
<1>7. QED
  BY <1>5, <1>6 DEF IInv

\* What DeliveryKeepsOrder leaves of the invariant after a delivery.
LEMMA DeliveryStep ==
  ASSUME IInv, phase # "done", UNCHANGED <<source, begin, seen>>,
         NEW kind \in Kinds \ {"EndOfFile"}, NEW to \in 0..Len(source), Frontier < to,
         offset <= to, errors' \in Seq([begin : Nat, end : Nat]),
         tokens' = Append(tokens, Token(kind, Frontier, to)),
         phase' = "scan", offset' = to
  PROVE  IInv'
<1>1. tokens' \in Seq(TokenType) /\ Ascending'
  BY DeliveryKeepsOrder
<1>2. TypeOK'
  BY <1>1 DEF IInv, TypeOK, TokenType
<1>3. QED
  BY <1>1, <1>2 DEF IInv

LEMMA WordStep == IInv /\ LexIdentifierOrKeyword => IInv'
<1> SUFFICES ASSUME IInv, LexIdentifierOrKeyword PROVE IInv'
  OBVIOUS
<1> DEFINE end == Min({o \in offset+1..Len(source) :
                         o = Len(source) \/ At(o) \notin IdentifierContinue})
<1>1. /\ phase = "scan" /\ ~AtEnd /\ UNCHANGED <<source, phase, begin, seen, errors>>
      /\ tokens' = Append(tokens, Token(WordKind(Bytes(offset, end)), offset, end))
      /\ offset' = end
  BY DEF LexIdentifierOrKeyword, AtToken, Deliver
<1>2. end \in offset+1..Len(source)
  BY <1>1, WordStops DEF IInv
<1> HIDE DEF end
<1>3. Frontier = offset /\ offset \in Nat /\ Len(source) \in Nat
  BY <1>1 DEF Frontier, IInv, TypeOK
<1>4. errors' \in Seq([begin : Nat, end : Nat])
  BY <1>1 DEF IInv, TypeOK
<1>5. end \in 0..Len(source) /\ offset < end /\ offset <= end
  BY <1>2, <1>3
<1>6. WordKind(Bytes(offset, end)) \in Kinds \ {"EndOfFile"}
  BY KindsOfTokens
<1>7. QED
  BY <1>1, <1>3, <1>4, <1>5, <1>6, DeliveryStep

LEMMA PunctuationStep == IInv /\ LexPunctuation => IInv'
<1> SUFFICES ASSUME IInv, LexPunctuation PROVE IInv'
  OBVIOUS
<1>1. /\ phase = "scan" /\ ~AtEnd /\ UNCHANGED <<source, phase, begin, seen, errors>>
  BY DEF LexPunctuation, LexPunctuationUsing, AtToken
<1>2. Frontier = offset /\ offset \in Nat /\ Len(source) \in Nat /\ offset < Len(source)
  BY <1>1 DEF Frontier, IInv, TypeOK, AtEnd
<1>3. errors' \in Seq([begin : Nat, end : Nat])
  BY <1>1 DEF IInv, TypeOK
<1>4. CASE <<Current, Peek>> \in Pairs
  <2>1. Peek # "NUL"
    BY <1>4 DEF Pairs
  <2>2. offset + 2 \in 0..Len(source) /\ offset < offset + 2 /\ offset <= offset + 2
    <3>1. offset + 1 < Len(source)
      BY <2>1, ByteInside DEF Peek
    <3>2. QED
      BY <1>2, <3>1
  <2>3. PairKind(<<Current, Peek>>) \in Kinds \ {"EndOfFile"}
    BY <1>4, KindsOfTokens
  <2>4. /\ tokens' = Append(tokens, Token(PairKind(<<Current, Peek>>), offset, offset+2))
        /\ offset' = offset + 2
    BY <1>4 DEF LexPunctuation, LexPunctuationUsing
  <2>5. QED
    BY <1>1, <1>2, <1>3, <2>2, <2>3, <2>4, DeliveryStep
<1>5. CASE <<Current, Peek>> \notin Pairs
  <2> DEFINE kind == IF Current \in Singles THEN Current ELSE "Invalid"
  <2>1. kind \in Kinds \ {"EndOfFile"}
    BY KindsOfTokens
  <2>2. /\ tokens' = Append(tokens, Token(kind, offset, offset+1))
        /\ offset' = offset + 1
    BY <1>5 DEF LexPunctuation, LexPunctuationUsing, Deliver
  <2> HIDE DEF kind
  <2>3. offset + 1 \in 0..Len(source) /\ offset < offset + 1 /\ offset <= offset + 1
    BY <1>2
  <2>4. QED
    BY <1>1, <1>2, <1>3, <2>1, <2>2, <2>3, DeliveryStep
<1>6. QED
  BY <1>4, <1>5

\* The ends of numbers and literals.
LEMMA EndStep ==
  ASSUME IInv, EndNumber \/ CloseLiteral \/ UnterminatedLiteral
  PROVE  IInv'
<1>1. /\ phase \in {"number", "literal"} /\ phase' = "scan"
      /\ UNCHANGED <<source, begin, seen>>
  BY DEF EndNumber, CloseLiteral, UnterminatedLiteral
<1>2. /\ offset \in Nat /\ Len(source) \in Nat /\ offset <= Len(source)
      /\ begin \in Nat /\ begin < offset /\ Frontier = begin
  BY <1>1 DEF IInv, TypeOK, Frontier
<1>3. CASE EndNumber
  <2> DEFINE kind == IF seen.dot \/ seen.exponent THEN "FloatingLiteral" ELSE "IntegerLiteral"
  <2>1. kind \in Kinds \ {"EndOfFile"}
    BY KindsOfTokens
  <2>2. tokens' = Append(tokens, Token(kind, begin, offset)) /\ offset' = offset
        /\ UNCHANGED errors
    BY <1>3 DEF EndNumber, Deliver
  <2> HIDE DEF kind
  <2>3. errors' \in Seq([begin : Nat, end : Nat])
    BY <2>2 DEF IInv, TypeOK
  <2>4. offset \in 0..Len(source) /\ offset <= offset
    BY <1>2
  <2>5. QED
    BY <1>1, <1>2, <2>1, <2>2, <2>3, <2>4, DeliveryStep
<1>4. CASE CloseLiteral
  <2>1. LiteralKind(Quote) \in Kinds \ {"EndOfFile"}
    BY KindsOfTokens DEF LiteralKind
  <2>2. tokens' = Append(tokens, Token(LiteralKind(Quote), begin, offset+1))
        /\ offset' = offset + 1 /\ UNCHANGED errors /\ ~AtEnd
    BY <1>4 DEF CloseLiteral, Deliver
  <2>3. errors' \in Seq([begin : Nat, end : Nat])
    BY <2>2 DEF IInv, TypeOK
  <2>4. offset + 1 \in 0..Len(source) /\ begin < offset + 1 /\ offset <= offset + 1
    BY <1>2, <2>2 DEF AtEnd
  <2>5. QED
    BY <1>1, <1>2, <2>1, <2>2, <2>3, <2>4, DeliveryStep
<1>5. CASE UnterminatedLiteral
  <2>1. "Invalid" \in Kinds \ {"EndOfFile"}
    BY KindsOfTokens
  <2>2. tokens' = Append(tokens, Token("Invalid", begin, offset)) /\ offset' = offset
        /\ errors' = Append(errors, [begin |-> begin, end |-> offset])
    BY <1>5 DEF UnterminatedLiteral, Deliver, ReportUnterminated
  <2>3. errors' \in Seq([begin : Nat, end : Nat])
    BY <1>2, <2>2 DEF IInv, TypeOK
  <2>4. offset \in 0..Len(source) /\ offset <= offset
    BY <1>2
  <2>5. QED
    BY <1>1, <1>2, <2>1, <2>2, <2>3, <2>4, DeliveryStep
<1>6. QED
  BY <1>3, <1>4, <1>5

LEMMA EndOfFileStep == IInv /\ LexEndOfFile => IInv'
<1> SUFFICES ASSUME IInv, LexEndOfFile PROVE IInv'
  OBVIOUS
<1> DEFINE last == Token("EndOfFile", offset, offset)
<1>1. /\ phase = "scan" /\ phase' = "done" /\ UNCHANGED <<source, begin, seen, errors>>
      /\ tokens' = Append(tokens, last) /\ offset' = offset
  BY DEF LexEndOfFile, Deliver
<1>2. /\ offset \in 0..Len(source) /\ Len(source) \in Nat /\ offset \in Nat
      /\ source \in Seq(STRING) /\ tokens \in Seq(TokenType)
      /\ Frontier = offset /\ Frontier' = offset
  BY <1>1 DEF IInv, TypeOK, Frontier, TokenType
<1>3. last \in TokenType
  <2>1. "EndOfFile" \in Kinds /\ offset <= offset
    BY <1>2 DEF Kinds
  <2>2. QED
    BY <1>2, <2>1, TokenIsTyped
<1>4. last.begin = offset /\ last.end = offset /\ last.kind = "EndOfFile"
  BY DEF Token
<1> HIDE DEF last
<1>5. /\ tokens' \in Seq(TokenType) /\ tokens' # <<>>
      /\ Len(tokens') = Len(tokens) + 1 /\ Len(tokens) \in Nat
      /\ tokens'[Len(tokens)+1] = last
      /\ \A i \in 1..Len(tokens) : tokens'[i] = tokens[i]
  BY <1>1, <1>2, <1>3
<1>6. TypeOK'
  BY <1>1, <1>2, <1>5 DEF IInv, TypeOK, TokenType
<1>7. \A i \in 1..Len(tokens) :
        /\ tokens[i].begin \in Nat /\ tokens[i].end \in Nat
        /\ tokens[i].begin <= tokens[i].end /\ tokens[i].end <= offset
        /\ tokens[i].kind # "EndOfFile" /\ tokens[i].begin # tokens[i].end
  BY <1>1, <1>2, RangesOfTokens DEF IInv, Ascending
<1>8. ASSUME NEW i \in 1..Len(tokens')
      PROVE  /\ tokens'[i].begin <= tokens'[i].end /\ tokens'[i].end <= offset
             /\ (tokens'[i].kind = "EndOfFile") <=> (i = Len(tokens'))
             /\ (tokens'[i].kind = "EndOfFile") <=> (tokens'[i].begin = tokens'[i].end)
  <2>1. CASE i \in 1..Len(tokens)
    <3>1. tokens'[i] = tokens[i] /\ i # Len(tokens')
      BY <2>1, <1>5
    <3>2. QED
      BY <2>1, <3>1, <1>7
  <2>2. CASE i = Len(tokens) + 1
    BY <2>2, <1>2, <1>4, <1>5
  <2>3. QED
    BY <2>1, <2>2, <1>5
<1>9. ASSUME NEW i \in 1..Len(tokens'), NEW j \in 1..Len(tokens'), i < j
      PROVE  tokens'[i].end <= tokens'[j].begin
  <2>1. i \in 1..Len(tokens)
    BY <1>5, <1>9
  <2>2. CASE j \in 1..Len(tokens)
    BY <2>1, <2>2, <1>5, <1>9 DEF IInv, Ascending
  <2>3. CASE j = Len(tokens) + 1
    BY <2>1, <2>3, <1>4, <1>5, <1>7
  <2>4. QED
    BY <2>2, <2>3, <1>5
<1>10. Ascending'
  BY <1>1, <1>2, <1>5, <1>8, <1>9 DEF Ascending
<1>11. QED
  BY <1>6, <1>10 DEF IInv

LEMMA StepKeepsIInv == IInv /\ [Next]_vars => IInv'
<1> SUFFICES ASSUME IInv, [Next]_vars PROVE IInv'
  OBVIOUS
<1>1. CASE SkipSpace \/ SkipLineComment \/ SkipBlockComment
  BY <1>1, TriviaStep
<1>2. CASE LexEndOfFile
  BY <1>2, EndOfFileStep
<1>3. CASE LexIdentifierOrKeyword
  BY <1>3, WordStep
<1>4. CASE LexPunctuation
  BY <1>4, PunctuationStep
<1>5. CASE BeginNumber \/ BeginLiteral
  BY <1>5, BeginStep
<1>6. CASE ContinueNumber \/ EscapeInLiteral \/ ByteOfLiteral
  BY <1>6, InsideStep
<1>7. CASE EndNumber \/ CloseLiteral \/ UnterminatedLiteral
  BY <1>7, EndStep
<1>8. CASE UNCHANGED vars
  BY <1>8 DEF IInv, TypeOK, Ascending, Frontier, vars
<1>9. QED
  BY <1>1, <1>2, <1>3, <1>4, <1>5, <1>6, <1>7, <1>8 DEF Next, LexerStep, Done

LEMMA Invariance == Spec => []IInv
<1>1. QED
  BY InitEstablishesIInv, StepKeepsIInv, PTL DEF Spec

(***************************************************************************)
(* No lookahead of the lexer leads past the end of the source.             *)
(***************************************************************************)
THEOREM StaysInTheSource == Spec => []TypeOK
<1>1. IInv => TypeOK
  BY DEF IInv
<1>2. QED
  BY <1>1, Invariance, PTL

(***************************************************************************)
(* Whatever the bytes of a source are, lex_all returns what the parser     *)
(* assumes of its input: tokens in order, without overlap, none empty but  *)
(* the one that marks the end of file.                                     *)
(***************************************************************************)
THEOREM DeliversOneTokenStream == Spec => []DeliversTokenStream
<1>1. IInv => DeliversTokenStream
  <2> SUFFICES ASSUME IInv, phase = "done" PROVE tokens # <<>> /\ TokensInOrder(tokens)
    BY DEF DeliversTokenStream
  <2>1. tokens # <<>> /\ tokens \in Seq(TokenType)
    BY DEF IInv, Ascending, TypeOK, TokenType
  <2>2. Len(tokens) \in Nat \ {0} /\ Len(tokens) \in 1..Len(tokens)
    BY <2>1
  <2>3. \A i \in 1..Len(tokens) : tokens[i].begin \in Nat /\ tokens[i].end \in Nat
    BY RangesOfTokens DEF IInv
  <2>4. /\ \A i \in 1..Len(tokens) : (tokens[i].kind = "EndOfFile") <=> (i = Len(tokens))
        /\ \A i, j \in 1..Len(tokens) : i < j => tokens[i].end <= tokens[j].begin
    BY DEF IInv, Ascending
  <2>5. tokens[Len(tokens)].begin = tokens[Len(tokens)].end
    BY <2>2, <2>4 DEF IInv, Ascending
  <2>6. ASSUME NEW i \in 1..Len(tokens)-1
        PROVE  tokens[i].begin < tokens[i].end
    <3>1. i \in 1..Len(tokens) /\ i # Len(tokens)
      BY <2>2
    <3>2. tokens[i].begin # tokens[i].end /\ tokens[i].begin <= tokens[i].end
      BY <2>4, <3>1 DEF IInv, Ascending
    <3>3. QED
      BY <2>3, <3>1, <3>2
  <2>7. QED
    BY <2>1, <2>4, <2>5, <2>6 DEF TokensInOrder
<1>2. QED
  BY <1>1, Invariance, PTL

-----------------------------------------------------------------------------
(* Nothing but trivia between tokens.                                      *)

\* The bytes from the last token to the frontier are trivia as well.
GInv ==
  /\ IInv
  /\ GapsAreTrivia
  /\ phase # "done" => IsTrivia(EndOfToken(Len(tokens)), Frontier)

LEMMA SameSourceSameTrivia ==
  ASSUME UNCHANGED source
  PROVE  \A from, to : IsTrivia(from, to)' <=> IsTrivia(from, to)
  BY DEF IsTrivia, Piece, LineComment, OpenComment, ClosedComment, At

LEMMA EmptyIsTrivia ==
  ASSUME NEW place \in Nat
  PROVE  IsTrivia(place, place)
<1>1. {place} \in SUBSET (place..place)
  OBVIOUS
<1>2. \A a, b \in {place} : ~(a < b)
  OBVIOUS
<1>3. QED
  BY <1>1, <1>2 DEF IsTrivia

LEMMA TriviaExtends ==
  ASSUME NEW from \in Nat, NEW middle \in Nat, NEW to \in Nat,
         IsTrivia(from, middle), middle < to, Piece(middle, to)
  PROVE  IsTrivia(from, to)
<1>1. PICK cuts \in SUBSET (from..middle) :
        /\ from \in cuts /\ middle \in cuts
        /\ \A a, b \in cuts :
             (a < b /\ \A c \in cuts : ~(a < c /\ c < b)) => Piece(a, b)
  BY DEF IsTrivia
<1> DEFINE more == cuts \cup {to}
<1>2. more \in SUBSET (from..to) /\ from \in more /\ to \in more
  BY <1>1
<1>3. ASSUME NEW a \in more, NEW b \in more, a < b,
             \A c \in more : ~(a < c /\ c < b)
      PROVE  Piece(a, b)
  <2>1. a \in cuts
    BY <1>1, <1>2, <1>3
  <2>2. CASE b \in cuts
    BY <1>1, <1>3, <2>1, <2>2
  <2>3. CASE b = to
    <3>1. a = middle
      BY <1>1, <1>3, <2>1, <2>3
    <3>2. QED
      BY <2>3, <3>1
  <2>4. QED
    BY <1>3, <2>2, <2>3
<1>4. QED
  BY <1>2, <1>3 DEF IsTrivia

\* The bytes of a line comment are its two slashes and those behind them.
LEMMA Offsets ==
  ASSUME NEW a \in Nat, NEW b \in Nat, NEW c \in Nat, b <= c
  PROVE  /\ \A o \in a..b-1 : o \in a+2..b-1 \/ o = a \/ o = a + 1
         /\ \A o \in a+2..b-1 : o \in a+2..c /\ ~(b <= o)
OBVIOUS

\* What one iteration of skip_trivia passes over is one piece of trivia.
LEMMA TriviaIsPiece ==
  ASSUME TypeOK, SkipSpace \/ SkipLineComment \/ SkipBlockComment
  PROVE  Piece(offset, offset')
<1>1. offset \in Nat /\ Len(source) \in Nat
  BY DEF TypeOK
<1>2. CASE SkipSpace
  <2>1. offset' = offset + 1 /\ At(offset) \in Spaces
    BY <1>2 DEF SkipSpace, Current
  <2> DEFINE to == offset + 1
  <2>2. Piece(offset, to)
    BY <2>1 DEF Piece
  <2>3. QED
    BY <2>1, <2>2
<1>3. CASE SkipLineComment
  <2> DEFINE Ends == {o \in offset+2..Len(source) : o = Len(source) \/ At(o) = "\n"}
  <2>1. At(offset) = "/" /\ At(offset+1) = "/" /\ offset' = Min(Ends)
    BY <1>3 DEF SkipLineComment, Current, Peek
  <2>2. Ends \in SUBSET Nat /\ Len(source) \in Ends
    <3>1. offset + 1 < Len(source)
      BY <2>1, ByteInside
    <3>2. QED
      BY <1>1, <3>1
  <2>3. Min(Ends) \in Ends /\ \A o \in Ends : Min(Ends) <= o
    <3> HIDE DEF Ends
    <3>1. QED
      BY <2>2, MinOfNaturals
  <2>4. /\ offset' \in offset+2..Len(source)
        /\ offset' = Len(source) \/ At(offset') = "\n"
        /\ \A o \in offset+2..offset'-1 : At(o) # "\n"
    <3>1. offset' \in Ends /\ \A o \in Ends : offset' <= o
      BY <2>1, <2>3
    <3>2. offset' \in offset+2..Len(source) /\ (offset' = Len(source) \/ At(offset') = "\n")
      BY <3>1
    <3>3. ASSUME NEW o \in offset+2..offset'-1
          PROVE  At(o) # "\n"
      <4>1. o \in offset+2..Len(source) /\ ~(offset' <= o)
        <5> HIDE DEF Ends
        <5>1. offset' \in Nat /\ offset' <= Len(source)
          BY <1>1, <3>2
        <5>2. QED
          BY <1>1, <3>3, <5>1, Offsets
      <4>2. o \notin Ends
        BY <3>1, <4>1
      <4>3. QED
        BY <4>1, <4>2
    <3>4. QED
      BY <3>2, <3>3
  <2>5. \A o \in offset..offset'-1 : o \in offset+2..offset'-1 \/ o = offset \/ o = offset + 1
    <3> HIDE DEF Ends
    <3>1. offset' \in Nat /\ offset' <= Len(source)
      BY <1>1, <2>4
    <3>2. QED
      BY <1>1, <3>1, Offsets
  <2>6. LineComment(offset, offset')
    BY <1>1, <2>1, <2>4, <2>5 DEF LineComment
  <2>7. QED
    BY <2>6 DEF Piece
<1>4. CASE SkipBlockComment
  <2>1. At(offset) = "/" /\ At(offset+1) = "*"
    BY <1>4 DEF SkipBlockComment, SkipBlockCommentFrom, Current, Peek
  <2>2. offset + 1 < Len(source)
    BY <2>1, ByteInside
  <2>3. CASE Closings(offset+2) = {}
    <3>1. offset' = Len(source)
      BY <1>4, <2>3 DEF SkipBlockComment, SkipBlockCommentFrom
    <3>2. \A o \in offset+2..Len(source)-2 : ~(At(o) = "*" /\ At(o+1) = "/")
      BY <2>3 DEF Closings
    <3>3. offset + 2 <= Len(source)
      BY <1>1, <2>2
    <3>4. OpenComment(offset)
      BY <2>1, <3>2, <3>3 DEF OpenComment
    <3>5. QED
      BY <3>1, <3>4 DEF Piece
  <2>4. CASE Closings(offset+2) # {}
    <3> DEFINE closing == Min(Closings(offset+2))
    <3>1. closing \in Closings(offset+2) /\ \A o \in Closings(offset+2) : closing <= o
      <4>1. Closings(offset+2) \in SUBSET Nat
        BY <1>1 DEF Closings
      <4>2. QED
        BY <2>4, <4>1, MinOfNaturals
    <3>2. offset' = closing + 2
      BY <1>4, <2>4 DEF SkipBlockComment, SkipBlockCommentFrom
    <3> HIDE DEF closing
    <3>3. /\ closing \in offset+2..Len(source)-2
          /\ At(closing) = "*" /\ At(closing+1) = "/"
      BY <3>1 DEF Closings
    <3>4. \A o \in offset+2..closing : (At(o) = "*" /\ At(o+1) = "/") => o = closing
      <4>1. ASSUME NEW o \in offset+2..closing, At(o) = "*", At(o+1) = "/"
            PROVE  o = closing
        <5>1. o \in Closings(offset+2)
          BY <1>1, <3>3, <4>1 DEF Closings
        <5>2. closing <= o
          BY <3>1, <5>1
        <5>3. QED
          BY <1>1, <3>3, <4>1, <5>2
      <4>2. QED
        BY <4>1
    <3>5. offset' - 2 = closing /\ offset + 4 <= offset'
      BY <1>1, <3>2, <3>3
    <3>6. ClosedComment(offset, offset')
      BY <2>1, <3>3, <3>4, <3>5 DEF ClosedComment
    <3>7. QED
      BY <3>6 DEF Piece
  <2>5. QED
    BY <2>3, <2>4
<1>5. QED
  BY <1>2, <1>3, <1>4

\* A token delivered from the frontier on closes the gap in front of it.
LEMMA DeliveryKeepsGaps ==
  ASSUME GInv, phase # "done", UNCHANGED source,
         NEW kind, NEW to \in Nat, tokens' = Append(tokens, Token(kind, Frontier, to)),
         offset' = to, phase' \in {"scan", "done"}
  PROVE  GapsAreTrivia' /\ IsTrivia(EndOfToken(Len(tokens)), Frontier)'
<1> DEFINE last == Token(kind, Frontier, to)
<1>1. last.begin = Frontier /\ last.end = to
  BY DEF Token
<1> HIDE DEF last
<1>2. /\ tokens' = Append(tokens, last) /\ tokens \in Seq(TokenType)
      /\ Frontier' = to
  BY DEF last, GInv, IInv, TypeOK, TokenType, Frontier
<1>3. /\ Len(tokens') = Len(tokens) + 1 /\ Len(tokens) \in Nat
      /\ tokens'[Len(tokens)+1] = last
      /\ \A i \in 1..Len(tokens) : tokens'[i] = tokens[i]
  BY <1>2
<1>4. \A from, middle : IsTrivia(from, middle)' <=> IsTrivia(from, middle)
  BY SameSourceSameTrivia
<1>5. \A i \in 0..Len(tokens) : EndOfToken(i)' = EndOfToken(i)
  BY <1>3 DEF EndOfToken
<1>6. ASSUME NEW i \in 1..Len(tokens')
      PROVE  IsTrivia(EndOfToken(i-1)', tokens'[i].begin)
  <2>1. EndOfToken(i-1)' = EndOfToken(i-1)
    BY <1>3, <1>5
  <2>2. CASE i \in 1..Len(tokens)
    BY <2>1, <2>2, <1>3 DEF GInv, GapsAreTrivia
  <2>3. CASE i = Len(tokens) + 1
    <3>1. i - 1 = Len(tokens) /\ tokens'[i].begin = Frontier
      BY <2>3, <1>1, <1>3
    <3>2. QED
      BY <2>1, <3>1 DEF GInv
  <2>4. QED
    BY <2>2, <2>3, <1>3
<1>7. EndOfToken(Len(tokens))' = to
  BY <1>1, <1>3 DEF EndOfToken
<1>8. GapsAreTrivia'
  BY <1>4, <1>6 DEF GapsAreTrivia
<1>9. IsTrivia(to, to)
  BY EmptyIsTrivia
<1>10. QED
  BY <1>2, <1>4, <1>7, <1>8, <1>9

LEMMA StepKeepsGInv == GInv /\ [Next]_vars => GInv'
<1> SUFFICES ASSUME GInv, [Next]_vars PROVE GInv'
  OBVIOUS
<1>1. IInv /\ IInv' /\ TypeOK
  BY StepKeepsIInv DEF GInv, IInv
<1>2. offset \in Nat /\ begin \in Nat /\ offset' \in Nat
  BY <1>1 DEF IInv, TypeOK
<1>3. ASSUME UNCHANGED <<source, tokens>>
      PROVE  GapsAreTrivia' /\ EndOfToken(Len(tokens))' = EndOfToken(Len(tokens))
  BY <1>3, SameSourceSameTrivia DEF GInv, GapsAreTrivia, EndOfToken
<1>4. CASE SkipSpace \/ SkipLineComment \/ SkipBlockComment
  <2>1. phase = "scan" /\ UNCHANGED <<source, phase, tokens>>
    BY <1>4 DEF SkipSpace, SkipLineComment, SkipBlockComment, SkipBlockCommentFrom
  <2>2. Frontier = offset /\ Frontier' = offset'
    BY <2>1 DEF Frontier
  <2>3. offset < offset'
    BY <1>1, <1>2, <1>4, <2>1, TriviaStops DEF TypeOK
  <2>4. EndOfToken(Len(tokens)) \in Nat
    <3>1. Len(tokens) \in Nat
      BY <1>1 DEF TypeOK
    <3>2. Len(tokens) # 0 => tokens[Len(tokens)].end \in Nat
      BY <1>1, <3>1, RangesOfTokens
    <3> QED
      BY <3>2 DEF EndOfToken
  <2>5. IsTrivia(EndOfToken(Len(tokens)), offset')
    BY <1>1, <1>2, <1>4, <2>1, <2>2, <2>3, <2>4, TriviaIsPiece, TriviaExtends DEF GInv
  <2>6. QED
    BY <1>1, <1>3, <2>1, <2>2, <2>5, SameSourceSameTrivia DEF GInv
<1>5. CASE BeginNumber \/ BeginLiteral \/ ContinueNumber \/ EscapeInLiteral \/ ByteOfLiteral
  <2>1. /\ phase # "done" /\ UNCHANGED <<source, tokens>> /\ Frontier' = Frontier
    BY <1>5 DEF BeginNumber, BeginLiteral, ContinueNumber, ContinueNumberWith,
                EscapeInLiteral, ByteOfLiteral, AtToken, Frontier
  <2>2. QED
    BY <1>1, <1>3, <2>1, SameSourceSameTrivia DEF GInv
<1>6. ASSUME phase # "done", UNCHANGED source, phase' \in {"scan", "done"},
             NEW kind, tokens' = Append(tokens, Token(kind, Frontier, offset'))
      PROVE  GInv'
  <2>1. GapsAreTrivia' /\ IsTrivia(EndOfToken(Len(tokens)), Frontier)'
    BY <1>2, <1>6, DeliveryKeepsGaps
  <2>2. QED
    BY <1>1, <2>1 DEF GInv
<1>7. CASE LexEndOfFile
  <2>1. /\ phase # "done" /\ phase' \in {"scan", "done"} /\ UNCHANGED source
        /\ tokens' = Append(tokens, Token("EndOfFile", Frontier, offset'))
    BY <1>7 DEF LexEndOfFile, Deliver, Frontier
  <2>2. QED
    BY <1>6, <2>1
<1>8. CASE LexIdentifierOrKeyword
  <2> DEFINE end == Min({o \in offset+1..Len(source) :
                           o = Len(source) \/ At(o) \notin IdentifierContinue})
  <2>1. /\ phase # "done" /\ phase' \in {"scan", "done"} /\ UNCHANGED source
        /\ tokens' = Append(tokens, Token(WordKind(Bytes(offset, end)), Frontier, offset'))
    BY <1>8 DEF LexIdentifierOrKeyword, AtToken, Deliver, Frontier
  <2> HIDE DEF end
  <2>2. QED
    BY <1>6, <2>1
<1>9. CASE LexPunctuation
  <2>1. /\ phase # "done" /\ phase' \in {"scan", "done"} /\ UNCHANGED source
        /\ Frontier = offset
    BY <1>9 DEF LexPunctuation, LexPunctuationUsing, AtToken, Frontier
  <2>2. CASE <<Current, Peek>> \in Pairs
    <3>1. tokens' = Append(tokens, Token(PairKind(<<Current, Peek>>), Frontier, offset'))
      BY <1>9, <2>1, <2>2 DEF LexPunctuation, LexPunctuationUsing
    <3>2. QED
      BY <1>6, <2>1, <3>1
  <2>3. CASE <<Current, Peek>> \notin Pairs
    <3> DEFINE kind == IF Current \in Singles THEN Current ELSE "Invalid"
    <3>1. tokens' = Append(tokens, Token(kind, Frontier, offset'))
      BY <1>9, <2>1, <2>3 DEF LexPunctuation, LexPunctuationUsing, Deliver
    <3> HIDE DEF kind
    <3>2. QED
      BY <1>6, <2>1, <3>1
  <2>4. QED
    BY <2>2, <2>3
<1>10. CASE EndNumber
  <2> DEFINE kind == IF seen.dot \/ seen.exponent THEN "FloatingLiteral" ELSE "IntegerLiteral"
  <2>1. /\ phase # "done" /\ phase' \in {"scan", "done"} /\ UNCHANGED source
        /\ tokens' = Append(tokens, Token(kind, Frontier, offset'))
    BY <1>10 DEF EndNumber, Deliver, Frontier
  <2> HIDE DEF kind
  <2>2. QED
    BY <1>6, <2>1
<1>11. CASE CloseLiteral \/ UnterminatedLiteral
  <2>1. /\ phase # "done" /\ phase' \in {"scan", "done"} /\ UNCHANGED source
        /\ \/ tokens' = Append(tokens, Token(LiteralKind(Quote), Frontier, offset'))
           \/ tokens' = Append(tokens, Token("Invalid", Frontier, offset'))
    BY <1>11 DEF CloseLiteral, UnterminatedLiteral, Deliver, Frontier
  <2>2. QED
    BY <1>6, <2>1
<1>12. CASE UNCHANGED vars
  <2>1. UNCHANGED <<source, tokens, phase>> /\ Frontier' = Frontier
    BY <1>12 DEF vars, Frontier
  <2>2. QED
    BY <1>1, <1>3, <2>1, SameSourceSameTrivia DEF GInv
<1>13. QED
  BY <1>4, <1>5, <1>7, <1>8, <1>9, <1>10, <1>11, <1>12 DEF Next, LexerStep, Done

(***************************************************************************)
(* Whatever the bytes of a source are, the tokens the lexer delivers are   *)
(* separated by whitespace and whole comments only: no byte of the program *)
(* is skipped.                                                             *)
(***************************************************************************)
THEOREM OnlyTriviaIsSkipped == Spec => []GapsAreTrivia
<1>1. Init => GInv
  <2> SUFFICES ASSUME Init PROVE GInv
    OBVIOUS
  <2>1. tokens = <<>> /\ Frontier = 0 /\ Len(tokens) = 0 /\ EndOfToken(0) = 0
    BY DEF Init, Frontier, EndOfToken
  <2>2. GapsAreTrivia
    BY <2>1 DEF GapsAreTrivia
  <2>3. IsTrivia(0, 0)
    BY EmptyIsTrivia
  <2>4. QED
    BY <2>1, <2>2, <2>3, InitEstablishesIInv DEF GInv
<1>2. GInv => GapsAreTrivia
  BY DEF GInv
<1>3. QED
  BY <1>1, <1>2, StepKeepsGInv, PTL DEF Spec

-----------------------------------------------------------------------------
(* Every token is a lexeme.                                                *)

\* No byte of the open literal has stopped it, and the next one is looked at.
LiteralSoFar ==
  /\ Quote \in {"\"", "'"}
  /\ \A o \in begin+1..offset-1 : ~Stops(begin, o)
  /\ offset < Len(source) => ~Escaped(begin, offset)
  /\ At(offset) = "\n" => ~(At(offset-1) = "\r" /\ Escaped(begin, offset-1))

Prefixed(first) == At(first) = "0" /\ At(first+1) \in {"x", "X"}

Markers(first) == ExponentMarkers(Prefixed(first))

SignAt(first, place) ==
  At(place) \in {"+", "-"} /\ place > first /\ At(place-1) \in Markers(first)

NumberFrom(first, place) ==
  /\ At(first) \in Digits \/ (At(first) = "." /\ At(first+1) \in Digits)
  /\ \A o \in first..place-1 : At(o) \in NumberContinue \/ SignAt(first, o)

Fractional(first, place) == \E o \in first..place-1 : At(o) \in Markers(first) \cup {"."}

\* What lex_number has seen is in the bytes, and a sign behind a marker was
\* taken with it.
NumberSoFar ==
  /\ seen.hexadecimal <=> Prefixed(begin)
  /\ NumberFrom(begin, offset)
  /\ (seen.dot \/ seen.exponent) <=> Fractional(begin, offset)
  /\ ~SignAt(begin, offset)

LInv ==
  /\ IInv
  /\ TokensAreLexemes
  /\ phase = "literal" => LiteralSoFar
  /\ phase = "number" => NumberSoFar

-----------------------------------------------------------------------------
(* Escapes.                                                                *)

LEMMA Parity ==
  ASSUME NEW n \in Nat
  PROVE  (n + 1) % 2 = 1 <=> ~(n % 2 = 1)
OBVIOUS

\* The first byte of a literal is not escaped.
LEMMA FirstIsNotEscaped ==
  ASSUME NEW first \in Nat
  PROVE  ~Escaped(first, first+1)
<1> DEFINE others == {o \in first+1..(first+1)-1 : At(o) # "\\"}
<1>1. others = {}
  OBVIOUS
<1>2. Escaped(first, first+1) <=> (((first+1) - (IF others = {} THEN first + 1 ELSE Max(others) + 1)) % 2 = 1)
  BY DEF Escaped
<1> HIDE DEF others
<1>3. Escaped(first, first+1) <=> (((first+1) - (first+1)) % 2 = 1)
  BY <1>1, <1>2
<1>4. ((first+1) - (first+1)) % 2 = 0
  OBVIOUS
<1> QED
  BY <1>3, <1>4

\* A byte is escaped by a backslash in front of it that is not escaped.
LEMMA EscapedNext ==
  ASSUME NEW first \in Nat, NEW place \in Nat, first < place
  PROVE  Escaped(first, place+1) <=> At(place) = "\\" /\ ~Escaped(first, place)
<1> DEFINE Others(p) == {o \in first+1..p-1 : At(o) # "\\"}
           Start(p) == IF Others(p) = {} THEN first + 1 ELSE Max(Others(p)) + 1
<1>1. /\ Escaped(first, place) <=> (place - Start(place)) % 2 = 1
      /\ Escaped(first, place+1) <=> ((place+1) - Start(place+1)) % 2 = 1
  BY DEF Escaped
<1>2. CASE At(place) # "\\"
  <2> DEFINE others == Others(place+1)
  <2>1. others \in SUBSET Int /\ place \in others /\ \A o \in others : o <= place
    BY <1>2
  <2>2. Start(place+1) = IF others = {} THEN first + 1 ELSE Max(others) + 1
    OBVIOUS
  <2> HIDE DEF others
  <2>3. Max(others) = place /\ others # {}
    BY <2>1, MaxIs
  <2>4. Start(place+1) = place + 1
    BY <2>2, <2>3
  <2> HIDE DEF Start
  <2>5. ~(((place+1) - Start(place+1)) % 2 = 1)
    BY <2>4
  <2> QED
    BY <1>1, <1>2, <2>5
<1>3. CASE At(place) = "\\"
  <2>1. Others(place+1) = Others(place)
    BY <1>3
  <2>2. Start(place+1) = Start(place)
    BY <2>1
  <2>3. Start(place) \in Nat /\ Start(place) <= place
    <3> DEFINE others == Others(place)
    <3>1. others \in SUBSET (0..place-1) /\ place - 1 \in Nat
      OBVIOUS
    <3>2. Start(place) = IF others = {} THEN first + 1 ELSE Max(others) + 1
      OBVIOUS
    <3> HIDE DEF others
    <3>3. others # {} => Max(others) \in others
      BY <3>1, MaxOfNaturals
    <3> HIDE DEF Start
    <3>4. CASE others = {}
      BY <3>2, <3>4
    <3>5. CASE others # {}
      <4>1. PICK last \in 0..place-1 : last = Max(others)
        BY <3>1, <3>3, <3>5
      <4>2. Start(place) = last + 1
        BY <3>2, <3>5, <4>1
      <4> QED
        BY <4>1, <4>2
    <3> QED
      BY <3>4, <3>5
  <2> HIDE DEF Start
  <2>4. PICK n \in Nat : n = place - Start(place)
    BY <2>3
  <2>5. (place+1) - Start(place+1) = n + 1
    BY <2>2, <2>3, <2>4
  <2>6. (n + 1) % 2 = 1 <=> ~(n % 2 = 1)
    BY Parity
  <2> QED
    BY <1>1, <1>3, <2>4, <2>5, <2>6
<1> QED
  BY <1>2, <1>3

-----------------------------------------------------------------------------
(* The source does not change, and what was delivered stays a lexeme.      *)

LEMMA BytesStay ==
  ASSUME UNCHANGED source
  PROVE  /\ \A place : At(place)' = At(place)
         /\ \A from, to : Bytes(from, to)' = Bytes(from, to)
  BY DEF At, Bytes

LEMMA EscapesStay ==
  ASSUME UNCHANGED source
  PROVE  /\ \A first, place : Escaped(first, place)' <=> Escaped(first, place)
         /\ \A first, place : Stops(first, place)' <=> Stops(first, place)
<1>1. \A first, place : Escaped(first, place)' <=> Escaped(first, place)
  <2> SUFFICES ASSUME NEW first, NEW place
               PROVE  Escaped(first, place)' <=> Escaped(first, place)
    OBVIOUS
  <2> DEFINE others == {o \in first+1..place-1 : At(o) # "\\"}
             start == IF others = {} THEN first + 1 ELSE Max(others) + 1
  <2>1. others' = others
    BY BytesStay
  <2>2. start' = start
    BY <2>1
  <2>3. /\ Escaped(first, place) <=> (place - start) % 2 = 1
        /\ Escaped(first, place)' <=> (place - start') % 2 = 1
    BY DEF Escaped
  <2> QED
    BY <2>2, <2>3
<1>2. \A first, place : Stops(first, place)' <=> Stops(first, place)
  BY <1>1, BytesStay DEF Stops
<1> QED
  BY <1>1, <1>2

LEMMA LexemesStay ==
  ASSUME UNCHANGED source
  PROVE  /\ \A token : IsUnterminated(token)' <=> IsUnterminated(token)
         /\ \A token : IsLexeme(token)' <=> IsLexeme(token)
<1>1. \A token : IsLiteral(token)' <=> IsLiteral(token)
  BY BytesStay, EscapesStay DEF IsLiteral
<1>2. \A token : IsUnterminated(token)' <=> IsUnterminated(token)
  BY BytesStay, EscapesStay DEF IsUnterminated
<1>3. \A token : IsWord(token)' <=> IsWord(token)
  BY BytesStay DEF IsWord
<1>4. \A token : IsNumber(token)' <=> IsNumber(token)
  BY BytesStay DEF IsNumber
<1>5. \A token : IsPunctuation(token)' <=> IsPunctuation(token)
  <2> SUFFICES ASSUME NEW token
               PROVE  IsPunctuation(token)' <=> IsPunctuation(token)
    OBVIOUS
  <2>1. /\ At(token.begin)' = At(token.begin)
        /\ At(token.end)' = At(token.end)
    BY BytesStay
  <2> QED
    BY <2>1 DEF IsPunctuation
<1> QED
  BY <1>1, <1>2, <1>3, <1>4, <1>5 DEF IsLexeme

LEMMA TokensAreSequence ==
  ASSUME TypeOK
  PROVE  /\ tokens \in Seq(TokenType) /\ Len(tokens) \in Nat
         /\ \A last \in TokenType :
              /\ Len(Append(tokens, last)) = Len(tokens) + 1
              /\ \A i \in 1..Len(tokens) : Append(tokens, last)[i] = tokens[i]
              /\ Append(tokens, last)[Len(tokens)+1] = last
<1>1. tokens \in Seq(TokenType)
  BY DEF TypeOK, TokenType
<1> QED
  BY <1>1

LEMMA DeliveryOfLexeme ==
  ASSUME TypeOK, TokensAreLexemes, UNCHANGED source,
         NEW kind \in Kinds, NEW from \in Nat, NEW to \in 0..Len(source), from <= to,
         tokens' = Append(tokens, Token(kind, from, to)),
         IsLexeme(Token(kind, from, to))
  PROVE  TokensAreLexemes'
<1> DEFINE last == Token(kind, from, to)
<1>1. last \in TokenType
  BY TokenIsTyped DEF TypeOK
<1>2. last.text = Bytes(last.begin, last.end)
  BY DEF Token
<1> HIDE DEF last
<1>3. /\ Len(tokens') = Len(tokens) + 1 /\ Len(tokens) \in Nat
      /\ \A i \in 1..Len(tokens) : tokens'[i] = tokens[i]
      /\ tokens'[Len(tokens)+1] = last
  BY <1>1, TokensAreSequence DEF last
<1>4. ASSUME NEW i \in 1..Len(tokens')
      PROVE  /\ tokens'[i].text = Bytes(tokens'[i].begin, tokens'[i].end)
             /\ IsLexeme(tokens'[i])
  <2>1. CASE i \in 1..Len(tokens)
    BY <1>3, <2>1 DEF TokensAreLexemes
  <2>2. CASE i = Len(tokens) + 1
    BY <1>2, <1>3, <2>2 DEF last
  <2> QED
    BY <1>3, <2>1, <2>2
<1> QED
  BY <1>4, BytesStay, LexemesStay DEF TokensAreLexemes

LEMMA LexemesKept ==
  ASSUME TokensAreLexemes, UNCHANGED <<source, tokens>>
  PROVE  TokensAreLexemes'
  BY BytesStay, LexemesStay DEF TokensAreLexemes

-----------------------------------------------------------------------------
(* Literals.                                                               *)

LEMMA BeginLiteralKeeps ==
  ASSUME LInv, BeginLiteral
  PROVE  LiteralSoFar'
<1>1. offset \in Nat
  BY DEF LInv, IInv, TypeOK
<1>2. /\ begin' = offset /\ offset' = offset + 1 /\ UNCHANGED source
      /\ At(offset) \in {"\"", "'"}
  BY DEF BeginLiteral, Current
<1>3. \A place : At(place)' = At(place)
  BY <1>2, BytesStay
<1>4. (Quote \in {"\"", "'"})'
  BY <1>2, <1>3 DEF Quote
<1>5. (\A o \in begin+1..offset-1 : ~Stops(begin, o))'
  <2>1. \A o \in offset+1..(offset+1)-1 : FALSE
    BY <1>1
  <2> QED
    BY <1>2, <2>1
<1>6. ~Escaped(begin, offset)'
  <2>1. PICK first \in Nat : first = offset
    BY <1>1
  <2>2. ~Escaped(first, first+1)
    BY FirstIsNotEscaped
  <2>3. ~Escaped(first, first+1)'
    BY <1>2, <2>2, EscapesStay
  <2>4. begin' = first /\ offset' = first + 1
    BY <1>2, <2>1
  <2> QED
    BY <2>3, <2>4
<1>7. (At(offset-1) # "\r")'
  <2>1. (offset + 1) - 1 = offset
    BY <1>1
  <2> QED
    BY <1>2, <1>3, <2>1
<1> QED
  BY <1>4, <1>5, <1>6, <1>7 DEF LiteralSoFar

\* The facts the steps inside a literal start from.
LEMMA InLiteral ==
  ASSUME LInv, phase = "literal"
  PROVE  /\ offset \in Nat /\ begin \in Nat /\ begin < offset
         /\ Len(source) \in Nat /\ offset <= Len(source)
         /\ LiteralSoFar
<1>1. Len(source) \in Nat
  BY DEF LInv, IInv, TypeOK
<1> QED
  BY <1>1 DEF LInv, IInv, TypeOK

\* Offsets split where the literal goes on.
LEMMA OffsetsSplit ==
  ASSUME NEW a \in Nat, NEW b \in Nat, NEW c \in Nat
  PROVE  \A o \in a+1..c-1 : o \in a+1..b-1 \/ o \in b..c-1
OBVIOUS

\* The bytes up to the new offset do not stop the literal either.
LEMMA LiteralGoesOn ==
  ASSUME LiteralSoFar, UNCHANGED <<source, begin>>, begin \in Nat, offset \in Nat,
         NEW to \in Nat, offset' = to,
         \A o \in offset..to-1 : ~Stops(begin, o),
         to < Len(source) => ~Escaped(begin, to),
         At(to) = "\n" => ~(At(to-1) = "\r" /\ Escaped(begin, to-1))
  PROVE  LiteralSoFar'
<1>1. \A place : At(place)' = At(place)
  BY BytesStay
<1>2. \A place : Escaped(begin, place)' <=> Escaped(begin, place)
  BY EscapesStay
<1>3. \A place : Stops(begin, place)' <=> Stops(begin, place)
  BY EscapesStay
<1>4. (Quote \in {"\"", "'"})'
  BY <1>1 DEF Quote, LiteralSoFar
<1>5. (\A o \in begin+1..offset-1 : ~Stops(begin, o))'
  <2>1. \A o \in begin+1..to-1 : ~Stops(begin, o)
    BY OffsetsSplit DEF LiteralSoFar
  <2> QED
    BY <1>3, <2>1
<1>6. (offset < Len(source) => ~Escaped(begin, offset))'
  <2>1. ~Escaped(begin, to)' \/ ~(to < Len(source))
    BY <1>2
  <2> QED
    BY <2>1
<1>7. (At(offset) = "\n" => ~(At(offset-1) = "\r" /\ Escaped(begin, offset-1)))'
  <2>1. (At(to) = "\n")' => ~((At(to-1) = "\r")' /\ Escaped(begin, to-1)')
    BY <1>1, <1>2
  <2> QED
    BY <2>1
<1> QED
  BY <1>4, <1>5, <1>6, <1>7 DEF LiteralSoFar

LEMMA ByteOfLiteralKeeps ==
  ASSUME LInv, ByteOfLiteral
  PROVE  LiteralSoFar'
<1>1. /\ phase = "literal" /\ UNCHANGED <<source, begin>> /\ offset' = offset + 1
      /\ At(offset) \notin {At(begin), "\\", "\n", "\r"}
  BY DEF ByteOfLiteral, Current, Quote
<1>2. /\ offset \in Nat /\ begin \in Nat /\ begin < offset /\ LiteralSoFar
  BY <1>1, InLiteral
<1>3. \A o \in offset..(offset+1)-1 : o = offset
  BY <1>2
<1>4. ~Stops(begin, offset)
  BY <1>1 DEF Stops
<1>5. ~Escaped(begin, offset+1)
  BY <1>1, <1>2, EscapedNext
<1>6. At((offset+1)-1) # "\r"
  <2>1. (offset+1)-1 = offset
    BY <1>2
  <2> QED
    BY <1>1, <2>1
<1>7. offset + 1 \in Nat
  BY <1>2
<1>8. \A o \in offset..(offset+1)-1 : ~Stops(begin, o)
  BY <1>3, <1>4
<1> QED
  BY <1>1, <1>2, <1>5, <1>6, <1>7, <1>8, LiteralGoesOn

LEMMA TwoOffsets ==
  ASSUME NEW a \in Nat
  PROVE  /\ \A o \in a..(a+1)-1 : o = a
         /\ \A o \in a..(a+2)-1 : o = a \/ o = a + 1
         /\ \A o \in a..(a+3)-1 : o = a \/ o = a + 1 \/ o = a + 2
         /\ (a+2)-1 = a + 1 /\ (a+3)-1 = a + 2 /\ (a+1)+1 = a + 2 /\ (a+2)+1 = a + 3
         /\ (a+1)-1 = a
         /\ a + 1 \in Nat /\ a + 2 \in Nat /\ a + 3 \in Nat
OBVIOUS

LEMMA EscapeInLiteralKeeps ==
  ASSUME LInv, EscapeInLiteral
  PROVE  LiteralSoFar'
<1>1. /\ phase = "literal" /\ UNCHANGED <<source, begin>> /\ ~AtEnd /\ At(offset) = "\\"
      /\ offset' = offset + (IF offset+1 = Len(source) THEN 1
                             ELSE IF At(offset+1) = "\r" /\ At(offset+2) = "\n" THEN 3 ELSE 2)
  BY DEF EscapeInLiteral, Current, Peek
<1>2. /\ offset \in Nat /\ begin \in Nat /\ begin < offset /\ Len(source) \in Nat
      /\ LiteralSoFar /\ offset < Len(source)
  BY <1>1, InLiteral DEF AtEnd
<1>3. At(begin) \in {"\"", "'"}
  BY <1>2 DEF LiteralSoFar, Quote
<1>4. ~Stops(begin, offset)
  BY <1>1, <1>3 DEF Stops
<1>5. Escaped(begin, offset+1)
  BY <1>1, <1>2, EscapedNext DEF LiteralSoFar
<1>6. CASE offset + 1 = Len(source)
  <2> DEFINE to == offset + 1
  <2>1. offset' = to /\ to \in Nat
    BY <1>1, <1>2, <1>6
  <2>2. \A o \in offset..to-1 : ~Stops(begin, o)
    BY <1>2, <1>4, TwoOffsets
  <2>3. ~(to < Len(source))
    BY <1>2, <1>6
  <2>4. At(to) # "\n"
    BY <2>3 DEF At
  <2> HIDE DEF to
  <2> QED
    BY <1>1, <1>2, <2>1, <2>2, <2>3, <2>4, LiteralGoesOn
<1>7. CASE offset + 1 # Len(source) /\ At(offset+1) = "\r" /\ At(offset+2) = "\n"
  <2> DEFINE to == offset + 3
  <2>1. offset' = to
    BY <1>1, <1>7
  <2>2. to \in Nat /\ offset + 2 \in Nat /\ begin < offset + 2
        /\ (offset+2) + 1 = to /\ to - 1 = offset + 2 /\ (offset+2)-1 = offset + 1
    BY <1>2
  <2>3. ~Stops(begin, offset+1)
    BY <1>3, <1>5, <1>7 DEF Stops
  <2>4. ~Stops(begin, offset+2)
    BY <1>3, <1>5, <1>7, <2>2 DEF Stops
  <2>5. \A o \in offset..to-1 : ~Stops(begin, o)
    BY <1>2, <1>4, <2>3, <2>4, TwoOffsets
  <2>6. ~Escaped(begin, to)
    <3>1. Escaped(begin, (offset+2)+1) => At(offset+2) = "\\"
      BY <1>2, <2>2, EscapedNext
    <3> QED
      BY <1>7, <2>2, <3>1
  <2>7. At(to-1) # "\r"
    BY <1>7, <2>2
  <2> HIDE DEF to
  <2> QED
    BY <1>1, <1>2, <2>1, <2>2, <2>5, <2>6, <2>7, LiteralGoesOn
<1>8. CASE offset + 1 # Len(source) /\ ~(At(offset+1) = "\r" /\ At(offset+2) = "\n")
  <2> DEFINE to == offset + 2
  <2>1. offset' = to
    BY <1>1, <1>8
  <2>2. to \in Nat /\ offset + 1 \in Nat /\ begin < offset + 1
        /\ (offset+1) + 1 = to /\ to - 1 = offset + 1
    BY <1>2
  <2>3. ~Stops(begin, offset+1)
    <3>1. (offset+1)-1 = offset
      BY <1>2
    <3> QED
      BY <1>1, <1>5, <3>1 DEF Stops
  <2>4. \A o \in offset..to-1 : ~Stops(begin, o)
    BY <1>2, <1>4, <2>3, TwoOffsets
  <2>5. ~Escaped(begin, to)
    <3>1. Escaped(begin, (offset+1)+1) => ~Escaped(begin, offset+1)
      BY <1>2, <2>2, EscapedNext
    <3> QED
      BY <1>5, <2>2, <3>1
  <2>6. At(to) = "\n" => At(to-1) # "\r"
    BY <1>8, <2>2
  <2> HIDE DEF to
  <2> QED
    BY <1>1, <1>2, <2>1, <2>2, <2>4, <2>5, <2>6, LiteralGoesOn
<1> QED
  BY <1>6, <1>7, <1>8

LEMMA KindsOfLexemes ==
  /\ \A quote \in {"\"", "'"} : LiteralKind(quote) \in {"StringLiteral", "CharacterLiteral"}
  /\ \A text : WordKind(text) \in Keywords \cup {"Identifier"}
  /\ "Invalid" \notin {"EndOfFile", "StringLiteral", "CharacterLiteral", "IntegerLiteral",
                       "FloatingLiteral"} \cup (Keywords \cup {"Identifier"})
  /\ Singles \cap ({"EndOfFile", "StringLiteral", "CharacterLiteral", "IntegerLiteral",
                    "FloatingLiteral"} \cup (Keywords \cup {"Identifier"})) = {}
  /\ \A pair \in Pairs :
       PairKind(pair) \notin {"EndOfFile", "StringLiteral", "CharacterLiteral", "IntegerLiteral",
                              "FloatingLiteral"} \cup (Keywords \cup {"Identifier"})
<1>1. \A quote \in {"\"", "'"} : LiteralKind(quote) \in {"StringLiteral", "CharacterLiteral"}
  BY DEF LiteralKind
<1>2. \A text : WordKind(text) \in Keywords \cup {"Identifier"}
  BY DEF WordKind, Keywords
<1>3. "Invalid" \notin {"EndOfFile", "StringLiteral", "CharacterLiteral", "IntegerLiteral",
                        "FloatingLiteral"} \cup (Keywords \cup {"Identifier"})
  BY DEF Keywords
<1>4. Singles \cap ({"EndOfFile", "StringLiteral", "CharacterLiteral", "IntegerLiteral",
                     "FloatingLiteral"} \cup (Keywords \cup {"Identifier"})) = {}
  BY DEF Singles, Keywords
<1>5. \A pair \in Pairs :
        PairKind(pair) \notin {"EndOfFile", "StringLiteral", "CharacterLiteral", "IntegerLiteral",
                               "FloatingLiteral"} \cup (Keywords \cup {"Identifier"})
  BY DEF Pairs, PairKind, Keywords
<1> QED
  BY <1>1, <1>2, <1>3, <1>4, <1>5

LEMMA LexemeOfKind ==
  ASSUME NEW token
  PROVE  /\ token.kind = "EndOfFile" /\ token.begin = Len(source) => IsLexeme(token)
         /\ token.kind \in {"StringLiteral", "CharacterLiteral"} /\ IsLiteral(token) => IsLexeme(token)
         /\ token.kind \in {"IntegerLiteral", "FloatingLiteral"} /\ IsNumber(token) => IsLexeme(token)
         /\ token.kind \in Keywords \cup {"Identifier"} /\ IsWord(token) => IsLexeme(token)
         /\ (/\ token.kind \notin {"EndOfFile", "StringLiteral", "CharacterLiteral", "IntegerLiteral",
                                   "FloatingLiteral"} \cup (Keywords \cup {"Identifier"})
             /\ IsUnterminated(token) \/ IsPunctuation(token))
            => IsLexeme(token)
<1>1. token.kind = "EndOfFile" /\ token.begin = Len(source) => IsLexeme(token)
  BY DEF IsLexeme, Keywords
<1>2. token.kind \in {"StringLiteral", "CharacterLiteral"} /\ IsLiteral(token) => IsLexeme(token)
  BY DEF IsLexeme, Keywords
<1>3. token.kind \in {"IntegerLiteral", "FloatingLiteral"} /\ IsNumber(token) => IsLexeme(token)
  BY DEF IsLexeme, Keywords
<1>4. token.kind \in Keywords \cup {"Identifier"} /\ IsWord(token) => IsLexeme(token)
  BY DEF IsLexeme, Keywords
<1>5. (/\ token.kind \notin {"EndOfFile", "StringLiteral", "CharacterLiteral", "IntegerLiteral",
                             "FloatingLiteral"} \cup (Keywords \cup {"Identifier"})
       /\ IsUnterminated(token) \/ IsPunctuation(token))
      => IsLexeme(token)
  BY DEF IsLexeme
<1> QED
  BY <1>1, <1>2, <1>3, <1>4, <1>5

LEMMA ClosedIsLexeme ==
  ASSUME LInv, CloseLiteral
  PROVE  IsLexeme(Token(LiteralKind(Quote), begin, offset+1))
<1> DEFINE last == Token(LiteralKind(Quote), begin, offset+1)
<1>1. /\ phase = "literal" /\ ~AtEnd /\ At(offset) = At(begin)
  BY DEF CloseLiteral, Current, Quote
<1>2. /\ offset \in Nat /\ begin \in Nat /\ begin < offset /\ Len(source) \in Nat
      /\ LiteralSoFar /\ offset < Len(source)
  BY <1>1, InLiteral DEF AtEnd
<1>3. last.begin = begin /\ last.end = offset + 1 /\ last.kind = LiteralKind(At(begin))
  BY DEF Token, Quote
<1>4. last.kind \in {"StringLiteral", "CharacterLiteral"}
  BY <1>2, <1>3, KindsOfLexemes DEF LiteralSoFar, Quote
<1> HIDE DEF last
<1>5. Stops(begin, offset)
  BY <1>1, <1>2 DEF Stops, LiteralSoFar
<1>6. \A o \in begin+1..(offset+1)-1 : Stops(begin, o) <=> o = (offset+1)-1
  <2>1. \A o \in begin+1..(offset+1)-1 : o \in begin+1..offset-1 \/ o = offset
    BY <1>2
  <2>2. (offset+1)-1 = offset /\ \A o \in begin+1..offset-1 : o # offset
    BY <1>2
  <2>3. \A o \in begin+1..offset-1 : ~Stops(begin, o)
    BY <1>2 DEF LiteralSoFar
  <2> QED
    BY <1>5, <2>1, <2>2, <2>3
<1>7. IsLiteral(last)
  <2>1. offset + 1 >= begin + 2 /\ (offset+1)-1 = offset
    BY <1>2
  <2> QED
    BY <1>1, <1>3, <1>6, <2>1 DEF IsLiteral
<1> QED
  BY <1>4, <1>7, LexemeOfKind DEF last

LEMMA UnterminatedIsUnterminated ==
  ASSUME LInv, UnterminatedLiteral
  PROVE  IsUnterminated(Token("Invalid", begin, offset))
<1> DEFINE last == Token("Invalid", begin, offset)
<1>1. phase = "literal" /\ (AtEnd \/ At(offset) \in {"\n", "\r"})
  BY DEF UnterminatedLiteral, Current
<1>2. /\ offset \in Nat /\ begin \in Nat /\ begin < offset /\ Len(source) \in Nat
      /\ LiteralSoFar /\ offset <= Len(source)
  BY <1>1, InLiteral
<1>3. last.begin = begin /\ last.end = offset /\ last.kind = "Invalid"
  BY DEF Token
<1> HIDE DEF last
<1>4. offset = Len(source) \/ (At(offset) \in {"\n", "\r"} /\ Stops(begin, offset))
  <2>1. CASE AtEnd
    BY <1>2, <2>1 DEF AtEnd
  <2>2. CASE ~AtEnd
    <3>1. ~Escaped(begin, offset)
      <4>1. offset < Len(source)
        BY <1>2, <2>2 DEF AtEnd
      <4> QED
        BY <1>2, <4>1 DEF LiteralSoFar
    <3> QED
      BY <1>1, <1>2, <2>2, <3>1 DEF Stops, LiteralSoFar
  <2> QED
    BY <2>1, <2>2
<1>5. At(begin) \in {"\"", "'"} /\ \A o \in begin+1..offset-1 : ~Stops(begin, o)
  BY <1>2 DEF LiteralSoFar, Quote
<1>6. IsUnterminated(last)
  BY <1>3, <1>4, <1>5 DEF IsUnterminated
<1> QED
  BY <1>6 DEF last

LEMMA InvalidIsLexeme ==
  ASSUME NEW token, token.kind = "Invalid", IsUnterminated(token) \/ IsPunctuation(token)
  PROVE  IsLexeme(token)
  BY KindsOfLexemes, LexemeOfKind

LEMMA EndOfFileIsLexeme ==
  ASSUME LInv, LexEndOfFile
  PROVE  IsLexeme(Token("EndOfFile", offset, offset))
<1>1. offset = Len(source)
  <2>1. offset \in Nat /\ Len(source) \in Nat /\ offset <= Len(source)
    <3>1. Len(source) \in Nat
      BY DEF LInv, IInv, TypeOK
    <3> QED
      BY <3>1 DEF LInv, IInv, TypeOK
  <2> QED
    BY <2>1 DEF LexEndOfFile, AtEnd
<1> QED
  BY <1>1, LexemeOfKind DEF Token

\* The bytes of a range: the first of them, and one or two of them.
LEMMA BytesAre ==
  ASSUME source \in Seq(STRING), NEW from \in Nat, NEW to \in 0..Len(source), from < to
  PROVE  /\ Bytes(from, to) \in Seq(STRING) /\ Len(Bytes(from, to)) = to - from
         /\ Bytes(from, to)[1] = At(from)
         /\ to = from + 2 => Bytes(from, to) = <<At(from), At(from+1)>>
<1>1. Len(source) \in Nat
  OBVIOUS
<1>2. /\ Bytes(from, to) \in Seq(STRING) /\ Len(Bytes(from, to)) = to - from
      /\ \A i \in 1..to - from : Bytes(from, to)[i] = source[from + i]
  <2>1. /\ Bytes(from, to) \in Seq(STRING)
    BY DEF Bytes
  <2>2. from + 1 \in Int /\ to \in Int
    OBVIOUS
  <2>3. Len(Bytes(from, to)) = to - from
    BY <1>1 DEF Bytes
  <2>4. \A i \in 1..to - from : Bytes(from, to)[i] = source[from + i]
    BY <1>1 DEF Bytes
  <2> QED
    BY <2>1, <2>3, <2>4
<1>3. At(from) = source[from + 1] /\ (from + 1 < to => At(from+1) = source[from + 2])
  BY <1>1 DEF At
<1>4. Bytes(from, to)[1] = At(from)
  BY <1>1, <1>2, <1>3
<1>5. ASSUME to = from + 2
      PROVE  Bytes(from, to) = <<At(from), At(from+1)>>
  <2>1. Len(Bytes(from, to)) = 2 /\ Bytes(from, to)[1] = At(from) /\ Bytes(from, to)[2] = At(from+1)
    BY <1>1, <1>2, <1>3, <1>5
  <2> DEFINE bytes == Bytes(from, to)
             pair == <<At(from), At(from+1)>>
  <2>2. Len(pair) = 2 /\ pair[1] = At(from) /\ pair[2] = At(from+1) /\ pair \in Seq({At(from), At(from+1)})
    OBVIOUS
  <2>3. bytes \in Seq(STRING)
    BY <1>2
  <2>4. Len(bytes) = Len(pair) /\ \A i \in 1..2 : bytes[i] = pair[i]
    BY <2>1, <2>2
  <2> HIDE DEF bytes, pair
  <2>5. bytes = pair
    BY <2>2, <2>3, <2>4, SeqEqual
  <2> QED
    BY <2>5 DEF bytes, pair
<1> QED
  BY <1>2, <1>4, <1>5

-----------------------------------------------------------------------------
(* Numbers.                                                                *)

LEMMA MarkersAre ==
  ASSUME NEW first
  PROVE  /\ Markers(first) \subseteq NumberContinue \ {"+", "-", "."}
         /\ Prefixed(first) => "x" \notin Markers(first) /\ "X" \notin Markers(first)
         /\ Markers(first) \cap Digits = {}
         /\ Digits \subseteq NumberContinue /\ "." \in NumberContinue
         /\ {"+", "-", "NUL"} \cap NumberContinue = {} /\ {"x", "X"} \subseteq NumberContinue
<1>1. Markers(first) \in {{"p", "P"}, {"e", "E"}} /\ (Prefixed(first) => Markers(first) = {"p", "P"})
  BY DEF Markers, ExponentMarkers
<1>2. Markers(first) \subseteq NumberContinue
  <2>1. {"p", "P", "e", "E"} \subseteq Letters
    BY DEF Letters
  <2>2. Letters \subseteq NumberContinue
    BY DEF NumberContinue, IdentifierContinue, IdentifierStart
  <2>3. Markers(first) \subseteq {"p", "P", "e", "E"}
    BY <1>1
  <2> QED
    BY <2>1, <2>2, <2>3
<1>3. Markers(first) \cap Digits = {}
  BY <1>1 DEF Digits
<1>4. Digits \subseteq NumberContinue /\ "." \in NumberContinue
  BY DEF NumberContinue, IdentifierContinue
<1>5. {"+", "-", "NUL"} \cap NumberContinue = {}
  BY DEF NumberContinue, IdentifierContinue, IdentifierStart, Letters, Digits
<1>6. {"x", "X"} \subseteq NumberContinue
  BY DEF NumberContinue, IdentifierContinue, IdentifierStart, Letters
<1>7. "+" \notin Markers(first) /\ "-" \notin Markers(first) /\ "." \notin Markers(first)
  BY <1>1
<1>8. Markers(first) \subseteq NumberContinue \ {"+", "-", "."}
  BY <1>2, <1>7
<1>9. Prefixed(first) => "x" \notin Markers(first) /\ "X" \notin Markers(first)
  BY <1>1
<1> QED
  BY <1>3, <1>4, <1>5, <1>6, <1>8, <1>9

LEMMA NumbersStay ==
  ASSUME UNCHANGED source
  PROVE  /\ \A first : Prefixed(first)' <=> Prefixed(first)
         /\ \A first : Markers(first)' = Markers(first)
         /\ \A first, place : SignAt(first, place)' <=> SignAt(first, place)
         /\ \A first, place : NumberFrom(first, place)' <=> NumberFrom(first, place)
         /\ \A first, place : Fractional(first, place)' <=> Fractional(first, place)
<1>1. \A first : Prefixed(first)' <=> Prefixed(first)
  BY BytesStay DEF Prefixed
<1>2. \A first : Markers(first)' = Markers(first)
  BY <1>1 DEF Markers, ExponentMarkers
<1>3. \A first, place : SignAt(first, place)' <=> SignAt(first, place)
  BY <1>2, BytesStay DEF SignAt
<1>4. \A first, place : NumberFrom(first, place)' <=> NumberFrom(first, place)
  BY <1>3, BytesStay DEF NumberFrom
<1>5. \A first, place : Fractional(first, place)' <=> Fractional(first, place)
  BY <1>2, BytesStay DEF Fractional
<1> QED
  BY <1>1, <1>2, <1>3, <1>4, <1>5

\* What NumberSoFar says of the bytes up to a place.
LEMMA NumberUpTo ==
  ASSUME UNCHANGED source, NEW first, NEW to, begin' = first, offset' = to,
         seen'.hexadecimal <=> Prefixed(first), NumberFrom(first, to),
         (seen'.dot \/ seen'.exponent) <=> Fractional(first, to), ~SignAt(first, to)
  PROVE  NumberSoFar'
<1>1. /\ Prefixed(first)' <=> Prefixed(first)
      /\ NumberFrom(first, to)' <=> NumberFrom(first, to)
      /\ Fractional(first, to)' <=> Fractional(first, to)
      /\ SignAt(first, to)' <=> SignAt(first, to)
  BY NumbersStay
<1> QED
  BY <1>1 DEF NumberSoFar

LEMMA BeginNumberKeeps ==
  ASSUME LInv, BeginNumber
  PROVE  NumberSoFar'
<1>1. offset \in Nat /\ UNCHANGED source
  BY DEF LInv, IInv, TypeOK, BeginNumber
<1>2. PICK first \in Nat : first = offset
  BY <1>1
<1>3. /\ begin' = first
      /\ offset' = first + (IF Prefixed(first) THEN 2 ELSE 1)
      /\ seen' = [hexadecimal |-> Prefixed(first), dot |-> At(first) = ".", exponent |-> FALSE]
      /\ At(first) \in Digits \/ (At(first) = "." /\ At(first+1) \in Digits)
  BY <1>2 DEF BeginNumber, AtNumber, Prefixed, Current, Peek
<1>4. /\ seen'.hexadecimal <=> Prefixed(first)
      /\ (seen'.dot \/ seen'.exponent) <=> At(first) = "."
  BY <1>3
<1>5. At(first) \in NumberContinue /\ At(first) \notin Markers(first)
  BY <1>3, MarkersAre
<1>6. CASE Prefixed(first)
  <2> DEFINE to == first + 2
  <2>1. At(first) = "0" /\ At(first+1) \in {"x", "X"}
    BY <1>6 DEF Prefixed
  <2>2. \A o \in first..to-1 : o = first \/ o = first + 1
    BY TwoOffsets
  <2>3. first \in first..to-1 /\ to - 1 = first + 1
    OBVIOUS
  <2>4. NumberFrom(first, to)
    BY <1>3, <1>5, <2>1, <2>2, MarkersAre DEF NumberFrom
  <2>5. ~Fractional(first, to)
    BY <1>5, <1>6, <2>1, <2>2, MarkersAre DEF Fractional
  <2>6. ~SignAt(first, to)
    BY <1>6, <2>1, <2>3, MarkersAre DEF SignAt
  <2>7. offset' = to /\ At(first) # "."
    BY <1>3, <1>6, <2>1
  <2> HIDE DEF to
  <2> QED
    BY <1>1, <1>3, <1>4, <2>4, <2>5, <2>6, <2>7, NumberUpTo
<1>7. CASE ~Prefixed(first)
  <2> DEFINE to == first + 1
  <2>1. \A o \in first..to-1 : o = first
    BY TwoOffsets
  <2>2. first \in first..to-1 /\ to - 1 = first
    OBVIOUS
  <2>3. NumberFrom(first, to)
    BY <1>3, <1>5, <2>1 DEF NumberFrom
  <2>4. Fractional(first, to) <=> At(first) = "."
    BY <1>5, <2>1, <2>2 DEF Fractional
  <2>5. ~SignAt(first, to)
    BY <1>5, <2>2 DEF SignAt
  <2>6. offset' = to
    BY <1>3, <1>7
  <2> HIDE DEF to
  <2> QED
    BY <1>1, <1>3, <1>4, <2>3, <2>4, <2>5, <2>6, NumberUpTo
<1> QED
  BY <1>6, <1>7

LEMMA InNumber ==
  ASSUME LInv, phase = "number"
  PROVE  /\ offset \in Nat /\ begin \in Nat /\ begin < offset
         /\ Len(source) \in Nat /\ offset <= Len(source)
         /\ NumberSoFar
         /\ seen \in [hexadecimal : BOOLEAN, dot : BOOLEAN, exponent : BOOLEAN]
<1>1. Len(source) \in Nat
  BY DEF LInv, IInv, TypeOK
<1> QED
  BY <1>1 DEF LInv, IInv, TypeOK

LEMMA NumberExtends ==
  ASSUME NEW first \in Nat, NEW place \in Nat, first < place, NumberFrom(first, place),
         At(place) \in NumberContinue \/ SignAt(first, place)
  PROVE  /\ NumberFrom(first, place+1)
         /\ Fractional(first, place+1) <=>
              Fractional(first, place) \/ At(place) \in Markers(first) \cup {"."}
<1>1. /\ \A o \in first..(place+1)-1 : o \in first..place-1 \/ o = place
      /\ \A o \in first..place-1 : o \in first..(place+1)-1
      /\ place \in first..(place+1)-1
  OBVIOUS
<1>2. NumberFrom(first, place+1)
  BY <1>1 DEF NumberFrom
<1>3. Fractional(first, place+1) <=>
        Fractional(first, place) \/ At(place) \in Markers(first) \cup {"."}
  BY <1>1 DEF Fractional
<1> QED
  BY <1>2, <1>3

LEMMA ContinueNumberKeeps ==
  ASSUME LInv, ContinueNumber
  PROVE  NumberSoFar'
<1>1. phase = "number" /\ UNCHANGED <<source, begin>>
  BY DEF ContinueNumber, ContinueNumberWith
<1>2. /\ offset \in Nat /\ begin \in Nat /\ begin < offset /\ NumberSoFar
      /\ seen \in [hexadecimal : BOOLEAN, dot : BOOLEAN, exponent : BOOLEAN]
  BY <1>1, InNumber
<1>3. PICK first \in Nat : first = begin
  BY <1>2
<1>4. PICK place \in Nat : place = offset
  BY <1>2
<1>5. ExponentMarkers(seen.hexadecimal) = Markers(first)
  BY <1>2, <1>3 DEF NumberSoFar, Markers, ExponentMarkers
<1>6. /\ At(place) \in NumberContinue
      /\ seen' = [seen EXCEPT !.dot = @ \/ At(place) = ".",
                              !.exponent = @ \/ At(place) \in Markers(first)]
      /\ offset' = place + (IF At(place) \in Markers(first) /\ At(place+1) \in {"+", "-"}
                            THEN 2 ELSE 1)
  BY <1>4, <1>5 DEF ContinueNumber, ContinueNumberWith, Current, Peek
<1>7. /\ seen'.hexadecimal <=> Prefixed(first)
      /\ (seen'.dot \/ seen'.exponent) <=>
           (seen.dot \/ seen.exponent) \/ At(place) \in Markers(first) \cup {"."}
  BY <1>2, <1>3, <1>6 DEF NumberSoFar
<1>8. /\ NumberFrom(first, place) /\ first < place /\ begin' = first
      /\ (seen.dot \/ seen.exponent) <=> Fractional(first, place)
  BY <1>1, <1>2, <1>3, <1>4 DEF NumberSoFar
<1>9. /\ NumberFrom(first, place+1)
      /\ (seen'.dot \/ seen'.exponent) <=> Fractional(first, place+1)
  BY <1>6, <1>7, <1>8, NumberExtends
<1>10. (place + 1) - 1 = place /\ (place + 2) - 1 = place + 1 /\ (place + 1) + 1 = place + 2
       /\ place + 1 > first /\ place + 1 \in Nat /\ first < place + 1
  BY <1>8
<1>11. CASE At(place) \in Markers(first) /\ At(place+1) \in {"+", "-"}
  <2>1. SignAt(first, place+1)
    BY <1>10, <1>11 DEF SignAt
  <2>2. At(place+1) \notin Markers(first) \cup {"."}
    BY <1>11, MarkersAre
  <2>3. /\ NumberFrom(first, (place+1)+1)
        /\ Fractional(first, (place+1)+1) <=> Fractional(first, place+1)
    BY <1>9, <1>10, <2>1, <2>2, NumberExtends
  <2> DEFINE to == place + 2
  <2>4. ~SignAt(first, to)
    BY <1>10, <2>2 DEF SignAt
  <2>5. NumberFrom(first, to) /\ ((seen'.dot \/ seen'.exponent) <=> Fractional(first, to))
    BY <1>9, <1>10, <2>3
  <2>6. offset' = to
    BY <1>6, <1>11
  <2> HIDE DEF to
  <2> QED
    BY <1>1, <1>7, <1>8, <2>4, <2>5, <2>6, NumberUpTo
<1>12. CASE ~(At(place) \in Markers(first) /\ At(place+1) \in {"+", "-"})
  <2> DEFINE to == place + 1
  <2>1. ~SignAt(first, to)
    BY <1>10, <1>12 DEF SignAt
  <2>2. offset' = to
    BY <1>6, <1>12
  <2> HIDE DEF to
  <2>3. NumberFrom(first, to) /\ ((seen'.dot \/ seen'.exponent) <=> Fractional(first, to))
    BY <1>9 DEF to
  <2> QED
    BY <1>1, <1>7, <1>8, <2>1, <2>2, <2>3, NumberUpTo
<1> QED
  BY <1>11, <1>12

LEMMA EndIsNul ==
  ASSUME Len(source) \in Nat
  PROVE  At(Len(source)) = "NUL"
  BY DEF At

LEMMA NumberIsLexeme ==
  ASSUME LInv, EndNumber
  PROVE  IsLexeme(Token(IF seen.dot \/ seen.exponent THEN "FloatingLiteral" ELSE "IntegerLiteral",
                        begin, offset))
<1> DEFINE kind == IF seen.dot \/ seen.exponent THEN "FloatingLiteral" ELSE "IntegerLiteral"
           last == Token(kind, begin, offset)
<1>1. phase = "number" /\ (AtEnd \/ At(offset) \notin NumberContinue)
  BY DEF EndNumber, Current
<1>2. NumberSoFar /\ offset \in Nat /\ Len(source) \in Nat
  BY <1>1, InNumber
<1>3. At(offset) \notin NumberContinue
  <2>1. AtEnd => At(offset) = "NUL"
    BY <1>2 DEF AtEnd, At
  <2> QED
    BY <1>1, <2>1, MarkersAre
<1>4. last.begin = begin /\ last.end = offset /\ last.kind = kind
  BY DEF Token
<1>5. /\ kind \in {"IntegerLiteral", "FloatingLiteral"}
      /\ kind = "FloatingLiteral" <=> seen.dot \/ seen.exponent
  OBVIOUS
<1> HIDE DEF last, kind
<1>6. IsNumber(last)
  BY <1>2, <1>3, <1>4, <1>5
     DEF IsNumber, NumberSoFar, NumberFrom, SignAt, Fractional, Markers, Prefixed
<1> QED
  BY <1>4, <1>5, <1>6, LexemeOfKind DEF last, kind

LEMMA WordIsLexeme ==
  ASSUME LInv, LexIdentifierOrKeyword,
         NEW end, end = Min({o \in offset+1..Len(source) :
                               o = Len(source) \/ At(o) \notin IdentifierContinue})
  PROVE  IsLexeme(Token(WordKind(Bytes(offset, end)), offset, end))
<1> DEFINE ends == {o \in offset+1..Len(source) : o = Len(source) \/ At(o) \notin IdentifierContinue}
           last == Token(WordKind(Bytes(offset, end)), offset, end)
<1>1. /\ phase = "scan" /\ ~AtEnd /\ At(offset) \in IdentifierStart
  BY DEF LexIdentifierOrKeyword, AtToken, Current
<1>2. source \in Seq(STRING) /\ Len(source) \in Nat
  BY DEF LInv, IInv, TypeOK
<1>3. offset \in Nat /\ offset < Len(source)
  <2>1. offset \in 0..Len(source)
    BY DEF LInv, IInv, TypeOK
  <2>2. ~(offset >= Len(source))
    BY <1>1 DEF AtEnd
  <2> QED
    BY <1>2, <2>1, <2>2
<1>4. end = Min(ends) /\ ends \in SUBSET Nat /\ Len(source) \in ends
  BY <1>2, <1>3
<1>5. end \in ends /\ \A o \in ends : end <= o
  <2> HIDE DEF ends
  <2>1. ends # {}
    BY <1>4
  <2>2. Min(ends) \in ends /\ \A o \in ends : Min(ends) <= o
    BY <1>4, <2>1, MinOfNaturals
  <2> QED
    BY <1>4, <2>2
<1>6. /\ end \in 0..Len(source) /\ offset < end
      /\ end = Len(source) \/ At(end) \notin IdentifierContinue
  BY <1>2, <1>3, <1>5
<1>7. \A o \in offset..end-1 : o = offset \/ (o \in offset+1..Len(source) /\ ~(end <= o))
  BY <1>2, <1>3, <1>6
<1>8. \A o \in offset..end-1 : At(o) \in IdentifierContinue
  <2>1. \A o \in offset+1..Len(source) : o \notin ends => At(o) \in IdentifierContinue
    OBVIOUS
  <2>2. At(offset) \in IdentifierContinue
    BY <1>1 DEF IdentifierContinue
  <2> HIDE DEF ends
  <2> QED
    BY <1>5, <1>7, <2>1, <2>2
<1>9. At(end) \notin IdentifierContinue
  <2>1. end = Len(source) => At(end) = "NUL"
    BY <1>2, EndIsNul
  <2>2. "NUL" \notin IdentifierContinue
    BY DEF IdentifierContinue, IdentifierStart, Letters, Digits
  <2> QED
    BY <1>6, <2>1, <2>2
<1>10. /\ last.begin = offset /\ last.end = end /\ last.text = Bytes(offset, end)
       /\ last.kind = WordKind(last.text)
  BY DEF Token
<1>11. Bytes(offset, end)[1] = At(offset)
  BY <1>2, <1>3, <1>6, BytesAre
<1> HIDE DEF last
<1>12. IsWord(last)
  BY <1>1, <1>8, <1>9, <1>10, <1>11 DEF IsWord
<1>13. last.kind \in Keywords \cup {"Identifier"}
  BY <1>10, KindsOfLexemes
<1> QED
  BY <1>12, <1>13, LexemeOfKind DEF last

LEMMA PunctuationIsLexeme ==
  ASSUME LInv, LexPunctuation
  PROVE  /\ <<Current, Peek>> \in Pairs =>
              IsLexeme(Token(PairKind(<<Current, Peek>>), offset, offset+2))
         /\ <<Current, Peek>> \notin Pairs =>
              IsLexeme(Token(IF Current \in Singles THEN Current ELSE "Invalid", offset, offset+1))
<1>1. /\ phase = "scan" /\ ~AtEnd /\ At(offset) \notin Spaces
      /\ At(offset) \notin Digits /\ At(offset) \notin IdentifierStart \cup {"\"", "'"}
  BY DEF LexPunctuation, LexPunctuationUsing, AtToken, AtNumber, Current
<1>2. source \in Seq(STRING) /\ Len(source) \in Nat
  BY DEF LInv, IInv, TypeOK
<1>3. offset \in Nat /\ offset < Len(source)
  <2>1. offset \in 0..Len(source)
    BY DEF LInv, IInv, TypeOK
  <2>2. ~(offset >= Len(source))
    BY <1>1 DEF AtEnd
  <2> QED
    BY <1>2, <2>1, <2>2
<1>4. ASSUME <<Current, Peek>> \in Pairs
      PROVE  IsLexeme(Token(PairKind(<<Current, Peek>>), offset, offset+2))
  <2> DEFINE pair == <<Current, Peek>>
             last == Token(PairKind(pair), offset, offset+2)
  <2>1. Peek # "NUL"
    BY <1>4 DEF Pairs
  <2>2. offset + 1 < Len(source)
    BY <2>1, ByteInside DEF Peek
  <2>3. offset + 2 \in 0..Len(source) /\ offset < offset + 2
    BY <1>2, <1>3, <2>2
  <2>4. Bytes(offset, offset+2) = pair
    BY <1>2, <1>3, <2>3, BytesAre DEF Current, Peek
  <2>5. last.text = pair /\ last.kind = PairKind(pair)
    BY <2>4 DEF Token
  <2>6. pair \in Pairs
    BY <1>4
  <2> HIDE DEF last, pair
  <2>7. IsPunctuation(last)
    BY <2>5, <2>6 DEF IsPunctuation
  <2> QED
    BY <2>5, <2>6, <2>7, LexemeOfKind, KindsOfLexemes DEF last, pair
<1>5. ASSUME <<Current, Peek>> \notin Pairs
      PROVE  IsLexeme(Token(IF Current \in Singles THEN Current ELSE "Invalid", offset, offset+1))
  <2> DEFINE kind == IF Current \in Singles THEN Current ELSE "Invalid"
             last == Token(kind, offset, offset+1)
  <2>1. offset + 1 \in 0..Len(source) /\ offset < offset + 1 /\ (offset + 1) - offset = 1
    BY <1>2, <1>3
  <2>2. Len(Bytes(offset, offset+1)) = 1 /\ Bytes(offset, offset+1)[1] = At(offset)
    BY <1>2, <1>3, <2>1, BytesAre
  <2>3. /\ last.begin = offset /\ last.end = offset + 1 /\ last.kind = kind
        /\ Len(last.text) = 1 /\ last.text[1] = At(offset)
    BY <2>2 DEF Token
  <2>4. <<At(offset), At(offset+1)>> \notin Pairs
    BY <1>5 DEF Current, Peek
  <2>5. CASE At(offset) \in Singles
    <3>1. kind = At(offset)
      BY <2>5 DEF Current
    <3> HIDE DEF last, kind
    <3>2. IsPunctuation(last)
      BY <2>3, <2>4, <3>1 DEF IsPunctuation
    <3> QED
      BY <2>3, <2>5, <3>1, <3>2, LexemeOfKind, KindsOfLexemes DEF last, kind
  <2>6. CASE At(offset) \notin Singles
    <3>1. kind = "Invalid"
      BY <2>6 DEF Current
    <3>2. At(offset) \notin Singles \cup IdentifierContinue \cup Spaces \cup {"\"", "'"}
      BY <1>1, <2>6 DEF IdentifierContinue
    <3> HIDE DEF last, kind
    <3>3. IsPunctuation(last)
      BY <2>3, <3>1, <3>2 DEF IsPunctuation
    <3> QED
      BY <2>3, <3>1, <3>3, InvalidIsLexeme DEF last, kind
  <2> QED
    BY <2>5, <2>6
<1> QED
  BY <1>4, <1>5

\* A step that delivers a token delivers a lexeme and leaves no open one.
LEMMA DeliveryKeepsLInv ==
  ASSUME LInv, IInv', UNCHANGED source, phase' \in {"scan", "done"},
         NEW kind \in Kinds, NEW from \in Nat, NEW to \in 0..Len(source), from <= to,
         tokens' = Append(tokens, Token(kind, from, to)), IsLexeme(Token(kind, from, to))
  PROVE  LInv'
<1>1. TokensAreLexemes'
  BY DeliveryOfLexeme DEF LInv, IInv
<1>2. phase' # "literal" /\ phase' # "number"
  OBVIOUS
<1> QED
  BY <1>1, <1>2 DEF LInv

LEMMA StepKeepsLInv == LInv /\ [Next]_vars => LInv'
<1> SUFFICES ASSUME LInv, [Next]_vars PROVE LInv'
  OBVIOUS
<1>1. IInv' /\ TypeOK'
  BY StepKeepsIInv DEF LInv, IInv
<1>2. offset \in Nat /\ begin \in Nat /\ begin <= offset /\ offset' \in Nat /\ begin' \in Nat
      /\ Len(source) \in Nat /\ Len(source') \in Nat /\ offset' <= Len(source')
  <2>1. Len(source) \in Nat /\ Len(source') \in Nat
    BY <1>1 DEF LInv, IInv, TypeOK
  <2> QED
    BY <1>1, <2>1 DEF LInv, IInv, TypeOK
<1>3. CASE SkipSpace \/ SkipLineComment \/ SkipBlockComment
  <2>1. phase' = "scan" /\ UNCHANGED <<source, tokens>>
    BY <1>3 DEF SkipSpace, SkipLineComment, SkipBlockComment, SkipBlockCommentFrom
  <2> QED
    BY <1>1, <2>1, LexemesKept DEF LInv
<1>4. CASE LexEndOfFile
  <2>1. /\ UNCHANGED source /\ phase' \in {"scan", "done"} /\ offset' = offset
        /\ tokens' = Append(tokens, Token("EndOfFile", offset, offset))
    BY <1>4 DEF LexEndOfFile, Deliver
  <2>2. "EndOfFile" \in Kinds /\ offset \in 0..Len(source) /\ offset <= offset
    BY <1>2, <2>1 DEF Kinds
  <2> QED
    BY <1>1, <1>2, <1>4, <2>1, <2>2, EndOfFileIsLexeme, DeliveryKeepsLInv
<1>5. CASE LexIdentifierOrKeyword
  <2> DEFINE end == Min({o \in offset+1..Len(source) :
                           o = Len(source) \/ At(o) \notin IdentifierContinue})
  <2>1. /\ UNCHANGED source /\ phase' \in {"scan", "done"} /\ ~AtEnd
        /\ tokens' = Append(tokens, Token(WordKind(Bytes(offset, end)), offset, end))
    BY <1>5 DEF LexIdentifierOrKeyword, AtToken, Deliver
  <2>2. end \in offset+1..Len(source)
    BY <2>1, WordStops DEF LInv, IInv
  <2>3. IsLexeme(Token(WordKind(Bytes(offset, end)), offset, end))
    BY <1>5, WordIsLexeme
  <2> HIDE DEF end
  <2>4. end \in 0..Len(source) /\ offset <= end
    BY <1>2, <2>2
  <2>5. WordKind(Bytes(offset, end)) \in Kinds
    BY KindsOfTokens
  <2> QED
    BY <1>1, <1>2, <2>1, <2>3, <2>4, <2>5, DeliveryKeepsLInv
<1>6. CASE LexPunctuation
  <2>1. UNCHANGED source /\ phase' \in {"scan", "done"} /\ ~AtEnd
    BY <1>6 DEF LexPunctuation, LexPunctuationUsing, AtToken
  <2>2. offset < Len(source)
    BY <1>2, <2>1 DEF AtEnd
  <2>3. CASE <<Current, Peek>> \in Pairs
    <3>1. /\ tokens' = Append(tokens, Token(PairKind(<<Current, Peek>>), offset, offset+2))
          /\ offset' = offset + 2
      BY <1>6, <2>3 DEF LexPunctuation, LexPunctuationUsing
    <3>2. offset + 2 \in 0..Len(source) /\ offset <= offset + 2
      BY <1>2, <2>1, <3>1
    <3>3. PairKind(<<Current, Peek>>) \in Kinds
      BY <2>3, KindsOfTokens
    <3> QED
      BY <1>1, <1>2, <1>6, <2>1, <2>3, <3>1, <3>2, <3>3, PunctuationIsLexeme, DeliveryKeepsLInv
  <2>4. CASE <<Current, Peek>> \notin Pairs
    <3> DEFINE kind == IF Current \in Singles THEN Current ELSE "Invalid"
    <3>1. tokens' = Append(tokens, Token(kind, offset, offset+1))
      BY <1>6, <2>4 DEF LexPunctuation, LexPunctuationUsing, Deliver
    <3>2. offset + 1 \in 0..Len(source) /\ offset <= offset + 1
      BY <1>2, <2>2
    <3>3. kind \in Kinds
      BY KindsOfTokens
    <3>4. IsLexeme(Token(kind, offset, offset+1))
      BY <1>6, <2>4, PunctuationIsLexeme
    <3> HIDE DEF kind
    <3> QED
      BY <1>1, <1>2, <2>1, <3>1, <3>2, <3>3, <3>4, DeliveryKeepsLInv
  <2> QED
    BY <2>3, <2>4
<1>7. CASE BeginNumber
  <2>1. phase' = "number" /\ UNCHANGED <<source, tokens>>
    BY <1>7 DEF BeginNumber
  <2> QED
    BY <1>1, <1>7, <2>1, BeginNumberKeeps, LexemesKept DEF LInv
<1>8. CASE ContinueNumber
  <2>1. phase' = "number" /\ UNCHANGED <<source, tokens>>
    BY <1>8 DEF ContinueNumber, ContinueNumberWith
  <2> QED
    BY <1>1, <1>8, <2>1, ContinueNumberKeeps, LexemesKept DEF LInv
<1>9. CASE EndNumber
  <2> DEFINE kind == IF seen.dot \/ seen.exponent THEN "FloatingLiteral" ELSE "IntegerLiteral"
  <2>1. /\ UNCHANGED source /\ phase' \in {"scan", "done"} /\ offset' = offset
        /\ tokens' = Append(tokens, Token(kind, begin, offset))
    BY <1>9 DEF EndNumber, Deliver
  <2>2. kind \in Kinds
    BY KindsOfTokens
  <2>3. IsLexeme(Token(kind, begin, offset))
    BY <1>9, NumberIsLexeme
  <2>4. offset \in 0..Len(source)
    BY <1>2, <2>1
  <2> HIDE DEF kind
  <2> QED
    BY <1>1, <1>2, <2>1, <2>2, <2>3, <2>4, DeliveryKeepsLInv
<1>10. CASE BeginLiteral
  <2>1. phase' = "literal" /\ UNCHANGED <<source, tokens>>
    BY <1>10 DEF BeginLiteral
  <2> QED
    BY <1>1, <1>10, <2>1, BeginLiteralKeeps, LexemesKept DEF LInv
<1>11. CASE EscapeInLiteral
  <2>1. phase' = "literal" /\ UNCHANGED <<source, tokens>>
    BY <1>11 DEF EscapeInLiteral
  <2> QED
    BY <1>1, <1>11, <2>1, EscapeInLiteralKeeps, LexemesKept DEF LInv
<1>12. CASE ByteOfLiteral
  <2>1. phase' = "literal" /\ UNCHANGED <<source, tokens>>
    BY <1>12 DEF ByteOfLiteral
  <2> QED
    BY <1>1, <1>12, <2>1, ByteOfLiteralKeeps, LexemesKept DEF LInv
<1>13. CASE CloseLiteral
  <2>1. /\ UNCHANGED source /\ phase' \in {"scan", "done"} /\ ~AtEnd
        /\ tokens' = Append(tokens, Token(LiteralKind(Quote), begin, offset+1))
    BY <1>13 DEF CloseLiteral, Deliver
  <2>2. LiteralKind(Quote) \in Kinds
    BY KindsOfTokens DEF LiteralKind
  <2>3. offset + 1 \in 0..Len(source) /\ begin <= offset + 1
    BY <1>2, <2>1 DEF AtEnd
  <2> QED
    BY <1>1, <1>2, <1>13, <2>1, <2>2, <2>3, ClosedIsLexeme, DeliveryKeepsLInv
<1>14. CASE UnterminatedLiteral
  <2>1. /\ UNCHANGED source /\ phase' \in {"scan", "done"} /\ offset' = offset
        /\ tokens' = Append(tokens, Token("Invalid", begin, offset))
    BY <1>14 DEF UnterminatedLiteral, Deliver
  <2>2. "Invalid" \in Kinds /\ offset \in 0..Len(source)
    BY <1>2, <2>1, KindsOfTokens
  <2>3. Token("Invalid", begin, offset).kind = "Invalid"
    BY DEF Token
  <2>4. IsLexeme(Token("Invalid", begin, offset))
    BY <1>14, <2>3, UnterminatedIsUnterminated, InvalidIsLexeme
  <2> QED
    BY <1>1, <1>2, <2>1, <2>2, <2>4, DeliveryKeepsLInv
<1>15. CASE UNCHANGED vars
  <2>1. UNCHANGED <<source, offset, phase, begin, seen, tokens>>
    BY <1>15 DEF vars
  <2>2. LiteralSoFar' <=> LiteralSoFar
    BY <2>1, BytesStay, EscapesStay DEF LiteralSoFar, Quote
  <2>3. NumberSoFar' <=> NumberSoFar
    BY <2>1, NumbersStay DEF NumberSoFar
  <2> QED
    BY <1>1, <2>1, <2>2, <2>3, LexemesKept DEF LInv
<1> QED
  BY <1>3, <1>4, <1>5, <1>6, <1>7, <1>8, <1>9, <1>10, <1>11, <1>12, <1>13, <1>14, <1>15
     DEF Next, LexerStep, Done

LEMMA LexemeInvariance == Spec => []LInv
<1>1. Init => LInv
  <2> SUFFICES ASSUME Init PROVE LInv
    OBVIOUS
  <2>1. phase = "scan" /\ tokens = <<>>
    BY DEF Init
  <2>2. TokensAreLexemes
    BY <2>1 DEF TokensAreLexemes
  <2> QED
    BY <2>1, <2>2, InitEstablishesIInv DEF LInv
<1> QED
  BY <1>1, StepKeepsLInv, PTL DEF Spec

(***************************************************************************)
(* Whatever the bytes of a source are, every token of lex_all is what its  *)
(* kind says and as long as it can be: escapes, line breaks in literals,   *)
(* signs of exponents and keywords are decided as the language has them.   *)
(***************************************************************************)
THEOREM EveryTokenIsALexeme == Spec => []TokensAreLexemes
<1>1. LInv => TokensAreLexemes
  BY DEF LInv
<1> QED
  BY <1>1, LexemeInvariance, PTL

-----------------------------------------------------------------------------
(* Exactly the unterminated is reported.                                   *)

\* The cuts of IsTrivia.
Cut(cuts, from, to) ==
  /\ cuts \in SUBSET (from..to) /\ from \in cuts /\ to \in cuts
  /\ \A a, b \in cuts : (a < b /\ \A c \in cuts : ~(a < c /\ c < b)) => Piece(a, b)

TokensEnd == EndOfToken(Len(tokens))

\* The open comments between two places.
Passed(from, to) == {o \in from..Len(source) : OpenComment(o) /\ IsTrivia(from, o) /\ o < to}

Unterminated ==
  {[begin |-> token.begin, end |-> token.end] : token \in {t \in ToSet(tokens) : IsUnterminated(t)}}

ToTheEnd(places) == {[begin |-> from, end |-> Len(source)] : from \in places}

\* An open comment behind the last token takes the rest of the source; every
\* way to cut the trivia behind the last token comes by the offset.
ErrorsSoFar ==
  /\ \A i \in 1..Len(errors) : errors[i].begin < Frontier
  /\ ToSet(errors) = Unterminated \cup ToTheEnd(Passed(TokensEnd, Frontier))
  /\ Passed(TokensEnd, Frontier) # {} => Frontier = Len(source)

CutsMeet ==
  \A cuts : \A o \in Nat : Cut(cuts, TokensEnd, o) /\ offset <= o /\ o <= Len(source) => offset \in cuts

EInv ==
  /\ LInv /\ GInv
  /\ IsInjective(errors)
  /\ ErrorsAreTheUnterminated
  /\ phase # "done" => ErrorsSoFar
  /\ phase = "scan" => CutsMeet

LEMMA TriviaIsCut ==
  ASSUME NEW from, NEW to
  PROVE  IsTrivia(from, to) <=> \E cuts : Cut(cuts, from, to)
<1>1. IsTrivia(from, to) => \E cuts : Cut(cuts, from, to)
  BY DEF IsTrivia, Cut
<1>2. (\E cuts : Cut(cuts, from, to)) => IsTrivia(from, to)
  BY DEF IsTrivia, Cut
<1> QED
  BY <1>1, <1>2

LEMMA LineCommentsEnd ==
  ASSUME NEW from \in Nat, NEW b \in Nat, NEW c \in Nat, Len(source) \in Nat,
         b <= Len(source), c <= Len(source), LineComment(from, b), LineComment(from, c)
  PROVE  ~(b < c)
<1> SUFFICES ASSUME b < c PROVE FALSE
  OBVIOUS
<1>1. b # Len(source) /\ from + 2 <= b
  BY DEF LineComment
<1>2. At(b) = "\n"
  BY <1>1 DEF LineComment
<1>3. b \in from..c-1
  BY <1>1
<1> QED
  BY <1>2, <1>3 DEF LineComment

LEMMA ClosedCommentsEnd ==
  ASSUME NEW from \in Nat, NEW b \in Nat, NEW c \in Nat,
         ClosedComment(from, b), ClosedComment(from, c)
  PROVE  ~(b < c)
<1> SUFFICES ASSUME b < c PROVE FALSE
  OBVIOUS
<1>1. from + 4 <= b /\ from + 4 <= c
  BY DEF ClosedComment
<1> DEFINE o == b - 2
<1>2. o \in from+2..b-2 /\ o \in from+2..c-2 /\ o # c - 2 /\ o = b - 2
  BY <1>1
<1> HIDE DEF o
<1>3. At(o) = "*" /\ At(o+1) = "/"
  BY <1>2 DEF ClosedComment
<1> QED
  BY <1>2, <1>3 DEF ClosedComment

LEMMA ClosedIsNotOpen ==
  ASSUME NEW from \in Nat, NEW b \in Nat, Len(source) \in Nat, b <= Len(source),
         ClosedComment(from, b)
  PROVE  ~OpenComment(from)
<1>1. from + 4 <= b
  BY DEF ClosedComment
<1> DEFINE o == b - 2
<1>2. o \in from+2..b-2 /\ o \in from+2..Len(source)-2 /\ o = b - 2
  BY <1>1
<1> HIDE DEF o
<1>3. At(o) = "*" /\ At(o+1) = "/"
  BY <1>2 DEF ClosedComment
<1> QED
  BY <1>2, <1>3 DEF OpenComment

\* A piece of trivia ends in one place.
LEMMA PiecesEndAlike ==
  ASSUME NEW from \in Nat, NEW b \in Nat, NEW c \in Nat, Len(source) \in Nat,
         b <= Len(source), c <= Len(source), Piece(from, b), Piece(from, c)
  PROVE  b = c
<1>1. /\ "/" \notin Spaces /\ "/" # "*"
  BY DEF Spaces
<1>2. ASSUME NEW x
      PROVE  /\ LineComment(from, x) => At(from) = "/" /\ At(from+1) = "/"
             /\ ClosedComment(from, x) => At(from) = "/" /\ At(from+1) = "*"
             /\ OpenComment(from) => At(from) = "/" /\ At(from+1) = "*"
  BY DEF LineComment, ClosedComment, OpenComment
<1>3. CASE At(from) \in Spaces
  <2>1. b = from + 1 /\ c = from + 1
    BY <1>1, <1>2, <1>3 DEF Piece
  <2> QED
    BY <2>1
<1>4. CASE LineComment(from, b) \/ LineComment(from, c)
  <2>1. LineComment(from, b) /\ LineComment(from, c)
    BY <1>1, <1>2, <1>4 DEF Piece
  <2> QED
    BY <2>1, LineCommentsEnd
<1>5. CASE At(from) \notin Spaces /\ ~(LineComment(from, b) \/ LineComment(from, c))
  <2>1. /\ ClosedComment(from, b) \/ (OpenComment(from) /\ b = Len(source))
        /\ ClosedComment(from, c) \/ (OpenComment(from) /\ c = Len(source))
    BY <1>5 DEF Piece
  <2>2. CASE OpenComment(from)
    BY <2>1, <2>2, ClosedIsNotOpen
  <2>3. CASE ~OpenComment(from)
    BY <2>1, <2>3, ClosedCommentsEnd
  <2> QED
    BY <2>2, <2>3
<1> QED
  BY <1>3, <1>4, <1>5

\* From one cut to the next.
LEMMA NextCut ==
  ASSUME NEW from \in Nat, NEW to \in Nat, NEW cuts, Cut(cuts, from, to),
         NEW a \in cuts, a < to
  PROVE  \E b \in cuts : a < b /\ b <= to /\ Piece(a, b)
<1> DEFINE above == {c \in cuts : a < c}
<1>1. above \in SUBSET Nat /\ to \in above
  <2>1. cuts \in SUBSET (from..to) /\ to \in cuts
    BY DEF Cut
  <2>2. from..to \in SUBSET Nat
    OBVIOUS
  <2> QED
    BY <2>1, <2>2
<1>2. Min(above) \in above /\ \A c \in above : Min(above) <= c
  <2> HIDE DEF above
  <2>1. above # {}
    BY <1>1
  <2> QED
    BY <1>1, <2>1, MinOfNaturals
<1>3. PICK b \in above : \A c \in above : b <= c
  BY <1>2
<1>4. b \in cuts /\ a < b /\ b <= to /\ b \in Nat
  BY <1>1, <1>3
<1>5. ASSUME NEW c \in cuts, a < c, c < b PROVE FALSE
  <2>1. c \in above /\ c \in Nat
    BY <1>1, <1>5
  <2>2. b <= c
    BY <1>3, <2>1
  <2> QED
    BY <1>4, <1>5, <2>1, <2>2
<1>6. Piece(a, b)
  BY <1>4, <1>5 DEF Cut
<1> QED
  BY <1>4, <1>6

LEMMA TriviaStays ==
  ASSUME UNCHANGED source
  PROVE  /\ \A from : OpenComment(from)' <=> OpenComment(from)
         /\ \A from, to : Passed(from, to)' = Passed(from, to)
         /\ \A places : ToTheEnd(places)' = ToTheEnd(places)
         /\ \A cuts, from, to : Cut(cuts, from, to)' <=> Cut(cuts, from, to)
<1>1. \A from : OpenComment(from)' <=> OpenComment(from)
  BY DEF OpenComment, At
<1>2. \A from, to : IsTrivia(from, to)' <=> IsTrivia(from, to)
  BY SameSourceSameTrivia
<1>3. \A from, to : Passed(from, to)' = Passed(from, to)
  <2> SUFFICES ASSUME NEW from, NEW to PROVE Passed(from, to)' = Passed(from, to)
    OBVIOUS
  <2>1. \A o : OpenComment(o)' /\ IsTrivia(from, o)' <=> OpenComment(o) /\ IsTrivia(from, o)
    BY <1>1, <1>2
  <2> QED
    BY <2>1 DEF Passed
<1>4. \A places : ToTheEnd(places)' = ToTheEnd(places)
  BY DEF ToTheEnd
<1>5. \A from, to : Piece(from, to)' <=> Piece(from, to)
  BY DEF Piece, LineComment, OpenComment, ClosedComment, At
<1>6. \A cuts, from, to : Cut(cuts, from, to)' <=> Cut(cuts, from, to)
  BY <1>5 DEF Cut
<1> QED
  BY <1>1, <1>3, <1>4, <1>6

LEMMA UnterminatedStays ==
  ASSUME UNCHANGED <<source, tokens>>
  PROVE  Unterminated' = Unterminated /\ TokensEnd' = TokensEnd
<1>1. \A token : IsUnterminated(token)' <=> IsUnterminated(token)
  BY LexemesStay
<1>2. {t \in ToSet(tokens) : IsUnterminated(t)}' = {t \in ToSet(tokens) : IsUnterminated(t)}
  BY <1>1
<1>3. Unterminated' = Unterminated
  BY <1>2 DEF Unterminated
<1>4. TokensEnd' = TokensEnd
  BY DEF TokensEnd, EndOfToken
<1> QED
  BY <1>3, <1>4

\* The range an error gets.
Entry(from, to) == [begin |-> from, end |-> to]

\* A new error lies behind all others.
LEMMA ReportIsNew ==
  ASSUME errors \in Seq([begin : Nat, end : Nat]), IsInjective(errors),
         NEW from \in Nat, NEW to \in Nat,
         \A i \in 1..Len(errors) : errors[i].begin < from,
         errors' = Append(errors, Entry(from, to))
  PROVE  /\ IsInjective(errors')
         /\ ToSet(errors') = ToSet(errors) \cup {Entry(from, to)}
         /\ \A i \in 1..Len(errors') : errors'[i].begin <= from
<1> DEFINE E == [begin : Nat, end : Nat]
           entry == Entry(from, to)
<1>1. entry \in E /\ entry.begin = from
  BY DEF Entry
<1> HIDE DEF entry
<1>2. /\ Len(errors) \in Nat /\ Len(errors') = Len(errors) + 1
      /\ DOMAIN errors = 1..Len(errors) /\ DOMAIN errors' = 1..Len(errors)+1
      /\ \A i \in 1..Len(errors) : errors'[i] = errors[i]
      /\ errors'[Len(errors)+1] = entry
      /\ \A i \in 1..Len(errors) : errors[i].begin \in Nat
  <2>1. errors \in Seq(E) /\ errors' = Append(errors, entry)
    BY DEF entry
  <2> HIDE DEF E
  <2>2. /\ Len(errors) \in Nat /\ Len(errors') = Len(errors) + 1
        /\ \A i \in 1..Len(errors) : errors'[i] = errors[i]
        /\ errors'[Len(errors)+1] = entry
    BY <1>1, <2>1
  <2>3. DOMAIN errors = 1..Len(errors) /\ DOMAIN errors' = 1..Len(errors)+1
    BY <1>1, <2>1
  <2>4. \A i \in 1..Len(errors) : errors[i] \in E
    BY <2>1
  <2> QED
    BY <2>2, <2>3, <2>4 DEF E
<1>3. \A i \in DOMAIN errors' : i \in 1..Len(errors) \/ i = Len(errors) + 1
  BY <1>2
<1>4. \A i \in 1..Len(errors) : errors'[i] # entry
  BY <1>1, <1>2
<1>5. IsInjective(errors')
  <2> SUFFICES ASSUME NEW a \in DOMAIN errors', NEW b \in DOMAIN errors', errors'[a] = errors'[b]
               PROVE  a = b
    BY DEF IsInjective
  <2>1. CASE a \in 1..Len(errors) /\ b \in 1..Len(errors)
    BY <1>2, <2>1 DEF IsInjective
  <2>2. CASE a = Len(errors) + 1 \/ b = Len(errors) + 1
    BY <1>2, <1>3, <1>4, <2>2
  <2> QED
    BY <1>3, <2>1, <2>2
<1>6. ToSet(errors') = ToSet(errors) \cup {entry}
  <2>1. ToSet(errors) = {errors[i] : i \in 1..Len(errors)}
    BY <1>2 DEF ToSet
  <2>2. ToSet(errors') = {errors'[i] : i \in 1..Len(errors)+1}
    BY <1>2 DEF ToSet
  <2>3. Len(errors) + 1 \in 1..Len(errors)+1 /\ \A i \in 1..Len(errors) : i \in 1..Len(errors)+1
    BY <1>2
  <2> QED
    BY <1>2, <1>3, <2>1, <2>2, <2>3
<1>7. \A i \in 1..Len(errors') : errors'[i].begin <= from
  BY <1>1, <1>2, <1>3
<1> QED
  BY <1>5, <1>6, <1>7 DEF entry

\* The cuts of the trivia that go beyond the offset go on with the next piece.
LEMMA CutsGoOn ==
  ASSUME EInv, SkipSpace \/ SkipLineComment \/ SkipBlockComment,
         NEW o \in Nat, NEW cuts, Cut(cuts, TokensEnd, o), offset < o, o <= Len(source)
  PROVE  offset' \in cuts /\ offset' <= o
<1>1. phase = "scan" /\ TypeOK
  BY DEF SkipSpace, SkipLineComment, SkipBlockComment, SkipBlockCommentFrom, EInv, LInv, IInv
<1>2. offset \in Nat /\ Len(source) \in Nat /\ TokensEnd \in Nat
  <2>1. offset \in Nat /\ Len(source) \in Nat
    BY <1>1 DEF TypeOK
  <2>2. TokensEnd \in Nat
    BY <1>1, RangesOfTokens, TokensAreSequence DEF EndOfToken, TokensEnd
  <2> QED
    BY <2>1, <2>2
<1>3. offset \in cuts
  BY <1>1, <1>2 DEF EInv, CutsMeet
<1>4. PICK b \in cuts : offset < b /\ b <= o /\ Piece(offset, b)
  BY <1>2, <1>3, NextCut
<1>5. b \in Nat
  BY <1>2 DEF Cut
<1>6. Piece(offset, offset') /\ offset' \in offset+1..Len(source)
  BY <1>1, TriviaIsPiece, TriviaStops
<1>7. offset' \in Nat /\ offset' <= Len(source) /\ b <= Len(source)
  BY <1>2, <1>4, <1>5, <1>6
<1>8. b = offset'
  BY <1>2, <1>4, <1>5, <1>6, <1>7, PiecesEndAlike
<1> QED
  BY <1>4, <1>8

\* The open comment of this step is passed, and no other one.
LEMMA TriviaPasses ==
  ASSUME EInv, SkipSpace \/ SkipLineComment \/ SkipBlockComment
  PROVE  /\ phase = "scan" /\ phase' = "scan" /\ UNCHANGED <<source, tokens>>
         /\ offset \in Nat /\ Len(source) \in Nat /\ offset' \in Nat
         /\ offset < offset' /\ offset' <= Len(source)
         /\ Passed(TokensEnd, offset) = {}
         /\ Passed(TokensEnd, offset') = {o \in {offset} : OpenComment(o)}
         /\ IF OpenComment(offset)
            THEN offset' = Len(source) /\ errors' = Append(errors, Entry(offset, Len(source)))
            ELSE UNCHANGED errors
<1>1. phase = "scan" /\ phase' = "scan" /\ UNCHANGED <<source, tokens>> /\ TypeOK
  BY DEF SkipSpace, SkipLineComment, SkipBlockComment, SkipBlockCommentFrom, EInv, LInv, IInv
<1>2. /\ offset \in Nat /\ Len(source) \in Nat /\ offset' \in Nat
      /\ offset < offset' /\ offset' <= Len(source) /\ offset < Len(source)
  <2>1. offset \in Nat /\ Len(source) \in Nat
    BY <1>1 DEF TypeOK
  <2>2. offset' \in offset+1..Len(source)
    BY <1>1, TriviaStops
  <2> QED
    BY <2>1, <2>2
<1>3. Frontier = offset
  BY <1>1 DEF Frontier
<1>4. Passed(TokensEnd, offset) = {}
  BY <1>1, <1>2, <1>3 DEF EInv, ErrorsSoFar
<1>5. IsTrivia(TokensEnd, offset)
  BY <1>1, <1>3 DEF EInv, GInv, TokensEnd
<1>6. offset \in TokensEnd..Len(source) /\ TokensEnd \in Nat
  <2>1. PICK cuts : Cut(cuts, TokensEnd, offset)
    BY <1>5, TriviaIsCut
  <2>2. TokensEnd \in Nat
    BY <1>1, RangesOfTokens, TokensAreSequence DEF EndOfToken, TokensEnd
  <2>3. TokensEnd <= offset
    BY <1>2, <2>1, <2>2 DEF Cut
  <2> QED
    BY <1>2, <2>2, <2>3
<1>7. ASSUME NEW o \in Passed(TokensEnd, offset')
      PROVE  o = offset
  <2>1. /\ o \in Nat /\ o <= Len(source) /\ o < offset' /\ IsTrivia(TokensEnd, o)
        /\ OpenComment(o) /\ o \in TokensEnd..Len(source)
    BY <1>2, <1>6 DEF Passed
  <2>2. ~(o < offset)
    BY <1>4, <2>1 DEF Passed
  <2>3. ~(offset < o)
    <3>1. PICK cuts : Cut(cuts, TokensEnd, o)
      BY <2>1, TriviaIsCut
    <3> QED
      BY <1>2, <2>1, <3>1, CutsGoOn
  <2> QED
    BY <1>2, <2>1, <2>2, <2>3
<1>8. OpenComment(offset) => offset \in Passed(TokensEnd, offset')
  BY <1>2, <1>5, <1>6 DEF Passed
<1>9. \A o \in Passed(TokensEnd, offset') : OpenComment(o)
  BY DEF Passed
<1>10. Passed(TokensEnd, offset') = {o \in {offset} : OpenComment(o)}
  BY <1>7, <1>8, <1>9
<1>11. CASE OpenComment(offset)
  <2>1. /\ At(offset) = "/" /\ At(offset+1) = "*"
        /\ \A o \in offset+2..Len(source)-2 : ~(At(o) = "*" /\ At(o+1) = "/")
    BY <1>11 DEF OpenComment
  <2>2. SkipBlockComment
    BY <2>1 DEF SkipSpace, SkipLineComment, Current, Peek, Spaces
  <2>3. Closings(offset+2) = {}
    BY <2>1 DEF Closings
  <2> QED
    BY <1>1, <1>2, <1>4, <1>10, <1>11, <2>2, <2>3
       DEF SkipBlockComment, SkipBlockCommentFrom, ReportUnterminated, Entry
<1>12. CASE ~OpenComment(offset)
  <2>1. UNCHANGED errors
    <3>1. CASE SkipSpace \/ SkipLineComment
      BY <3>1 DEF SkipSpace, SkipLineComment
    <3>2. CASE SkipBlockComment
      <4>1. At(offset) = "/" /\ At(offset+1) = "*"
        BY <3>2 DEF SkipBlockComment, SkipBlockCommentFrom, Current, Peek
      <4>2. offset + 1 < Len(source)
        BY <4>1, ByteInside
      <4>3. offset + 2 <= Len(source)
        BY <1>2, <4>2
      <4>4. Closings(offset+2) # {}
        BY <1>12, <4>1, <4>3 DEF OpenComment, Closings
      <4> QED
        BY <3>2, <4>4 DEF SkipBlockComment, SkipBlockCommentFrom
    <3> QED
      BY <3>1, <3>2
  <2> QED
    BY <1>1, <1>2, <1>4, <1>10, <1>12, <2>1
<1> QED
  BY <1>11, <1>12

LEMMA ToTheEndOfSets ==
  /\ ToTheEnd({}) = {}
  /\ \A o : ToTheEnd({o}) = {Entry(o, Len(source))}
  BY DEF ToTheEnd, Entry

LEMMA BeginsAreNumbers ==
  ASSUME NEW s \in Seq([begin : Nat, end : Nat])
  PROVE  \A i \in 1..Len(s) : s[i].begin \in Nat
<1>1. \A i \in 1..Len(s) : s[i] \in [begin : Nat, end : Nat]
  <2> DEFINE E == [begin : Nat, end : Nat]
  <2>1. s \in Seq(E)
    OBVIOUS
  <2> HIDE DEF E
  <2>2. \A i \in 1..Len(s) : s[i] \in E
    BY <2>1
  <2> QED
    BY <2>2 DEF E
<1> QED
  BY <1>1

LEMMA TriviaKeepsErrors ==
  ASSUME EInv, LInv', SkipSpace \/ SkipLineComment \/ SkipBlockComment
  PROVE  IsInjective(errors') /\ ErrorsSoFar'
<1>1. /\ phase = "scan" /\ phase' = "scan" /\ UNCHANGED <<source, tokens>>
      /\ offset \in Nat /\ Len(source) \in Nat /\ offset' \in Nat
      /\ offset < offset' /\ offset' <= Len(source)
      /\ Passed(TokensEnd, offset) = {}
      /\ Passed(TokensEnd, offset') = {o \in {offset} : OpenComment(o)}
      /\ IF OpenComment(offset)
         THEN offset' = Len(source) /\ errors' = Append(errors, Entry(offset, Len(source)))
         ELSE UNCHANGED errors
  BY TriviaPasses
<1>2. Frontier = offset /\ Frontier' = offset'
  BY <1>1 DEF Frontier
<1>3. Unterminated' = Unterminated /\ TokensEnd' = TokensEnd
  BY <1>1, UnterminatedStays
<1>4. /\ IsInjective(errors) /\ ErrorsSoFar /\ errors \in Seq([begin : Nat, end : Nat])
  BY <1>1 DEF EInv, LInv, IInv, TypeOK
<1>5. ToSet(errors) = Unterminated
  BY <1>1, <1>2, <1>4, ToTheEndOfSets DEF ErrorsSoFar
<1>6. \A i \in 1..Len(errors) : errors[i].begin < offset
  BY <1>2, <1>4 DEF ErrorsSoFar
<1>7. /\ \A from, to : Passed(from, to)' = Passed(from, to)
      /\ \A places : ToTheEnd(places)' = ToTheEnd(places)
  BY <1>1, TriviaStays
<1>8. Passed(TokensEnd, Frontier)' = {o \in {offset} : OpenComment(o)}
  BY <1>1, <1>2, <1>3, <1>7
<1>9. CASE OpenComment(offset)
  <2>1. offset' = Len(source) /\ errors' = Append(errors, Entry(offset, Len(source)))
    BY <1>1, <1>9
  <2>2. /\ IsInjective(errors')
        /\ ToSet(errors') = ToSet(errors) \cup {Entry(offset, Len(source))}
        /\ \A i \in 1..Len(errors') : errors'[i].begin <= offset
    BY <1>1, <1>4, <1>6, <2>1, ReportIsNew
  <2>3. ToTheEnd(Passed(TokensEnd, Frontier))' = {Entry(offset, Len(source))}
    <3>1. {o \in {offset} : OpenComment(o)} = {offset}
      BY <1>9
    <3> QED
      BY <1>7, <1>8, <3>1, ToTheEndOfSets
  <2>4. errors' \in Seq([begin : Nat, end : Nat])
    BY DEF LInv, IInv, TypeOK
  <2>5. \A i \in 1..Len(errors') : errors'[i].begin \in Nat
    BY <2>4, BeginsAreNumbers
  <2>6. (\A i \in 1..Len(errors) : errors[i].begin < Frontier)'
    BY <1>1, <1>2, <2>2, <2>5
  <2>7. ErrorsSoFar'
    BY <1>1, <1>2, <1>3, <1>5, <2>1, <2>2, <2>3, <2>6 DEF ErrorsSoFar
  <2> QED
    BY <2>2, <2>7
<1>10. CASE ~OpenComment(offset)
  <2>1. UNCHANGED errors
    BY <1>1, <1>10
  <2>2. ToTheEnd(Passed(TokensEnd, Frontier))' = {}
    <3>1. {o \in {offset} : OpenComment(o)} = {}
      BY <1>10
    <3>2. Passed(TokensEnd, Frontier)' = {}
      BY <1>8, <3>1
    <3> QED
      BY <1>7, <3>2, ToTheEndOfSets
  <2>3. Passed(TokensEnd, Frontier)' = {}
    BY <1>8, <1>10
  <2>4. \A i \in 1..Len(errors) : errors[i].begin \in Nat
    BY <1>4, BeginsAreNumbers
  <2>5. \A i \in 1..Len(errors) : errors[i].begin < offset'
    BY <1>1, <1>6, <2>4
  <2>6. ErrorsSoFar'
    BY <1>2, <1>3, <1>5, <2>1, <2>2, <2>3, <2>5 DEF ErrorsSoFar
  <2> QED
    BY <1>4, <2>1, <2>6
<1> QED
  BY <1>9, <1>10

LEMMA TriviaKeepsCuts ==
  ASSUME EInv, SkipSpace \/ SkipLineComment \/ SkipBlockComment
  PROVE  CutsMeet'
<1>1. /\ UNCHANGED <<source, tokens>>
      /\ offset \in Nat /\ Len(source) \in Nat /\ offset' \in Nat /\ offset < offset'
  BY TriviaPasses
<1>2. TokensEnd' = TokensEnd /\ \A cuts, from, to : Cut(cuts, from, to)' <=> Cut(cuts, from, to)
  BY <1>1, UnterminatedStays, TriviaStays
<1>3. ASSUME NEW o \in Nat, NEW cuts, Cut(cuts, TokensEnd, o), offset' <= o, o <= Len(source)
      PROVE  offset' \in cuts
  <2>1. offset < o
    BY <1>1, <1>3
  <2> QED
    BY <1>3, <2>1, CutsGoOn
<1>4. \A cuts : \A o \in Nat : Cut(cuts, TokensEnd, o)' <=> Cut(cuts, TokensEnd, o)
  <2> SUFFICES ASSUME NEW o \in Nat, NEW cuts
               PROVE  Cut(cuts, TokensEnd, o)' <=> Cut(cuts, TokensEnd, o)
    OBVIOUS
  <2>1. PICK e : e = TokensEnd
    OBVIOUS
  <2>2. TokensEnd' = e
    BY <1>2, <2>1
  <2>3. Cut(cuts, e, o)' <=> Cut(cuts, e, o)
    BY <1>2
  <2> QED
    BY <2>1, <2>2, <2>3
<1> QED
  BY <1>1, <1>3, <1>4 DEF CutsMeet

LEMMA TriviaKeepsEInv ==
  ASSUME EInv, LInv', GInv', SkipSpace \/ SkipLineComment \/ SkipBlockComment
  PROVE  EInv'
<1>1. IsInjective(errors') /\ ErrorsSoFar'
  BY TriviaKeepsErrors
<1>2. CutsMeet'
  BY TriviaKeepsCuts
<1>3. phase' = "scan"
  BY TriviaPasses
<1>4. ErrorsAreTheUnterminated'
  BY <1>3 DEF ErrorsAreTheUnterminated
<1> QED
  BY <1>1, <1>2, <1>4 DEF EInv

\* A token that does not end is one more unterminated token, any other is not.
LEMMA UnterminatedGrows ==
  ASSUME TypeOK, UNCHANGED source,
         NEW last \in TokenType, tokens' = Append(tokens, last)
  PROVE  Unterminated' = Unterminated \cup
           (IF IsUnterminated(last) THEN {Entry(last.begin, last.end)} ELSE {})
<1>1. \A token : IsUnterminated(token)' <=> IsUnterminated(token)
  BY LexemesStay
<1>2. ToSet(tokens') = ToSet(tokens) \cup {last}
  <2>1. /\ tokens \in Seq(TokenType) /\ Len(tokens) \in Nat
        /\ Len(tokens') = Len(tokens) + 1
        /\ \A i \in 1..Len(tokens) : tokens'[i] = tokens[i]
        /\ tokens'[Len(tokens)+1] = last
    BY TokensAreSequence
  <2>2. tokens' \in Seq(TokenType)
    BY <2>1
  <2>3. DOMAIN tokens = 1..Len(tokens) /\ DOMAIN tokens' = 1..Len(tokens)+1
    BY <2>1, <2>2
  <2>4. /\ ToSet(tokens) = {tokens[i] : i \in 1..Len(tokens)}
        /\ ToSet(tokens') = {tokens'[i] : i \in 1..Len(tokens)+1}
    BY <2>3 DEF ToSet
  <2>5. /\ \A i \in 1..Len(tokens)+1 : i \in 1..Len(tokens) \/ i = Len(tokens) + 1
        /\ \A i \in 1..Len(tokens) : i \in 1..Len(tokens)+1
        /\ Len(tokens) + 1 \in 1..Len(tokens)+1
    BY <2>1
  <2> QED
    BY <2>1, <2>4, <2>5
<1>3. Unterminated' = {Entry(token.begin, token.end) :
                         token \in {t \in ToSet(tokens') : IsUnterminated(t)}}
  <2>1. {t \in ToSet(tokens) : IsUnterminated(t)}' = {t \in ToSet(tokens') : IsUnterminated(t)}
    BY <1>1
  <2> QED
    BY <2>1 DEF Unterminated, Entry
<1>4. Unterminated = {Entry(token.begin, token.end) :
                        token \in {t \in ToSet(tokens) : IsUnterminated(t)}}
  BY DEF Unterminated, Entry
<1>5. CASE IsUnterminated(last)
  BY <1>2, <1>3, <1>4, <1>5
<1>6. CASE ~IsUnterminated(last)
  <2>1. {t \in ToSet(tokens') : IsUnterminated(t)} = {t \in ToSet(tokens) : IsUnterminated(t)}
    BY <1>2, <1>6
  <2> QED
    BY <1>3, <1>4, <1>6, <2>1
<1> QED
  BY <1>5, <1>6

LEMMA DeliveryKeepsEInv ==
  ASSUME EInv, LInv', GInv', phase # "done", UNCHANGED source, NEW kind \in Kinds,
         NEW to \in Nat, Frontier < to, to <= Len(source),
         tokens' = Append(tokens, Token(kind, Frontier, to)), offset' = to, phase' = "scan",
         IF IsUnterminated(Token(kind, Frontier, to))
         THEN errors' = Append(errors, Entry(Frontier, to))
         ELSE UNCHANGED errors
  PROVE  EInv'
<1> DEFINE last == Token(kind, Frontier, to)
<1>1. TypeOK /\ IsInjective(errors) /\ ErrorsSoFar /\ errors \in Seq([begin : Nat, end : Nat])
  BY DEF EInv, LInv, IInv, TypeOK
<1>2. Frontier \in Nat /\ Len(source) \in Nat
  BY <1>1 DEF TypeOK, Frontier
<1>3. to \in 0..Len(source) /\ Frontier <= to /\ Frontier # Len(source) /\ source \in Seq(STRING)
  BY <1>1, <1>2 DEF TypeOK
<1>4. last \in TokenType
  BY <1>2, <1>3, TokenIsTyped
<1>5. last.begin = Frontier /\ last.end = to
  BY DEF Token
<1>6. tokens' = Append(tokens, last)
  OBVIOUS
<1>7. IF IsUnterminated(last) THEN errors' = Append(errors, Entry(Frontier, to)) ELSE UNCHANGED errors
  OBVIOUS
<1> HIDE DEF last
<1>8. Unterminated' = Unterminated \cup (IF IsUnterminated(last) THEN {Entry(Frontier, to)} ELSE {})
  BY <1>1, <1>4, <1>5, <1>6, UnterminatedGrows
<1>9. TokensEnd' = to /\ Frontier' = to
  <2>1. Len(tokens') = Len(tokens) + 1 /\ tokens'[Len(tokens)+1] = last /\ Len(tokens) \in Nat
    BY <1>1, <1>4, <1>6, TokensAreSequence
  <2>2. Len(tokens') # 0 /\ tokens'[Len(tokens')] = last
    BY <2>1
  <2> QED
    BY <1>5, <2>2 DEF TokensEnd, EndOfToken, Frontier
<1>10. Passed(TokensEnd, Frontier)' = {}
  <2>1. Passed(to, to) = {}
    BY <1>2 DEF Passed
  <2>2. \A from : Passed(from, to)' = Passed(from, to)
    BY TriviaStays
  <2>3. Passed(to, to)' = {}
    BY <2>1, <2>2
  <2> QED
    BY <1>9, <2>3
<1>11. ToTheEnd(Passed(TokensEnd, Frontier))' = {}
  BY <1>10 DEF ToTheEnd
<1>12. ToSet(errors) = Unterminated /\ \A i \in 1..Len(errors) : errors[i].begin < Frontier
  <2>1. Passed(TokensEnd, Frontier) = {}
    BY <1>1, <1>3 DEF ErrorsSoFar
  <2> QED
    BY <1>1, <2>1, ToTheEndOfSets DEF ErrorsSoFar
<1>13. errors' \in Seq([begin : Nat, end : Nat])
  BY DEF LInv, IInv, TypeOK
<1>14. \A i \in 1..Len(errors') : errors'[i].begin \in Nat
  BY <1>13, BeginsAreNumbers
<1>15. /\ IsInjective(errors') /\ ToSet(errors') = Unterminated'
       /\ \A i \in 1..Len(errors') : errors'[i].begin <= Frontier
  <2>1. CASE IsUnterminated(last)
    <3>1. errors' = Append(errors, Entry(Frontier, to))
      BY <1>7, <2>1
    <3>2. /\ IsInjective(errors')
          /\ ToSet(errors') = ToSet(errors) \cup {Entry(Frontier, to)}
          /\ \A i \in 1..Len(errors') : errors'[i].begin <= Frontier
      BY <1>1, <1>2, <1>12, <3>1, ReportIsNew
    <3> QED
      BY <1>8, <1>12, <2>1, <3>2
  <2>2. CASE ~IsUnterminated(last)
    <3>1. errors' = errors
      BY <1>7, <2>2
    <3>2. \A i \in 1..Len(errors) : errors[i].begin \in Nat
      BY <1>1, BeginsAreNumbers
    <3> QED
      BY <1>1, <1>2, <1>8, <1>12, <2>2, <3>1, <3>2
  <2> QED
    BY <2>1, <2>2
<1>16. (\A i \in 1..Len(errors) : errors[i].begin < Frontier)'
  BY <1>2, <1>9, <1>14, <1>15
<1>17. ErrorsSoFar'
  BY <1>10, <1>11, <1>15, <1>16 DEF ErrorsSoFar
<1>18. CutsMeet'
  <2>1. \A o, cuts : Cut(cuts, to, o)' => to \in cuts
    BY DEF Cut
  <2> QED
    BY <1>9, <2>1 DEF CutsMeet
<1>19. ErrorsAreTheUnterminated'
  BY DEF ErrorsAreTheUnterminated
<1> QED
  BY <1>15, <1>17, <1>18, <1>19 DEF EInv

\* Within a token nothing is reported.
LEMMA InsideKeepsEInv ==
  ASSUME EInv, LInv', GInv', phase # "done", phase' \in {"number", "literal"},
         UNCHANGED <<source, tokens, errors>>, Frontier' = Frontier
  PROVE  EInv'
<1>1. Unterminated' = Unterminated /\ TokensEnd' = TokensEnd
  BY UnterminatedStays
<1>2. /\ \A from, to : Passed(from, to)' = Passed(from, to)
      /\ \A places : ToTheEnd(places)' = ToTheEnd(places)
  BY TriviaStays
<1>3. Passed(TokensEnd, Frontier)' = Passed(TokensEnd, Frontier)
  BY <1>1, <1>2
<1>4. ToTheEnd(Passed(TokensEnd, Frontier))' = ToTheEnd(Passed(TokensEnd, Frontier))
  BY <1>2, <1>3
<1>5. ErrorsSoFar'
  BY <1>1, <1>3, <1>4 DEF EInv, ErrorsSoFar
<1> QED
  BY <1>5 DEF EInv, ErrorsAreTheUnterminated

\* The end of the file: what was passed is all there is.
LEMMA EndOfFileKeepsEInv ==
  ASSUME EInv, LInv', GInv', LexEndOfFile
  PROVE  EInv'
<1> DEFINE last == Token("EndOfFile", offset, offset)
           rest == {o \in TokensEnd..Len(source) : OpenComment(o) /\ IsTrivia(TokensEnd, o)}
<1>1. /\ phase = "scan" /\ AtEnd /\ phase' = "done" /\ UNCHANGED <<source, errors>>
      /\ tokens' = Append(tokens, last)
  BY DEF LexEndOfFile, Deliver
<1>2. TypeOK /\ IsInjective(errors) /\ ErrorsSoFar
  BY <1>1 DEF EInv, LInv, IInv
<1>3. offset \in Nat /\ Len(source) \in Nat /\ Frontier = offset /\ offset = Len(source)
      /\ source \in Seq(STRING)
  <2>1. Len(source) \in Nat
    BY <1>2 DEF TypeOK
  <2> QED
    BY <1>1, <1>2, <2>1 DEF TypeOK, AtEnd, Frontier
<1>4. last \in TokenType /\ last.kind = "EndOfFile"
  <2>1. "EndOfFile" \in Kinds /\ offset \in 0..Len(source) /\ offset <= offset
    BY <1>3 DEF Kinds
  <2>2. last \in TokenType
    BY <1>3, <2>1, TokenIsTyped
  <2> QED
    BY <2>2 DEF Token
<1> HIDE DEF last
<1>5. Unterminated' = Unterminated
  <2>1. ~IsUnterminated(last)
    BY <1>4 DEF IsUnterminated
  <2> QED
    BY <1>1, <1>2, <1>4, <2>1, UnterminatedGrows
<1>6. Passed(TokensEnd, Frontier) = rest
  <2>1. \A o \in TokensEnd..Len(source) : OpenComment(o) => o < Len(source)
    <3>1. TokensEnd \in Nat
      BY <1>2, RangesOfTokens, TokensAreSequence DEF EndOfToken, TokensEnd
    <3>2. \A o \in TokensEnd..Len(source) : OpenComment(o) => o + 2 <= Len(source)
      BY DEF OpenComment
    <3> QED
      BY <1>3, <3>1, <3>2
  <2> QED
    BY <1>3, <2>1 DEF Passed
<1>7. EndOfToken(Len(tokens)-1)' = TokensEnd
  <2>1. /\ Len(tokens') = Len(tokens) + 1 /\ Len(tokens) \in Nat
        /\ \A i \in 1..Len(tokens) : tokens'[i] = tokens[i]
    BY <1>1, <1>2, <1>4, TokensAreSequence
  <2>2. Len(tokens') - 1 = Len(tokens)
    BY <2>1
  <2>3. Len(tokens) # 0 => tokens'[Len(tokens)] = tokens[Len(tokens)]
    BY <2>1
  <2> QED
    BY <2>2, <2>3 DEF EndOfToken, TokensEnd
<1>8. ErrorsAreTheUnterminated'
  <2> DEFINE all == Unterminated \cup ToTheEnd(rest)
  <2>1. ToSet(errors) = all
    BY <1>2, <1>6 DEF ErrorsSoFar
  <2>2. /\ \A o : OpenComment(o)' <=> OpenComment(o)
        /\ \A from, o : IsTrivia(from, o)' <=> IsTrivia(from, o)
    BY <1>1, TriviaStays, SameSourceSameTrivia
  <2>3. {o \in EndOfToken(Len(tokens)-1)..Len(source) :
           OpenComment(o) /\ IsTrivia(EndOfToken(Len(tokens)-1), o)}' = rest
    <3>1. PICK e : e = TokensEnd
      OBVIOUS
    <3>2. \A o : OpenComment(o)' /\ IsTrivia(e, o)' <=> OpenComment(o) /\ IsTrivia(e, o)
      BY <2>2
    <3>3. EndOfToken(Len(tokens)-1)' = e
      BY <1>7, <3>1
    <3> QED
      BY <1>1, <3>1, <3>2, <3>3
  <2>4. (Unterminated \cup ToTheEnd({o \in EndOfToken(Len(tokens)-1)..Len(source) :
           OpenComment(o) /\ IsTrivia(EndOfToken(Len(tokens)-1), o)}))' = all
    <3>1. \A places : ToTheEnd(places)' = ToTheEnd(places)
      BY <1>1, TriviaStays
    <3> QED
      BY <1>5, <2>3, <3>1
  <2>5. (IsInjective(errors) /\ ToSet(errors) = Unterminated \cup
           ToTheEnd({o \in EndOfToken(Len(tokens)-1)..Len(source) :
                       OpenComment(o) /\ IsTrivia(EndOfToken(Len(tokens)-1), o)}))'
    BY <1>1, <1>2, <2>1, <2>4
  <2> QED
    BY <2>5 DEF ErrorsAreTheUnterminated, Unterminated, ToTheEnd
<1> QED
  BY <1>1, <1>2, <1>8 DEF EInv

LEMMA StutterKeepsEInv ==
  ASSUME EInv, LInv', GInv', UNCHANGED vars
  PROVE  EInv'
<1>1. UNCHANGED <<source, offset, phase, begin, seen, tokens, errors>>
  BY DEF vars
<1>2. Unterminated' = Unterminated /\ TokensEnd' = TokensEnd /\ Frontier' = Frontier
  BY <1>1, UnterminatedStays DEF Frontier
<1>3. /\ \A from, to : Passed(from, to)' = Passed(from, to)
      /\ \A places : ToTheEnd(places)' = ToTheEnd(places)
  BY <1>1, TriviaStays
<1>4. /\ Passed(TokensEnd, Frontier)' = Passed(TokensEnd, Frontier)
      /\ ToTheEnd(Passed(TokensEnd, Frontier))' = ToTheEnd(Passed(TokensEnd, Frontier))
  BY <1>2, <1>3
<1>5. ErrorsSoFar => ErrorsSoFar'
  BY <1>1, <1>2, <1>4 DEF ErrorsSoFar
<1>6. CutsMeet => CutsMeet'
  <2>1. \A o, cuts : Cut(cuts, TokensEnd, o)' <=> Cut(cuts, TokensEnd, o)
    <3>1. PICK e : e = TokensEnd
      OBVIOUS
    <3>2. \A o, cuts : Cut(cuts, e, o)' <=> Cut(cuts, e, o)
      BY <1>1, TriviaStays
    <3> QED
      BY <1>2, <3>1, <3>2
  <2> QED
    BY <1>1, <2>1 DEF CutsMeet
<1>7. ErrorsAreTheUnterminated => ErrorsAreTheUnterminated'
  <2>1. \A token : IsUnterminated(token)' <=> IsUnterminated(token)
    BY <1>1, LexemesStay
  <2>2. \A from, to : IsTrivia(from, to)' <=> IsTrivia(from, to)
    BY <1>1, SameSourceSameTrivia
  <2>3. \A from : OpenComment(from)' <=> OpenComment(from)
    BY <1>1, TriviaStays
  <2>4. \A i : EndOfToken(i)' = EndOfToken(i)
    BY <1>1 DEF EndOfToken
  <2> QED
    BY <1>1, <2>1, <2>2, <2>3, <2>4 DEF ErrorsAreTheUnterminated
<1> QED
  BY <1>1, <1>5, <1>6, <1>7 DEF EInv

\* Only the literals that do not end are unterminated tokens.
LEMMA OthersAreTerminated ==
  ASSUME NEW token, token.kind # "Invalid" \/ At(token.begin) \notin {"\"", "'"}
  PROVE  ~IsUnterminated(token)
  BY DEF IsUnterminated

LEMMA StepKeepsEInv == EInv /\ [Next]_vars => EInv'
<1> SUFFICES ASSUME EInv, [Next]_vars PROVE EInv'
  OBVIOUS
<1>1. LInv' /\ GInv' /\ TypeOK /\ TypeOK'
  BY StepKeepsLInv, StepKeepsGInv DEF EInv, LInv, IInv
<1>2. /\ offset \in Nat /\ begin \in Nat /\ begin <= offset /\ Len(source) \in Nat
      /\ offset <= Len(source) /\ offset' \in Nat /\ Len(source') \in Nat
      /\ offset' <= Len(source')
      /\ phase \in {"number", "literal"} => begin < offset
  <2>1. Len(source) \in Nat /\ Len(source') \in Nat
    BY <1>1 DEF TypeOK
  <2> QED
    BY <1>1, <2>1 DEF TypeOK
<1>3. CASE SkipSpace \/ SkipLineComment \/ SkipBlockComment
  BY <1>1, <1>3, TriviaKeepsEInv
<1>4. CASE BeginNumber \/ BeginLiteral \/ ContinueNumber \/ EscapeInLiteral \/ ByteOfLiteral
  <2>1. /\ phase # "done" /\ phase' \in {"number", "literal"}
        /\ UNCHANGED <<source, tokens, errors>> /\ Frontier' = Frontier
    BY <1>4 DEF BeginNumber, BeginLiteral, ContinueNumber, ContinueNumberWith,
                EscapeInLiteral, ByteOfLiteral, AtToken, Frontier
  <2> QED
    BY <1>1, <2>1, InsideKeepsEInv
<1>5. CASE LexEndOfFile
  BY <1>1, <1>5, EndOfFileKeepsEInv
\* A delivery that reports nothing.
<1>6. ASSUME phase # "done", UNCHANGED <<source, errors>>, phase' = "scan",
             NEW kind \in Kinds, Frontier < offset',
             tokens' = Append(tokens, Token(kind, Frontier, offset')),
             kind # "Invalid" \/ At(Frontier) \notin {"\"", "'"}
      PROVE  EInv'
  <2> DEFINE to == offset'
             last == Token(kind, Frontier, to)
  <2>1. last.kind = kind /\ last.begin = Frontier
    BY DEF Token
  <2>2. ~IsUnterminated(last)
    BY <1>6, <2>1, OthersAreTerminated
  <2>3. to \in Nat /\ to <= Len(source)
    <3>1. Len(source') = Len(source)
      BY <1>6
    <3> QED
      BY <1>2, <3>1
  <2>4. /\ phase # "done" /\ UNCHANGED <<source, errors>> /\ phase' = "scan" /\ Frontier < to
        /\ tokens' = Append(tokens, Token(kind, Frontier, to)) /\ offset' = to
    BY <1>6
  <2>5. ~IsUnterminated(Token(kind, Frontier, to))
    BY <2>2
  <2> HIDE DEF to, last
  <2> QED
    BY <1>1, <2>3, <2>4, <2>5, DeliveryKeepsEInv
<1>7. CASE LexIdentifierOrKeyword
  <2> DEFINE end == Min({o \in offset+1..Len(source) :
                           o = Len(source) \/ At(o) \notin IdentifierContinue})
             kind == WordKind(Bytes(offset, end))
  <2>1. /\ phase = "scan" /\ phase' = "scan" /\ UNCHANGED <<source, errors>> /\ ~AtEnd
        /\ tokens' = Append(tokens, Token(WordKind(Bytes(offset, end)), offset, end))
        /\ offset' = end
    BY <1>7 DEF LexIdentifierOrKeyword, AtToken, Deliver
  <2>2. end \in offset+1..Len(source)
    BY <1>1, <2>1, WordStops
  <2>3. kind \in Kinds /\ kind # "Invalid"
    BY KindsOfTokens, KindsOfLexemes
  <2>4. tokens' = Append(tokens, Token(kind, offset, offset'))
    BY <2>1
  <2> HIDE DEF end, kind
  <2>5. offset < offset'
    BY <1>2, <2>1, <2>2
  <2>6. Frontier = offset
    BY <2>1 DEF Frontier
  <2> QED
    BY <1>6, <2>1, <2>3, <2>4, <2>5, <2>6
<1>8. CASE LexPunctuation
  <2>1. /\ phase = "scan" /\ phase' = "scan" /\ UNCHANGED <<source, errors>> /\ Frontier = offset
        /\ At(offset) \notin {"\"", "'"}
    BY <1>8 DEF LexPunctuation, LexPunctuationUsing, AtToken, Frontier, Current
  <2>2. CASE <<Current, Peek>> \in Pairs
    <3> DEFINE kind == PairKind(<<Current, Peek>>)
    <3>1. tokens' = Append(tokens, Token(kind, offset, offset+2)) /\ offset' = offset + 2
      BY <1>8, <2>2 DEF LexPunctuation, LexPunctuationUsing
    <3>2. kind \in Kinds
      BY <2>2, KindsOfTokens
    <3>3. offset < offset'
      BY <1>2, <3>1
    <3>4. tokens' = Append(tokens, Token(kind, offset, offset'))
      BY <3>1
    <3> HIDE DEF kind
    <3> QED
      BY <1>6, <2>1, <3>2, <3>3, <3>4
  <2>3. CASE <<Current, Peek>> \notin Pairs
    <3> DEFINE kind == IF Current \in Singles THEN Current ELSE "Invalid"
    <3>1. tokens' = Append(tokens, Token(kind, offset, offset+1)) /\ offset' = offset + 1
      BY <1>8, <2>3 DEF LexPunctuation, LexPunctuationUsing, Deliver
    <3>2. kind \in Kinds
      BY KindsOfTokens
    <3>3. offset < offset'
      BY <1>2, <3>1
    <3>4. tokens' = Append(tokens, Token(kind, offset, offset'))
      BY <3>1
    <3> HIDE DEF kind
    <3> QED
      BY <1>6, <2>1, <3>2, <3>3, <3>4
  <2> QED
    BY <2>2, <2>3
<1>9. CASE EndNumber
  <2> DEFINE kind == IF seen.dot \/ seen.exponent THEN "FloatingLiteral" ELSE "IntegerLiteral"
  <2>1. /\ phase = "number" /\ phase' = "scan" /\ UNCHANGED <<source, errors>>
        /\ tokens' = Append(tokens, Token(kind, begin, offset)) /\ offset' = offset
    BY <1>9 DEF EndNumber, Deliver
  <2>2. kind \in Kinds /\ kind # "Invalid"
    BY KindsOfTokens
  <2> HIDE DEF kind
  <2>3. Frontier = begin /\ begin < offset
    BY <1>2, <2>1 DEF Frontier
  <2> QED
    BY <1>6, <2>1, <2>2, <2>3
<1>10. CASE CloseLiteral
  <2> DEFINE kind == LiteralKind(Quote)
  <2>1. /\ phase = "literal" /\ phase' = "scan" /\ UNCHANGED <<source, errors>>
        /\ tokens' = Append(tokens, Token(kind, begin, offset+1)) /\ offset' = offset + 1
    BY <1>10 DEF CloseLiteral, Deliver
  <2>2. kind \in Kinds /\ kind # "Invalid"
    BY KindsOfTokens DEF LiteralKind
  <2> HIDE DEF kind
  <2>3. Frontier = begin /\ begin < offset + 1
    BY <1>2, <2>1 DEF Frontier
  <2> QED
    BY <1>6, <2>1, <2>2, <2>3
<1>11. CASE UnterminatedLiteral
  <2>1. /\ phase = "literal" /\ phase' = "scan" /\ UNCHANGED source /\ offset' = offset
        /\ tokens' = Append(tokens, Token("Invalid", begin, offset))
        /\ errors' = Append(errors, Entry(begin, offset))
    BY <1>11 DEF UnterminatedLiteral, Deliver, ReportUnterminated, Entry
  <2>2. Frontier = begin /\ begin < offset
    BY <1>2, <2>1 DEF Frontier
  <2>3. IsUnterminated(Token("Invalid", begin, offset))
    BY <1>11, UnterminatedIsUnterminated DEF EInv
  <2>4. "Invalid" \in Kinds
    BY KindsOfTokens
  <2> QED
    BY <1>1, <1>2, <2>1, <2>2, <2>3, <2>4, DeliveryKeepsEInv
<1>12. CASE UNCHANGED vars
  BY <1>1, <1>12, StutterKeepsEInv
<1> QED
  BY <1>3, <1>4, <1>5, <1>7, <1>8, <1>9, <1>10, <1>11, <1>12 DEF Next, LexerStep, Done

LEMMA InitEstablishesEInv == Init => EInv
<1> SUFFICES ASSUME Init PROVE EInv
  OBVIOUS
<1>1. /\ phase = "scan" /\ offset = 0 /\ tokens = <<>> /\ errors = <<>> /\ source \in Seq(STRING)
  BY SourcesAssumption DEF Init
<1>2. LInv
  <2>1. TokensAreLexemes
    BY <1>1 DEF TokensAreLexemes
  <2> QED
    BY <1>1, <2>1, InitEstablishesIInv DEF LInv
<1>3. GInv
  <2>1. Frontier = 0 /\ Len(tokens) = 0 /\ EndOfToken(0) = 0
    BY <1>1 DEF Frontier, EndOfToken
  <2>2. GapsAreTrivia
    BY <1>1 DEF GapsAreTrivia
  <2> QED
    BY <2>1, <2>2, EmptyIsTrivia, InitEstablishesIInv DEF GInv
<1>4. TokensEnd = 0 /\ Frontier = 0 /\ Len(source) \in Nat
  BY <1>1 DEF TokensEnd, EndOfToken, Frontier
<1>5. ToSet(tokens) = {} /\ ToSet(errors) = {} /\ IsInjective(errors) /\ Len(errors) = 0
  BY <1>1 DEF ToSet, IsInjective
<1>6. Passed(TokensEnd, Frontier) = {}
  BY <1>4 DEF Passed
<1>7. Unterminated = {}
  BY <1>5 DEF Unterminated
<1>8. ErrorsSoFar
  BY <1>5, <1>6, <1>7, ToTheEndOfSets DEF ErrorsSoFar
<1>9. CutsMeet
  BY <1>1, <1>4 DEF CutsMeet, Cut
<1> QED
  BY <1>1, <1>2, <1>3, <1>5, <1>8, <1>9 DEF EInv, ErrorsAreTheUnterminated

(***************************************************************************)
(* Whatever the bytes of a source are, lex_all reports the literals that   *)
(* do not end and the comment that takes the rest of the source, each once *)
(* and at its bytes, and nothing else.                                     *)
(***************************************************************************)
THEOREM ExactlyTheUnterminatedIsReported == Spec => []ErrorsAreTheUnterminated
<1>1. EInv => ErrorsAreTheUnterminated
  BY DEF EInv
<1> QED
  BY <1>1, InitEstablishesEInv, StepKeepsEInv, PTL DEF Spec

=============================================================================
