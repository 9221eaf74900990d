---------------------------- MODULE ParserProofs ----------------------------
(***************************************************************************)
(* The parser, for every set of token streams: its type invariant, that    *)
(* every step makes progress, and that the children of a function body own *)
(* its tokens exactly once. Then what the later stages rely on in the tree *)
(* the parser returns: each token has one owner, the body of a function is *)
(* in source order, no construct is incomplete without an error, every     *)
(* node has a range of the source, every `try` is what the parser reads    *)
(* at one token, and no node or part of one that the backend copies is cut *)
(* inside a token.                                                         *)
(***************************************************************************)
EXTENDS Parser, ValueLemmas, SequenceTheorems

-----------------------------------------------------------------------------
(* Scans and token ranges.                                                 *)

\* What a token stream gives about its indices and offsets.
LEMMA StreamFacts ==
  ASSUME IsTokenStream(tokens)
  PROVE  /\ Len(tokens) \in Nat \ {0}
         /\ Kind(Len(tokens)) = "EndOfFile"
         /\ \A i \in 1..Len(tokens) :
              /\ tokens[i].begin \in Nat /\ tokens[i].end \in Nat
              /\ tokens[i].begin <= tokens[i].end
              /\ i < Len(tokens) => tokens[i].begin < tokens[i].end
         /\ \A i, j \in 1..Len(tokens) : i < j => tokens[i].end <= tokens[j].begin
<1> DEFINE Token == [kind : STRING, text : STRING, begin : Nat, end : Nat]
<1>1. tokens \in Seq(Token) /\ tokens # <<>>
  BY DEF IsTokenStream, TokensInOrder
<1>2. Len(tokens) \in Nat \ {0}
  BY <1>1, EmptySeq
<1>3. \A i \in 1..Len(tokens) : tokens[i] \in Token
  <2> HIDE DEF Token
  <2>1. QED
    BY <1>1, ElementOfSeq
<1>4. Kind(Len(tokens)) = "EndOfFile"
  BY <1>2 DEF IsTokenStream, TokensInOrder, Kind
<1>5. \A i \in 1..Len(tokens) :
              /\ tokens[i].begin \in Nat /\ tokens[i].end \in Nat
  BY <1>3
<1>6. \A i \in 1..Len(tokens)-1 : tokens[i].begin < tokens[i].end
  BY DEF IsTokenStream, TokensInOrder
<1>7. tokens[Len(tokens)].begin = tokens[Len(tokens)].end
  BY DEF IsTokenStream, TokensInOrder
<1>8. ASSUME NEW i \in 1..Len(tokens)
      PROVE  /\ tokens[i].begin <= tokens[i].end
             /\ i < Len(tokens) => tokens[i].begin < tokens[i].end
  <2>1. CASE i = Len(tokens)
    BY <1>2, <1>5, <1>7, <2>1
  <2>2. CASE i < Len(tokens)
    <3>1. i \in 1..Len(tokens)-1
      BY <1>2, <2>2
    <3>2. QED
      BY <1>5, <1>6, <3>1
  <2>3. QED
    BY <1>2, <2>1, <2>2
<1>9. \A i, j \in 1..Len(tokens) : i < j => tokens[i].end <= tokens[j].begin
  BY DEF IsTokenStream, TokensInOrder
<1>10. QED
  BY <1>2, <1>4, <1>5, <1>8, <1>9

\* Every scanning loop stops between its first token and the end of file.
LEMMA ScansStop ==
  ASSUME IsTokenStream(tokens), NEW first \in 1..Len(tokens)
  PROVE  /\ \A stops : ScanOpaqueRegion(first, stops) \in first..Len(tokens)
         /\ FailureTypeEnd(first) \in first..Len(tokens)
         /\ RegionEnd(first) \in first..Len(tokens)
<1>1. Len(tokens) \in Nat /\ AtEnd(Len(tokens))
  BY StreamFacts DEF AtEnd
<1>2. ASSUME NEW stops
      PROVE ScanOpaqueRegion(first, stops) \in first..Len(tokens)
  <2> DEFINE S == {i \in first..Len(tokens) : \/ AtEnd(i)
                                              \/ Outer(first, i) /\ Kind(i) \in stops
                                              \/ Unmatched(first, i)}
  <2>1. S \in SUBSET (first..Len(tokens))
    OBVIOUS
  <2>2. Len(tokens) \in S
    BY <1>1
  <2>3. Min(S) \in first..Len(tokens)
    <3> HIDE DEF S
    <3>1. QED
      BY <1>1, <2>1, <2>2, ScanStops
  <2>4. QED
    BY <2>3 DEF ScanOpaqueRegion
<1>3. FailureTypeEnd(first) \in first..Len(tokens)
  <2> DEFINE S == {i \in first..Len(tokens) :
             \/ AtEnd(i)
             \/ /\ Kind(i) \in {"{", ";"}
                /\ Depth("(", ")", first, i) = 0 /\ Depth("[", "]", first, i) = 0
             \/ Kind(i) = ")" /\ Depth("(", ")", first, i) = 0
             \/ Kind(i) = "]" /\ Depth("[", "]", first, i) = 0}
  <2>1. S \in SUBSET (first..Len(tokens))
    OBVIOUS
  <2>2. Len(tokens) \in S
    BY <1>1
  <2>3. Min(S) \in first..Len(tokens)
    <3> HIDE DEF S
    <3>1. QED
      BY <1>1, <2>1, <2>2, ScanStops
  <2>4. QED
    BY <2>3 DEF FailureTypeEnd
<1>4. RegionEnd(first) \in first..Len(tokens)
  <2> DEFINE S == {i \in first..Len(tokens) : AtEnd(i) \/ StartsConstruct(i)}
  <2>1. S \in SUBSET (first..Len(tokens))
    OBVIOUS
  <2>2. Len(tokens) \in S
    BY <1>1
  <2>3. Min(S) \in first..Len(tokens)
    <3> HIDE DEF S
    <3>1. QED
      BY <1>1, <2>1, <2>2, ScanStops
  <2>4. QED
    BY <2>3 DEF RegionEnd
<1>5. QED
  BY <1>2, <1>3, <1>4

\* A "(" matched from the ")" before `end` lies before `end`.
LEMMA LeftParenBefore ==
  ASSUME IsTokenStream(tokens), NEW closing \in 1..Len(tokens),
         MatchingLeftParen(closing) # NotFound
  PROVE  MatchingLeftParen(closing) \in 1..closing
<1> DEFINE S == {i \in 1..closing : /\ Kind(i) = "("
                                    /\ Depth("(", ")", i, closing + 1) = 0}
<1>1. S # {} /\ MatchingLeftParen(closing) = Max(S)
  BY DEF MatchingLeftParen
<1>2. S \in SUBSET (0..closing) /\ closing \in Nat
  BY StreamFacts
<1>3. Max(S) \in S
  <2> HIDE DEF S
  <2>1. QED
    BY <1>1, <1>2, MaxOfNaturals
<1>4. QED
  BY <1>1, <1>3

\* The range of the tokens first..end-1 owns exactly these tokens.
LEMMA RangeOwnsItsTokens ==
  ASSUME IsTokenStream(tokens),
         NEW first \in 1..Len(tokens), NEW end \in first+1..Len(tokens)+1,
         NEW node, node.range = RangeOfTokens(first, end),
         NEW i \in 1..Len(tokens)-1
  PROVE  Owns(node, i) <=> first <= i /\ i < end
<1>1. node.range = [begin |-> tokens[first].begin, end |-> tokens[end-1].end]
  BY StreamFacts DEF RangeOfTokens
<1>2. end-1 \in 1..Len(tokens) /\ i \in 1..Len(tokens) /\ i < Len(tokens)
  BY StreamFacts
<1>3. /\ tokens[i].begin \in Nat /\ tokens[i].end \in Nat
      /\ tokens[i].begin < tokens[i].end
      /\ tokens[first].begin \in Nat /\ tokens[first].end \in Nat
      /\ tokens[end-1].begin \in Nat /\ tokens[end-1].end \in Nat
      /\ tokens[first].begin <= tokens[first].end
      /\ tokens[end-1].begin <= tokens[end-1].end
  BY <1>2, StreamFacts
<1>4. /\ i < first => tokens[i].end <= tokens[first].begin
      /\ first < i => tokens[first].end <= tokens[i].begin
      /\ i < end-1 => tokens[i].end <= tokens[end-1].begin
      /\ end-1 < i => tokens[end-1].end <= tokens[i].begin
      /\ first < end-1 => tokens[first].end <= tokens[end-1].begin
  BY <1>2, StreamFacts
<1>5. PICK firstBegin, lastEnd, begin, tokenEnd \in Nat :
        /\ firstBegin = tokens[first].begin /\ lastEnd = tokens[end-1].end
        /\ begin = tokens[i].begin /\ tokenEnd = tokens[i].end
  BY <1>3
<1>6. PICK firstEnd, lastBegin \in Nat :
        firstEnd = tokens[first].end /\ lastBegin = tokens[end-1].begin
  BY <1>3
<1>7. /\ begin < tokenEnd /\ firstBegin <= firstEnd /\ lastBegin <= lastEnd
      /\ first = i => begin = firstBegin
      /\ i = end-1 => tokenEnd = lastEnd
      /\ first = end-1 => firstBegin = lastBegin
  BY <1>3, <1>5, <1>6
<1>8. /\ i < first => tokenEnd <= firstBegin
      /\ first < i => firstEnd <= begin
      /\ i < end-1 => tokenEnd <= lastBegin
      /\ end-1 < i => lastEnd <= begin
      /\ first < end-1 => firstEnd <= lastBegin
  BY <1>4, <1>5, <1>6
<1>9. first \in Int /\ i \in Int /\ end \in Int /\ first < end
  BY StreamFacts
<1>10. firstBegin <= lastEnd
  BY <1>7, <1>8, <1>9
<1>11. Owns(node, i) <=> firstBegin <= begin /\ tokenEnd <= lastEnd
  <2>1. node.range = [begin |-> firstBegin, end |-> lastEnd]
    BY <1>1, <1>5
  <2>2. Owns(node, i) <=> Within([begin |-> begin, end |-> tokenEnd], node.range)
    BY <1>5 DEF Owns
  <2>3. QED
    BY <1>7, <1>10, <2>1, <2>2 DEF Within, ValidRange
<1>12. firstBegin <= begin /\ tokenEnd <= lastEnd <=> first <= i /\ i < end
  <2>1. ASSUME first <= i, i < end
        PROVE  firstBegin <= begin /\ tokenEnd <= lastEnd
    BY <1>7, <1>8, <1>9, <2>1
  <2>2. ASSUME i < first
        PROVE  ~(firstBegin <= begin)
    BY <1>7, <1>8, <2>2
  <2>3. ASSUME end <= i
        PROVE  ~(tokenEnd <= lastEnd)
    BY <1>7, <1>8, <1>9, <2>3
  <2>4. QED
    BY <1>9, <2>1, <2>2, <2>3
<1>13. QED
  BY <1>11, <1>12

\* A range that ends before a token does not own it.
LEMMA RangeOwnsNoLaterToken ==
  ASSUME IsTokenStream(tokens), NEW i \in 1..Len(tokens)-1,
         NEW first \in Int, NEW end \in 0..i,
         NEW node, node.range = RangeOfTokens(first, end)
  PROVE  ~Owns(node, i)
<1>1. CASE node.range = NoRange
  BY <1>1 DEF Owns, Within, ValidRange, NoRange, Invalid
<1>2. CASE node.range # NoRange
  <2>0. 1 <= first /\ first < end /\ node.range.end = tokens[end-1].end
    BY <1>2 DEF RangeOfTokens
  <2>1. /\ end - 1 \in 1..Len(tokens) /\ end - 1 < i
        /\ node.range.end = tokens[end-1].end
    BY <2>0, StreamFacts
  <2>2. tokens[end-1].end <= tokens[i].begin /\ tokens[i].begin < tokens[i].end
    BY <2>1, StreamFacts
  <2>3. /\ tokens[end-1].end \in Nat /\ tokens[i].begin \in Nat
        /\ tokens[i].end \in Nat
    BY <2>1, StreamFacts
  <2>4. QED
    BY <2>1, <2>2, <2>3 DEF Owns, Within
<1>3. QED
  BY <1>1, <1>2

-----------------------------------------------------------------------------
(* Constructs and headers.                                                 *)

\* A parse function that starts at token `at` consumes at least this token,
\* stops before or at the end of file, and its node spans what it consumed.
Spans(parsed, first, at) ==
  /\ parsed.next \in at+1..Len(tokens)
  /\ parsed.node.range = RangeOfTokens(first, parsed.next)

LEMMA NextToken ==
  ASSUME IsTokenStream(tokens), NEW at \in 1..Len(tokens), Kind(at) # "EndOfFile"
  PROVE  at < Len(tokens) /\ at + 1 \in 1..Len(tokens)
  BY StreamFacts

LEMMA SemicolonStep ==
  ASSUME IsTokenStream(tokens), NEW at \in 1..Len(tokens)
  PROVE  AfterSemicolon(at) \in at..Len(tokens)
<1>1. CASE Kind(at) = ";"
  <2>1. Kind(at) # "EndOfFile"
    BY <1>1
  <2>2. at + 1 \in at..Len(tokens)
    BY <2>1, NextToken
  <2>3. QED
    BY <1>1, <2>2 DEF AfterSemicolon
<1>2. CASE Kind(at) # ";"
  <2>1. at \in at..Len(tokens)
    BY StreamFacts
  <2>2. QED
    BY <1>2, <2>1 DEF AfterSemicolon
<1>3. QED
  BY <1>1, <1>2

LEMMA TryExpressionSpans ==
  ASSUME IsTokenStream(tokens), NEW at \in 1..Len(tokens), Kind(at) # "EndOfFile"
  PROVE  Spans(TryExpression(at), at, at)
<1>1. ScanOpaqueRegion(at + 1, OperandStops) \in at+1..Len(tokens)
  BY NextToken, ScansStop
<1>2. CASE ScanOpaqueRegion(at + 1, OperandStops) = at + 1
  BY <1>1, <1>2 DEF TryExpression, Parsed, Node, Spans
<1>3. CASE ScanOpaqueRegion(at + 1, OperandStops) # at + 1
  BY <1>1, <1>3 DEF TryExpression, Parsed, Node, Spans
<1>4. QED
  BY <1>2, <1>3

LEMMA FailStatementSpans ==
  ASSUME IsTokenStream(tokens), NEW at \in 1..Len(tokens), Kind(at) # "EndOfFile"
  PROVE  Spans(FailStatement(at), at, at)
<1> DEFINE first == at + 1
           end == ScanOpaqueRegion(first, StatementStops)
           payload == IF Kind(first) = "try" /\ Kind(first + 1) # "{"
                      THEN TryExpression(first)
                      ELSE Parsed(CxxRegion(first, end), end, <<>>)
           next == AfterSemicolon(payload.next)
<1>1. first \in 1..Len(tokens) /\ end \in first..Len(tokens)
  BY NextToken, ScansStop
<1>2. payload.next \in first..Len(tokens)
  <2>1. CASE Kind(first) = "try" /\ Kind(first + 1) # "{"
    <3>1. Kind(first) # "EndOfFile"
      BY <2>1
    <3>2. TryExpression(first).next \in first+1..Len(tokens)
      BY <1>1, <3>1, TryExpressionSpans DEF Spans
    <3>3. payload = TryExpression(first)
      BY <2>1
    <3>4. QED
      <4> HIDE DEF payload, first
      <4>1. first \in Nat
        BY <1>1
      <4>2. QED
        BY <4>1, <3>2, <3>3, StreamFacts
  <2>2. CASE ~(Kind(first) = "try" /\ Kind(first + 1) # "{")
    BY <1>1, <2>2 DEF Parsed
  <2>3. QED
    BY <2>1, <2>2
<1>3. next \in first..Len(tokens)
  <2> HIDE DEF payload, first
  <2>1. AfterSemicolon(payload.next) \in payload.next..Len(tokens)
    <3>1. payload.next \in 1..Len(tokens)
      BY <1>1, <1>2
    <3>2. QED
      BY <3>1, SemicolonStep
  <2>2. QED
    BY <1>1, <1>2, <2>1
<1>4. /\ FailStatement(at).next = next
      /\ FailStatement(at).node.range = RangeOfTokens(at, next)
  BY DEF FailStatement, Parsed, Node
<1>5. QED
  BY <1>3, <1>4 DEF Spans

LEMMA ReturnStatementSpans ==
  ASSUME IsTokenStream(tokens), NEW at \in 1..Len(tokens), Kind(at) # "EndOfFile"
  PROVE  Spans(ReturnStatement(at), at, at)
<1> DEFINE end == ScanOpaqueRegion(at + 1, StatementStops)
<1>1. at + 1 \in 1..Len(tokens) /\ end \in at+1..Len(tokens)
  BY NextToken, ScansStop
<1>2. AfterSemicolon(end) \in end..Len(tokens)
  <2> HIDE DEF end
  <2>1. end \in 1..Len(tokens)
    BY <1>1
  <2>2. QED
    BY <2>1, SemicolonStep
<1>3. /\ ReturnStatement(at).next = AfterSemicolon(end)
      /\ ReturnStatement(at).node.range = RangeOfTokens(at, AfterSemicolon(end))
  BY DEF ReturnStatement, Parsed, Node
<1>4. QED
  BY <1>1, <1>2, <1>3 DEF Spans

LEMMA FailureSpecificationSpans ==
  ASSUME IsTokenStream(tokens), NEW at \in 1..Len(tokens), Kind(at) # "EndOfFile"
  PROVE  Spans(FailureSpecification(at), at, at)
<1>1. FailureTypeEnd(at + 1) \in at+1..Len(tokens)
  BY NextToken, ScansStop
<1>2. QED
  BY <1>1 DEF FailureSpecification, Parsed, Node, Spans

LEMMA TryInitializationSpans ==
  ASSUME IsTokenStream(tokens), NEW at \in 1..Len(tokens), Kind(at) # "EndOfFile",
         NEW declaration
  PROVE  Spans(TryInitialization(declaration, at), declaration, at)
<1>1. TryExpression(at).next \in at+1..Len(tokens)
  BY TryExpressionSpans DEF Spans
<1>2. AfterSemicolon(TryExpression(at).next) \in TryExpression(at).next..Len(tokens)
  <2>1. TryExpression(at).next \in 1..Len(tokens)
    BY <1>1
  <2>2. QED
    BY <2>1, SemicolonStep
<1>3. /\ TryInitialization(declaration, at).next = AfterSemicolon(TryExpression(at).next)
      /\ TryInitialization(declaration, at).node.range
           = RangeOfTokens(declaration, AfterSemicolon(TryExpression(at).next))
  BY DEF TryInitialization, Parsed, Node
<1>4. QED
  BY <1>1, <1>2, <1>3 DEF Spans

LEMMA ConstructSpans ==
  ASSUME IsTokenStream(tokens), NEW at \in 1..Len(tokens), StartsConstruct(at)
  PROVE  Spans(Construct(at), at, at)
<1>1. Kind(at) \in {"fail", "fails", "try"}
  BY DEF StartsConstruct
<1>2. Kind(at) # "EndOfFile"
  BY <1>1
<1>3. Construct(at) \in {FailStatement(at), FailureSpecification(at), TryExpression(at)}
  BY <1>1 DEF Construct
<1>4. QED
  BY <1>2, <1>3, FailStatementSpans, FailureSpecificationSpans, TryExpressionSpans

-----------------------------------------------------------------------------
(* The nodes of a list own the tokens from..to-1 exactly once.             *)

\* The node owns no token from index `from` on.
Clear(node, from) == \A i \in from..Len(tokens)-1 : ~Owns(node, i)

Tiles(nodes, from, to) ==
  /\ IsList(nodes)
  /\ \A k \in 1..Len(nodes) : Clear(nodes[k], to)
  /\ \A i \in from..to-1 : OwnedOnce(nodes, i)

\* Pushing a node that owns the tokens to..next-1 extends the tiling.
LEMMA TilingExtendsBy ==
  ASSUME IsTokenStream(tokens),
         NEW from \in 1..Len(tokens), NEW to \in from..Len(tokens),
         NEW next \in to+1..Len(tokens),
         NEW nodes, Tiles(nodes, from, to),
         NEW node, \A i \in 1..Len(tokens)-1 : Owns(node, i) <=> to <= i /\ i < next
  PROVE  Tiles(nodes \o <<node>>, from, next)
<1> DEFINE longer == nodes \o <<node>>
<1>1. /\ IsList(longer) /\ Len(nodes) \in Nat
      /\ Len(longer) = Len(nodes) + 1
      /\ \A k \in 1..Len(nodes) : longer[k] = nodes[k]
      /\ longer[Len(nodes) + 1] = node
  BY PushedElement DEF Tiles
<1>2. \A i \in 1..Len(tokens)-1 : Owns(node, i) <=> to <= i /\ i < next
  OBVIOUS
<1> HIDE DEF longer
<1>3. ASSUME NEW k \in 1..Len(longer) PROVE Clear(longer[k], next)
  <2>1. CASE k \in 1..Len(nodes)
    <3>1. Clear(nodes[k], to)
      BY <2>1 DEF Tiles
    <3>2. QED
      BY <1>1, <2>1, <3>1, StreamFacts DEF Clear
  <2>2. CASE k = Len(nodes) + 1
    BY <1>1, <1>2, <2>2, StreamFacts DEF Clear
  <2>3. QED
    BY <1>1, <2>1, <2>2
<1>4. ASSUME NEW i \in from..next-1 PROVE OwnedOnce(longer, i)
  <2>1. CASE i < to
    <3>1. i \in from..to-1
      BY <2>1
    <3>2. PICK k \in 1..Len(nodes) :
            \A l \in 1..Len(nodes) : Owns(nodes[l], i) <=> l = k
      BY <3>1 DEF Tiles, OwnedOnce
    <3>3. ~Owns(node, i)
      BY <1>2, <2>1, StreamFacts
    <3>4. ASSUME NEW l \in 1..Len(longer) PROVE Owns(longer[l], i) <=> l = k
      <4>1. CASE l \in 1..Len(nodes)
        BY <1>1, <3>2, <4>1
      <4>2. CASE l = Len(nodes) + 1
        BY <1>1, <3>3, <4>2
      <4>3. QED
        BY <1>1, <4>1, <4>2
    <3>5. k \in 1..Len(longer)
      BY <1>1
    <3>6. QED
      BY <3>4, <3>5 DEF OwnedOnce
  <2>2. CASE to <= i
    <3>1. i \in to..Len(tokens)-1 /\ i \in 1..Len(tokens)-1
      BY <2>2, StreamFacts
    <3>2. \A l \in 1..Len(nodes) : ~Owns(nodes[l], i)
      BY <3>1 DEF Tiles, Clear
    <3>3. Owns(node, i)
      BY <1>2, <2>2, <3>1
    <3>4. ASSUME NEW l \in 1..Len(longer)
          PROVE  Owns(longer[l], i) <=> l = Len(nodes) + 1
      <4>1. CASE l \in 1..Len(nodes)
        BY <1>1, <3>2, <4>1
      <4>2. CASE l = Len(nodes) + 1
        BY <1>1, <3>3, <4>2
      <4>3. QED
        BY <1>1, <4>1, <4>2
    <3>5. Len(nodes) + 1 \in 1..Len(longer)
      BY <1>1
    <3>6. QED
      BY <3>4, <3>5 DEF OwnedOnce
  <2>3. QED
    BY <2>1, <2>2
<1>5. QED
  BY <1>1, <1>3, <1>4 DEF Tiles, longer

\* The range of the tokens to..next-1 is such a node.
LEMMA TilingExtends ==
  ASSUME IsTokenStream(tokens),
         NEW from \in 1..Len(tokens), NEW to \in from..Len(tokens),
         NEW next \in to+1..Len(tokens),
         NEW nodes, Tiles(nodes, from, to),
         NEW node, node.range = RangeOfTokens(to, next)
  PROVE  Tiles(nodes \o <<node>>, from, next)
<1>1. to \in 1..Len(tokens) /\ next \in to+1..Len(tokens)+1
  BY StreamFacts
<1>2. \A i \in 1..Len(tokens)-1 : Owns(node, i) <=> to <= i /\ i < next
  BY <1>1, RangeOwnsItsTokens
<1>3. QED
  BY <1>2, TilingExtendsBy

-----------------------------------------------------------------------------
(* The header of a function declaration.                                   *)

LEMMA DeclarationBeginIsNatural ==
  ASSUME IsTokenStream(tokens), NEW first \in 1..Len(tokens)+1, NEW end \in 1..Len(tokens)
  PROVE  DeclarationBegin(first, end) \in Nat /\ first <= DeclarationBegin(first, end)
<1> DEFINE ends == {j \in first..end-1 : \/ Kind(j) = ";" /\ AtOuterBrace(first, j)
                                         \/ Kind(j) = "}" /\ AtOuterBrace(first, j + 1)}
           S == {first} \cup {i + 1 : i \in ends}
<1>1. ends \subseteq first..end-1
  <2> SUFFICES ASSUME NEW i \in ends PROVE i \in first..end-1
    OBVIOUS
  <2>1. QED
    BY Zenon
<1> HIDE DEF ends
<1>2. S \in SUBSET (0..Len(tokens)+1) /\ S # {}
  BY <1>1, StreamFacts
<1>3. Max(S) \in S /\ first <= Max(S)
  <2>0. first \in S
    OBVIOUS
  <2> HIDE DEF S
  <2>1. Len(tokens) + 1 \in Nat
    BY StreamFacts
  <2>2. QED
    BY <1>2, <2>0, <2>1, MaxOfNaturals
<1>4. DeclarationBegin(first, end) = Max(S)
  BY DEF DeclarationBegin, ends
<1>5. QED
  BY <1>2, <1>3, <1>4

\* Two lists of nodes clear of the tokens from `from` on make one such list.
AllClear(nodes, from) == IsList(nodes) /\ \A k \in 1..Len(nodes) : Clear(nodes[k], from)

LEMMA ConcatIsClear ==
  ASSUME NEW s, NEW t, NEW from, AllClear(s, from), AllClear(t, from)
  PROVE  AllClear(s \o t, from)
<1>1. IsList(s) /\ IsList(t)
  BY DEF AllClear
<1> DEFINE both == s \o t
<1>2. /\ IsList(both) /\ Len(s) \in Nat /\ Len(t) \in Nat
      /\ Len(both) = Len(s) + Len(t)
      /\ \A k \in 1..Len(s) : both[k] = s[k]
      /\ \A k \in 1..Len(t) : both[Len(s) + k] = t[k]
  BY <1>1, ConcatOfLists
<1> HIDE DEF both
<1>3. ASSUME NEW k \in 1..Len(both) PROVE Clear(both[k], from)
  <2>1. CASE k \in 1..Len(s)
    BY <1>2, <2>1 DEF AllClear
  <2>2. CASE k \notin 1..Len(s)
    <3>1. k - Len(s) \in 1..Len(t) /\ Len(s) + (k - Len(s)) = k
      BY <1>2, <2>2
    <3>2. both[k] = t[k - Len(s)]
      BY <1>2, <3>1
    <3>3. QED
      BY <3>1, <3>2 DEF AllClear
  <2>3. QED
    BY <2>1, <2>2
<1>4. QED
  BY <1>2, <1>3 DEF AllClear, both

LEMMA SingletonIsClear ==
  ASSUME NEW node, NEW from, Clear(node, from)
  PROVE  AllClear(<<node>>, from)
BY SingletonList DEF AllClear

LEMMA EmptyIsClear == ASSUME NEW from PROVE AllClear(<<>>, from)
BY EmptyList DEF AllClear

\* The header children own no token after the `fails` they precede.
LEMMA HeaderIsClear ==
  ASSUME IsTokenStream(tokens), NEW at \in 1..Len(tokens), Kind(at) = "fails",
         NEW prefix, prefix.range.end = tokens[at].begin
  PROVE  AllClear(Header(prefix, at).children, at + 1)
<1> DEFINE first == PrefixBegin(prefix, at)
           open == IF first < at THEN MatchingLeftParen(at - 1) ELSE NotFound
           begin == DeclarationBegin(first, open)
           type == Node("FunctionReturnType", RangeOfTokens(begin, open - 1), <<>>)
           name == Node("FunctionName", RangeOfTokens(open - 1, open), <<>>)
           named == NoChildIf(~HasSupportedFunctionName(begin, open), name)
           declarator == Node("FunctionDeclarator", RangeOfTokens(open - 1, at), <<>>)
<1>1. first = NotFound \/ first \in 1..at-1
  <2> DEFINE S == {i \in 1..at-1 : tokens[i].begin >= prefix.range.begin}
  <2>1. CASE S = {}
    BY <2>1 DEF PrefixBegin
  <2>2. CASE S # {}
    <3>1. S \in SUBSET Nat
      OBVIOUS
    <3>2. Min(S) \in S
      <4> HIDE DEF S
      <4>1. QED
        BY <2>2, <3>1, MinOfNaturals
    <3>3. QED
      BY <2>2, <3>2 DEF PrefixBegin
  <2>3. QED
    BY <2>1, <2>2
<1> HIDE DEF first
<1>2. CASE open \in {NotFound, first}
  <2>1. Header(prefix, at).children = <<prefix>>
    BY <1>2 DEF Header, first
  <2>2. Clear(prefix, at + 1)
    <3> SUFFICES ASSUME NEW i \in at+1..Len(tokens)-1 PROVE ~Owns(prefix, i)
      BY DEF Clear
    <3>1. /\ tokens[at].begin <= tokens[at].end
          /\ tokens[at].end <= tokens[i].begin
          /\ tokens[i].begin < tokens[i].end
          /\ tokens[at].begin \in Nat /\ tokens[at].end \in Nat
          /\ tokens[i].begin \in Nat /\ tokens[i].end \in Nat
      BY StreamFacts
    <3>2. QED
      BY <3>1 DEF Owns, Within
  <2>3. QED
    BY <2>1, <2>2, SingletonIsClear
<1>3. CASE open \notin {NotFound, first}
  <2>1. /\ first \in 1..at-1 /\ at - 1 \in 1..Len(tokens)
        /\ open = MatchingLeftParen(at - 1)
    <3>1. first < at
      BY <1>3
    <3>2. first # NotFound
      BY <3>1, StreamFacts DEF NotFound
    <3>3. QED
      BY <1>1, <3>1, <3>2, StreamFacts
  <2>2. open \in 1..at-1
    <3>1. MatchingLeftParen(at - 1) # NotFound
      BY <1>3, <2>1
    <3>2. MatchingLeftParen(at - 1) \in 1..at-1
      BY <2>1, <3>1, LeftParenBefore
    <3>3. QED
      BY <2>1, <3>2
  <2> HIDE DEF open
  <2>3. begin \in Nat
    <3>1. first \in 1..Len(tokens)+1 /\ open \in 1..Len(tokens)
      BY <2>1, <2>2, StreamFacts
    <3>2. QED
      BY <3>1, DeclarationBeginIsNatural
  <2> HIDE DEF begin
  <2>4. Clear(type, at + 1) /\ Clear(name, at + 1) /\ Clear(declarator, at + 1)
    <3> SUFFICES ASSUME NEW i \in at+1..Len(tokens)-1
                 PROVE  ~Owns(type, i) /\ ~Owns(name, i) /\ ~Owns(declarator, i)
      BY DEF Clear
    <3>1. /\ i \in 1..Len(tokens)-1
          /\ begin \in Int /\ open - 1 \in Int /\ open - 1 \in 0..i
          /\ open \in 0..i /\ at \in 0..i
      BY <2>2, <2>3, StreamFacts
    <3>2. /\ type.range = RangeOfTokens(begin, open - 1)
          /\ name.range = RangeOfTokens(open - 1, open)
          /\ declarator.range = RangeOfTokens(open - 1, at)
      BY DEF Node
    <3> HIDE DEF type, name, declarator
    <3>3. ~Owns(type, i)
      BY <3>1, <3>2, RangeOwnsNoLaterToken
    <3>4. ~Owns(name, i)
      BY <3>1, <3>2, RangeOwnsNoLaterToken
    <3>5. ~Owns(declarator, i)
      BY <3>1, <3>2, RangeOwnsNoLaterToken
    <3>6. QED
      BY <3>3, <3>4, <3>5
  <2>5. Header(prefix, at).children = (<<type>> \o named) \o <<declarator>>
    BY <1>3 DEF Header, first, open, begin
  <2>6. AllClear(named, at + 1)
    <3> HIDE DEF name
    <3>1. CASE named = <<>>
      BY <3>1, EmptyIsClear
    <3>2. CASE named = <<name>>
      BY <2>4, <3>2, SingletonIsClear
    <3>3. QED
      BY <3>1, <3>2 DEF NoChildIf
  <2> HIDE DEF type, declarator, named
  <2>7. AllClear(<<type>>, at + 1) /\ AllClear(<<declarator>>, at + 1)
    BY <2>4, SingletonIsClear
  <2> DEFINE both == <<type>> \o named
  <2>8. AllClear(both, at + 1)
    BY <2>6, <2>7, ConcatIsClear
  <2>9. AllClear(both \o <<declarator>>, at + 1)
    <3> HIDE DEF both
    <3>1. QED
      BY <2>7, <2>8, ConcatIsClear
  <2>10. QED
    BY <2>5, <2>9
<1>4. QED
  BY <1>2, <1>3

-----------------------------------------------------------------------------
(* The body loop.                                                          *)

\* Pushing the open region and a construct extends the tiling to the end of
\* the construct.
LEMMA PushExtends ==
  ASSUME IsTokenStream(tokens),
         NEW from \in 1..Len(tokens), NEW to \in from..Len(tokens),
         function.regionBegin = to, Tiles(function.children, from, to),
         NEW regionEnd \in to..Len(tokens), NEW at \in regionEnd..Len(tokens),
         NEW parsed, Spans(parsed, regionEnd, at)
  PROVE  Tiles(function.children \o (OpenRegion(regionEnd) \o <<parsed.node>>), from, parsed.next)
<1> DEFINE nodes == function.children
           node == parsed.node
           next == parsed.next
<1>1. next \in at+1..Len(tokens) /\ node.range = RangeOfTokens(regionEnd, next)
  BY DEF Spans
<1>2. Len(tokens) \in Nat
  BY StreamFacts
<1>3. IsList(nodes)
  BY DEF Tiles
<1> HIDE DEF nodes, node, next
<1>4. Tiles(nodes, from, to)
  BY DEF nodes
<1>5. CASE regionEnd = to
  <2>1. OpenRegion(regionEnd) = <<>>
    BY <1>5 DEF OpenRegion, NoChildIf
  <2>2. <<>> \o <<node>> = <<node>>
    OBVIOUS
  <2>3. next \in to+1..Len(tokens) /\ node.range = RangeOfTokens(to, next)
    BY <1>1, <1>2, <1>5
  <2>4. Tiles(nodes \o <<node>>, from, next)
    BY <1>4, <2>3, TilingExtends
  <2>5. QED
    BY <2>1, <2>2, <2>4 DEF nodes, node, next
<1>6. CASE regionEnd # to
  <2> DEFINE region == CxxRegion(to, regionEnd)
  <2>1. regionEnd \in to+1..Len(tokens) /\ to <= Len(tokens)
    BY <1>2, <1>6
  <2>2. OpenRegion(regionEnd) = <<region>>
    BY <1>2, <2>1 DEF OpenRegion, NoChildIf
  <2>3. region.range = RangeOfTokens(to, regionEnd)
    BY <1>2, <2>1 DEF CxxRegion, Node
  <2> HIDE DEF region
  <2>4. Tiles(nodes \o <<region>>, from, regionEnd)
    BY <1>4, <2>1, <2>3, TilingExtends
  <2> DEFINE longer == nodes \o <<region>>
  <2> HIDE DEF longer
  <2>5. regionEnd \in from..Len(tokens) /\ next \in regionEnd+1..Len(tokens)
    BY <1>1, <1>2, <2>1
  <2>6. Tiles(longer, from, regionEnd)
    BY <2>4 DEF longer
  <2>7. Tiles(longer \o <<node>>, from, next)
    BY <1>1, <2>5, <2>6, TilingExtends
  <2>8. nodes \o (<<region>> \o <<node>>) = (nodes \o <<region>>) \o <<node>>
    <3> DEFINE S == ToSet(nodes) \cup {region, node}
    <3>1. nodes \in Seq(S)
      <4>1. ToSet(nodes) \subseteq S
        OBVIOUS
      <4>2. QED
        BY <1>3, <4>1, SeqMonotonic DEF IsList
    <3>2. <<region>> \in Seq(S) /\ <<node>> \in Seq(S)
      OBVIOUS
    <3>3. QED
      <4> HIDE DEF S
      <4>1. QED
        BY <3>1, <3>2, ConcatAssociative
  <2>9. QED
    BY <2>2, <2>7, <2>8 DEF longer, nodes, node, next
<1>7. QED
  BY <1>5, <1>6

LEMMA ClearLater ==
  ASSUME NEW nodes, NEW from \in Nat, NEW to \in Nat, from <= to, AllClear(nodes, from)
  PROVE  AllClear(nodes, to)
<1>1. \A i \in to..Len(tokens)-1 : i \in from..Len(tokens)-1
  OBVIOUS
<1>2. QED
  BY <1>1 DEF AllClear, Clear

-----------------------------------------------------------------------------
(* The inductive invariant.                                                *)

FunctionIsRecord ==
  function = [children |-> function.children, range |-> function.range,
              bodyBegin |-> function.bodyBegin, regionBegin |-> function.regionBegin,
              braceDepth |-> function.braceDepth]

BodyTiled ==
  phase = "body" => Tiles(function.children, function.bodyBegin, function.regionBegin)

IInv == ParserTypeOK /\ FunctionIsRecord /\ BodyTiled

\* A tiling is about the nodes and the tokens only.
LEMMA TilingKept ==
  ASSUME tokens' = tokens, Tiles(function'.children, function'.bodyBegin, function'.regionBegin)
  PROVE  Tiles(function.children, function.bodyBegin, function.regionBegin)'
BY DEF Tiles, Clear, OwnedOnce, Owns

\* Back in the loop of the translation unit.
LEMMA PushTopLevelKeeps ==
  ASSUME IInv, UNCHANGED tokens, NEW before, NEW node, PushTopLevel(before, node),
         position' \in 1..Len(tokens)
  PROVE  IInv'
BY DEF IInv, ParserTypeOK, FunctionIsRecord, BodyTiled, PushTopLevel, NoFunction

\* A construct of a function body.
LEMMA PushBodyConstructKeeps ==
  ASSUME IInv, phase = "body", NEW regionEnd \in function.regionBegin..position,
         NEW parsed, Spans(parsed, regionEnd, position), PushBodyConstruct(regionEnd, parsed)
  PROVE  IInv' /\ position' > position
<1> DEFINE longer == function.children \o (OpenRegion(regionEnd) \o <<parsed.node>>)
           from == function.bodyBegin
           to == function.regionBegin
<1>1. /\ IsTokenStream(tokens) /\ position \in 1..Len(tokens) /\ Len(tokens) \in Nat
      /\ from \in 1..Len(tokens) /\ to \in from..position /\ FunctionIsRecord
      /\ Tiles(function.children, from, to)
      /\ function.braceDepth \in Nat \ {0}
  BY StreamFacts DEF IInv, ParserTypeOK, BodyTiled
<1>2. /\ UNCHANGED <<tokens, phase, unit, pending>>
      /\ position' = parsed.next
      /\ function' = [function EXCEPT !.children = longer, !.regionBegin = parsed.next]
  BY DEF PushBodyConstruct, WithChildren
<1>3. Tiles(longer, from, parsed.next)
  <2>1. /\ to \in from..Len(tokens) /\ regionEnd \in to..Len(tokens)
        /\ position \in regionEnd..Len(tokens)
    BY <1>1
  <2>2. QED
    BY <1>1, <2>1, PushExtends
<1>4. parsed.next \in position+1..Len(tokens)
  BY DEF Spans
<1> HIDE DEF longer
<1>5. function' = [children |-> longer, range |-> function.range, bodyBegin |-> from,
                   regionBegin |-> parsed.next, braceDepth |-> function.braceDepth]
  BY <1>1, <1>2 DEF FunctionIsRecord
<1> HIDE DEF from, to
<1>6. BodyTiled'
  <2>1. /\ function'.children = longer /\ function'.bodyBegin = from
        /\ function'.regionBegin = parsed.next
    BY <1>5
  <2>2. Tiles(function'.children, function'.bodyBegin, function'.regionBegin)
    BY <1>3, <2>1
  <2>3. QED
    BY <1>2, <2>2, TilingKept DEF BodyTiled
<1>7. ParserTypeOK'
  <2>1. function'.children \in Seq(ToSet(function'.children))
    BY <1>3, <1>5 DEF Tiles, IsList
  <2>2. /\ function'.bodyBegin \in 1..Len(tokens)
        /\ function'.regionBegin \in function'.bodyBegin..position'
        /\ function'.braceDepth \in Nat \ {0}
        /\ position' \in 1..Len(tokens)
    BY <1>1, <1>2, <1>4, <1>5 DEF from, to
  <2>3. phase' = "body"
    BY <1>2
  <2>4. QED
    BY <1>1, <1>2, <2>1, <2>2, <2>3 DEF ParserTypeOK
<1>8. FunctionIsRecord'
  BY <1>5 DEF FunctionIsRecord
<1>9. QED
  BY <1>1, <1>2, <1>4, <1>6, <1>7, <1>8 DEF IInv

-----------------------------------------------------------------------------
(* One lemma per action.                                                   *)

LEMMA ParseTopLevelConstructKeeps ==
  IInv /\ ParseTopLevelConstruct => IInv' /\ position' > position
<1> SUFFICES ASSUME IInv, ParseTopLevelConstruct PROVE IInv' /\ position' > position
  OBVIOUS
<1>1. /\ IsTokenStream(tokens) /\ position \in 1..Len(tokens) /\ Len(tokens) \in Nat
      /\ StartsConstruct(position) /\ UNCHANGED tokens
  BY StreamFacts DEF IInv, ParserTypeOK, ParseTopLevelConstruct
<1>2. /\ position' = Construct(position).next
      /\ PushTopLevel(<<>>, Construct(position).node)
  BY DEF ParseTopLevelConstruct
<1>3. Construct(position).next \in position+1..Len(tokens)
  BY <1>1, ConstructSpans DEF Spans
<1>4. position' \in 1..Len(tokens) /\ position' > position
  BY <1>1, <1>2, <1>3
<1>5. QED
  BY <1>1, <1>2, <1>4, PushTopLevelKeeps

\* A region that does not start with a construct ends after its first token.
LEMMA RegionAdvances ==
  ASSUME IInv, ~AtEnd(position), ~StartsConstruct(position)
  PROVE  /\ TopLevelRegion(position).next \in position+1..Len(tokens)
         /\ TopLevelRegion(position).node.range.end
              = tokens[TopLevelRegion(position).next].begin
<1>1. /\ IsTokenStream(tokens) /\ position \in 1..Len(tokens)
  BY DEF IInv, ParserTypeOK
<1>2. RegionEnd(position) \in position..Len(tokens)
  BY <1>1, ScansStop
<1>3. RegionEnd(position) # position
  <2> DEFINE S == {i \in position..Len(tokens) : AtEnd(i) \/ StartsConstruct(i)}
  <2>1. S \in SUBSET Nat /\ Len(tokens) \in S
    BY <1>1, StreamFacts DEF AtEnd
  <2>2. position \notin S
    OBVIOUS
  <2>3. Min(S) \in S
    <3> HIDE DEF S
    <3>1. QED
      BY <2>1, MinOfNaturals
  <2>4. QED
    BY <2>2, <2>3 DEF RegionEnd
<1>4. /\ TopLevelRegion(position).next = RegionEnd(position)
      /\ TopLevelRegion(position).node.range.end = tokens[RegionEnd(position)].begin
  BY DEF TopLevelRegion, Parsed, Node
<1>5. QED
  BY <1>1, <1>2, <1>3, <1>4

LEMMA ParseTopLevelRegionKeeps ==
  IInv /\ ParseTopLevelRegion => IInv' /\ position' > position
<1> SUFFICES ASSUME IInv, ParseTopLevelRegion PROVE IInv' /\ position' > position
  OBVIOUS
<1>1. /\ position \in 1..Len(tokens) /\ UNCHANGED tokens
      /\ TopLevelRegion(position).next \in position+1..Len(tokens)
  BY RegionAdvances DEF ParseTopLevelRegion, IInv, ParserTypeOK
<1>2. /\ position' = TopLevelRegion(position).next
      /\ PushTopLevel(<<>>, TopLevelRegion(position).node)
  BY DEF ParseTopLevelRegion
<1>3. position' \in 1..Len(tokens) /\ position' > position
  BY <1>1, <1>2
<1>4. QED
  BY <1>1, <1>2, <1>3, PushTopLevelKeeps

LEMMA ParseFunctionHeaderKeeps ==
  IInv /\ ParseFunctionHeader => IInv' /\ position' > position
<1> SUFFICES ASSUME IInv, ParseFunctionHeader PROVE IInv' /\ position' > position
  OBVIOUS
<1> DEFINE region == TopLevelRegion(position)
           at == region.next
           header == Header(region.node, at)
           specification == FailureSpecification(at)
           n == specification.next
           children == Append(header.children, specification.node)
<1>1. /\ IsTokenStream(tokens) /\ position \in 1..Len(tokens) /\ Len(tokens) \in Nat
      /\ UNCHANGED tokens
      /\ at \in position+1..Len(tokens)
      /\ region.node.range.end = tokens[at].begin
  BY RegionAdvances, StreamFacts DEF ParseFunctionHeader, IInv, ParserTypeOK
<1>2. Kind(at) = "fails"
  BY DEF ParseFunctionHeader
<1>3. IF Kind(n) = "{" THEN OpenBody(header, specification)
                       ELSE DeclareOnly(header, specification)
  BY DEF ParseFunctionHeader
<1> HIDE DEF region
<1> HIDE DEF at
<1>4. at \in 1..Len(tokens) /\ Kind(at) # "EndOfFile"
  BY <1>1, <1>2
<1>5. Spans(specification, at, at)
  BY <1>1, <1>4, FailureSpecificationSpans
<1>6. n \in at+1..Len(tokens) /\ n \in 1..Len(tokens) /\ n > position
  BY <1>1, <1>5 DEF Spans
<1>7. CASE Kind(n) # "{"
  <2>1. /\ position' = n
        /\ \E node : PushTopLevel(header.before, node)
    BY <1>3, <1>7 DEF DeclareOnly
  <2>2. QED
    BY <1>1, <1>6, <2>1, PushTopLevelKeeps
<1>8. CASE Kind(n) = "{"
  <2>1. /\ phase' = "body" /\ position' = n + 1
        /\ function' = [children |-> children, range |-> header.range,
                        bodyBegin |-> n, regionBegin |-> n, braceDepth |-> 1]
    BY <1>3, <1>8 DEF OpenBody
  <2>2. n + 1 \in 1..Len(tokens)
    BY <1>1, <1>6, <1>8, NextToken
  <2>3. AllClear(header.children, n)
    <3>1. AllClear(header.children, at + 1)
      BY <1>1, <1>2, <1>4, HeaderIsClear
    <3>2. at + 1 \in Nat /\ n \in Nat /\ at + 1 <= n
      BY <1>1, <1>6
    <3>3. QED
      BY <3>1, <3>2, ClearLater
  <2>4. AllClear(<<specification.node>>, n)
    <3>1. specification.node.range = RangeOfTokens(at, n)
      BY <1>5 DEF Spans
    <3>2. ASSUME NEW i \in n..Len(tokens)-1 PROVE ~Owns(specification.node, i)
      <4>1. i \in 1..Len(tokens)-1 /\ at \in Int /\ n \in 0..i
        BY <1>1, <1>6
      <4>2. QED
        BY <1>1, <3>1, <4>1, RangeOwnsNoLaterToken
    <3>3. QED
      BY <3>2, SingletonIsClear DEF Clear
  <2>5. AllClear(children, n)
    <3>1. AllClear(header.children \o <<specification.node>>, n)
      BY <2>3, <2>4, ConcatIsClear
    <3>2. children = header.children \o <<specification.node>>
      BY <2>3, AppendIsConcat DEF AllClear, IsList
    <3>3. QED
      BY <3>1, <3>2
  <2> HIDE DEF children, header, specification, at, n
  <2>6. Tiles(children, n, n)
    <3>1. n..n-1 = {}
      BY <1>6
    <3>2. QED
      BY <2>5, <3>1 DEF AllClear, Tiles
  <2>7. /\ function'.children = children /\ function'.bodyBegin = n
        /\ function'.regionBegin = n /\ function'.braceDepth = 1
    BY <2>1
  <2>8. BodyTiled'
    <3>1. Tiles(function'.children, function'.bodyBegin, function'.regionBegin)
      BY <2>6, <2>7
    <3>2. QED
      BY <1>1, <3>1, TilingKept DEF BodyTiled
  <2>9. FunctionIsRecord'
    BY <2>1 DEF FunctionIsRecord
  <2>10. ParserTypeOK'
    <3>1. function'.children \in Seq(ToSet(function'.children))
      BY <2>5, <2>7 DEF AllClear, IsList
    <3>2. function'.bodyBegin \in 1..Len(tokens) /\ position' \in 1..Len(tokens)
      BY <1>6, <2>1, <2>2, <2>7
    <3>3. function'.regionBegin \in function'.bodyBegin..position'
      BY <1>1, <1>6, <2>1, <2>7
    <3>4. QED
      BY <1>1, <2>1, <2>7, <3>1, <3>2, <3>3 DEF ParserTypeOK
  <2>11. position' > position
    BY <1>1, <1>6, <2>1
  <2>12. QED
    BY <2>8, <2>9, <2>10, <2>11 DEF IInv
<1>9. QED
  BY <1>7, <1>8

\* What the body actions start from.
LEMMA BodyFacts ==
  ASSUME IInv, InBody
  PROVE  /\ IsTokenStream(tokens) /\ phase = "body"
         /\ Len(tokens) \in Nat /\ position \in 1..Len(tokens) /\ position < Len(tokens)
         /\ function.bodyBegin \in 1..Len(tokens)
         /\ function.regionBegin \in function.bodyBegin..position
         /\ Kind(position) # "EndOfFile"
<1>1. /\ IsTokenStream(tokens) /\ phase = "body" /\ position \in 1..Len(tokens)
      /\ function.bodyBegin \in 1..Len(tokens)
      /\ function.regionBegin \in function.bodyBegin..position
      /\ position < Len(tokens) /\ Len(tokens) \in Nat
  BY StreamFacts DEF IInv, ParserTypeOK, InBody, AtEnd
<1>2. tokens[position].kind # "EndOfFile"
  BY <1>1 DEF IsTokenStream, TokensInOrder
<1>3. QED
  BY <1>1, <1>2 DEF Kind

LEMMA ScanBodyTokenKeeps ==
  IInv /\ ScanBodyToken => IInv' /\ position' > position
<1> SUFFICES ASSUME IInv, ScanBodyToken PROVE IInv' /\ position' > position
  OBVIOUS
<1>1. InBody /\ UNCHANGED <<tokens, phase, unit, pending>> /\ position' = position + 1
  BY DEF ScanBodyToken
<1>2. /\ IsTokenStream(tokens) /\ phase = "body" /\ position \in 1..Len(tokens)
      /\ Len(tokens) \in Nat /\ position < Len(tokens)
      /\ function.bodyBegin \in 1..Len(tokens)
      /\ function.regionBegin \in function.bodyBegin..position
  BY <1>1, BodyFacts
<1> DEFINE shift == CASE Kind(position) = "{" -> 1
                      [] Kind(position) = "}" -> -1
                      [] OTHER -> 0
           depth == function.braceDepth + shift
<1>3. depth \in Nat \ {0}
  <2>1. function.braceDepth \in Nat \ {0}
    BY <1>2 DEF IInv, ParserTypeOK
  <2>2. ~(Kind(position) = "}" /\ function.braceDepth = 1)
    BY DEF ScanBodyToken
  <2>3. /\ Kind(position) = "{" => shift = 1
        /\ Kind(position) = "}" => shift = -1
        /\ Kind(position) \notin {"{", "}"} => shift = 0
    OBVIOUS
  <2> HIDE DEF shift
  <2>4. shift \in {1, 0} \/ (shift = -1 /\ function.braceDepth # 1)
    BY <2>2, <2>3
  <2>5. QED
    BY <2>1, <2>4
<1>4. function' = [function EXCEPT !.braceDepth = depth]
  BY DEF ScanBodyToken
<1> HIDE DEF depth
<1>5. function' = [children |-> function.children, range |-> function.range,
                   bodyBegin |-> function.bodyBegin, regionBegin |-> function.regionBegin,
                   braceDepth |-> depth]
  BY <1>4 DEF IInv, FunctionIsRecord
<1>6. BodyTiled'
  <2>1. /\ function'.children = function.children /\ function'.bodyBegin = function.bodyBegin
        /\ function'.regionBegin = function.regionBegin
    BY <1>5
  <2>2. Tiles(function'.children, function'.bodyBegin, function'.regionBegin)
    BY <1>2, <2>1 DEF IInv, BodyTiled
  <2>3. QED
    BY <1>1, <2>2, TilingKept DEF BodyTiled
<1>7. FunctionIsRecord'
  BY <1>5 DEF FunctionIsRecord
<1>8. ParserTypeOK'
  <2>1. /\ position' \in 1..Len(tokens)
        /\ function'.bodyBegin \in 1..Len(tokens)
        /\ function'.regionBegin \in function'.bodyBegin..position'
        /\ function'.braceDepth \in Nat \ {0}
    BY <1>1, <1>2, <1>3, <1>5
  <2>2. function'.children \in Seq(ToSet(function'.children))
    BY <1>2, <1>5 DEF IInv, ParserTypeOK
  <2>3. QED
    BY <1>1, <1>2, <2>1, <2>2 DEF ParserTypeOK
<1>9. QED
  BY <1>1, <1>2, <1>6, <1>7, <1>8 DEF IInv

LEMMA ParseBodyReturnKeeps ==
  IInv /\ ParseBodyReturn => IInv' /\ position' > position
<1> SUFFICES ASSUME IInv, ParseBodyReturn PROVE IInv' /\ position' > position
  OBVIOUS
<1>1. InBody /\ PushBodyConstruct(position, ReturnStatement(position))
  BY DEF ParseBodyReturn
<1>2. Spans(ReturnStatement(position), position, position)
  BY <1>1, BodyFacts, ReturnStatementSpans
<1>3. phase = "body" /\ position \in function.regionBegin..position
  BY <1>1, BodyFacts
<1>4. QED
  BY <1>1, <1>2, <1>3, PushBodyConstructKeeps

LEMMA ParseBodyTryInitializationKeeps ==
  IInv /\ ParseBodyTryInitialization => IInv' /\ position' > position
<1> SUFFICES ASSUME IInv, ParseBodyTryInitialization PROVE IInv' /\ position' > position
  OBVIOUS
<1> DEFINE declaration == TryInitializationBegin(position, function.regionBegin)
<1>1. /\ InBody /\ declaration # NotFound
      /\ PushBodyConstruct(declaration, TryInitialization(declaration, position))
  BY DEF ParseBodyTryInitialization
<1>2. declaration = position - 3 /\ position >= function.regionBegin + 3
  BY <1>1 DEF TryInitializationBegin
<1> HIDE DEF declaration
<1>3. phase = "body" /\ declaration \in function.regionBegin..position
  BY <1>1, <1>2, BodyFacts
<1>4. Spans(TryInitialization(declaration, position), declaration, position)
  BY <1>1, BodyFacts, TryInitializationSpans
<1>5. QED
  BY <1>1, <1>3, <1>4, PushBodyConstructKeeps

LEMMA ParseBodyConstructKeeps ==
  IInv /\ ParseBodyConstruct => IInv' /\ position' > position
<1> SUFFICES ASSUME IInv, ParseBodyConstruct PROVE IInv' /\ position' > position
  OBVIOUS
<1>1. /\ InBody /\ StartsConstruct(position)
      /\ PushBodyConstruct(position, Construct(position))
  BY DEF ParseBodyConstruct
<1>2. Spans(Construct(position), position, position)
  BY <1>1, BodyFacts, ConstructSpans
<1>3. phase = "body" /\ position \in function.regionBegin..position
  BY <1>1, BodyFacts
<1>4. QED
  BY <1>1, <1>2, <1>3, PushBodyConstructKeeps

LEMMA CloseBodyKeeps ==
  IInv /\ CloseBody => IInv' /\ position' > position
<1> SUFFICES ASSUME IInv, CloseBody PROVE IInv' /\ position' > position
  OBVIOUS
<1>1. /\ InBody /\ UNCHANGED tokens /\ position' = position + 1
      /\ \E node : PushTopLevel(pending, node)
  BY DEF CloseBody
<1>2. position' \in 1..Len(tokens) /\ position' > position
  BY <1>1, BodyFacts
<1>3. QED
  BY <1>1, <1>2, PushTopLevelKeeps

LEMMA EndOfFileInBodyKeeps ==
  IInv /\ EndOfFileInBody => IInv' /\ phase' # phase
<1> SUFFICES ASSUME IInv, EndOfFileInBody PROVE IInv' /\ phase' # phase
  OBVIOUS
<1>1. /\ phase = "body" /\ UNCHANGED <<tokens, position>>
      /\ \E node : PushTopLevel(pending, node)
  BY DEF EndOfFileInBody
<1>2. position' \in 1..Len(tokens)
  BY <1>1 DEF IInv, ParserTypeOK
<1>3. phase' = "unit"
  BY <1>1 DEF PushTopLevel
<1>4. QED
  BY <1>1, <1>2, <1>3, PushTopLevelKeeps

LEMMA FinishUnitKeeps ==
  IInv /\ FinishUnit => IInv' /\ phase' # phase
BY DEF IInv, ParserTypeOK, FunctionIsRecord, BodyTiled, FinishUnit

-----------------------------------------------------------------------------
(* The theorems.                                                           *)

LEMMA InitIsTyped == ParserInit => IInv
<1>1. ASSUME ParserInit PROVE IInv
  <2>1. IsTokenStream(tokens)
    BY <1>1, StreamsAssumption DEF ParserInit
  <2>2. 1 \in 1..Len(tokens)
    BY <2>1, StreamFacts
  <2>3. QED
    BY <1>1, <2>1, <2>2
    DEF ParserInit, IInv, ParserTypeOK, FunctionIsRecord, BodyTiled, NoFunction
<1>2. QED
  BY <1>1

LEMMA ParserStepKeeps ==
  IInv /\ ParserStep => IInv' /\ (position' > position \/ phase' # phase)
BY ParseTopLevelConstructKeeps, ParseTopLevelRegionKeeps, ParseFunctionHeaderKeeps,
   FinishUnitKeeps, ScanBodyTokenKeeps, ParseBodyReturnKeeps,
   ParseBodyTryInitializationKeeps, ParseBodyConstructKeeps, CloseBodyKeeps,
   EndOfFileInBodyKeeps
   DEF ParserStep

LEMMA StutterKeeps == IInv /\ UNCHANGED parsingVars => IInv'
<1> SUFFICES ASSUME IInv, UNCHANGED parsingVars PROVE IInv'
  OBVIOUS
<1>1. UNCHANGED <<tokens, position, phase, unit, pending, function, syntaxErrors>>
  BY DEF parsingVars
<1>2. BodyTiled'
  BY <1>1, TilingKept DEF IInv, BodyTiled
<1>3. ParserTypeOK' /\ FunctionIsRecord'
  BY <1>1 DEF IInv, ParserTypeOK, FunctionIsRecord
<1>4. QED
  BY <1>2, <1>3 DEF IInv

(***************************************************************************)
(* The inductive invariant: the parser's state is typed, and the children  *)
(* pushed into the function under construction tile its body.              *)
(***************************************************************************)
THEOREM InductiveInvariant == ParserSpec => []IInv
<1>1. ParserInit => IInv
  BY InitIsTyped
<1>2. IInv /\ [ParserNext]_parsingVars => IInv'
  BY ParserStepKeeps, StutterKeeps DEF ParserNext, Done
<1>3. QED
  BY <1>1, <1>2, PTL DEF ParserSpec

(***************************************************************************)
(* The parser never leaves the token vector, and within a body its region  *)
(* start stays between the `{` and the current token, for every source.    *)
(***************************************************************************)
THEOREM TypeCorrect == ParserSpec => []ParserTypeOK
<1>1. IInv => ParserTypeOK
  BY DEF IInv
<1>2. QED
  BY <1>1, InductiveInvariant, PTL

(***************************************************************************)
(* Whatever the source, the constructs and regions pushed for a function   *)
(* body own every token scanned so far in exactly one child.               *)
(***************************************************************************)
THEOREM BodyTokensAreOwnedOnce == ParserSpec => []BodyTokensOwnedOnce
<1>1. IInv => BodyTokensOwnedOnce
  BY DEF IInv, BodyTiled, Tiles, BodyTokensOwnedOnce
<1>2. QED
  BY <1>1, InductiveInvariant, PTL

(***************************************************************************)
(* Every iteration of the parser's loops consumes a token or leaves its    *)
(* loop: error recovery never holds the parser in place.                   *)
(***************************************************************************)
THEOREM ParserAdvances == ParserSpec => Progress
<1>1. IInv /\ [ParserNext]_parsingVars => [position' > position \/ phase' # phase]_parsingVars
  BY ParserStepKeeps DEF ParserNext, Done
<1>2. QED
  BY <1>1, InductiveInvariant, PTL DEF ParserSpec, Progress

-----------------------------------------------------------------------------
(* The inductive invariant of the tree.                                    *)

\* The list holds a failure specification, and from the first one on its
\* nodes follow one another in the source.
Headed(nodes) ==
  \E h \in 1..Len(nodes) :
    /\ nodes[h].kind = "FailureSpecification"
    /\ \A k \in 1..h-1 : nodes[k].kind # "FailureSpecification"
    /\ \A k \in h..Len(nodes)-1 : nodes[k].range.end <= nodes[k+1].range.begin

\* The children of the node are complete constructs.
WholeChildren(nodes) == \A l \in 1..Len(nodes) : CompleteConstruct(nodes[l])

\* A top-level node as the later stages expect it; "clean" when the parser
\* has reported no error.
Good(node, clean) ==
  /\ node.kind = "FunctionDeclaration" => IsList(node.children) /\ Headed(node.children)
  /\ clean => CompleteConstruct(node) /\ WholeChildren(node.children)

AllGood(nodes, clean) ==
  /\ IsList(nodes)
  /\ \A k \in 1..Len(nodes) : Good(nodes[k], clean)

AllComplete(nodes) == \A k \in 1..Len(nodes) : Complete(nodes[k])

UnitTiled(nodes, to) == AllComplete(nodes) => Tiles(nodes, 1, to)

\* The offset lies in the trivia before token "index" or at its first byte.
StartsAt(offset, index) ==
  /\ offset <= tokens[index].begin
  /\ index > 1 => tokens[index-1].end <= offset

Clean == syntaxErrors = <<>>

\* The children pushed so far, when the open region starts at token "to".
Ordered(nodes, to) ==
  /\ IsList(nodes) /\ Headed(nodes)
  /\ nodes[Len(nodes)].range.end = tokens[to-1].end

\* The function under construction, after the top-level nodes "nodes" and the
\* pending region "before": these own the tokens before the one it starts at,
\* and its range does not reach its body.
FunctionGood(construction, before, nodes, clean) ==
  /\ AllGood(before, clean)
  /\ Ordered(construction.children, construction.regionBegin)
  /\ clean => WholeChildren(construction.children)
  /\ construction.bodyBegin \in 2..Len(tokens)
  /\ construction.range.begin \in Int /\ construction.range.end \in Int
  /\ construction.range.end < tokens[construction.bodyBegin-1].end
  /\ AllComplete(nodes) /\ construction.range.begin >= 0 =>
       \E first \in 1..construction.bodyBegin-1 :
         /\ Tiles(nodes \o before, 1, first)
         /\ StartsAt(construction.range.begin, first)

TreeInv ==
  /\ IsList(syntaxErrors)
  /\ phase # "done" => AllGood(unit, Clean)
  /\ phase = "unit" => UnitTiled(unit, position)
  /\ phase = "body" => FunctionGood(function, pending, unit, Clean)
  /\ phase = "done" => AllGood(unit.children, Clean) /\ UnitTiled(unit.children, Len(tokens))

-----------------------------------------------------------------------------
(* What a parse function reports.                                          *)

LEMMA ErrorIfReports ==
  ASSUME NEW condition, NEW code, NEW range
  PROVE  /\ IsList(ErrorIf(condition, code, range))
         /\ ErrorIf(condition, code, range) = <<>> => ~condition
<1> DEFINE error == Error(code, range)
<1>1. ErrorIf(condition, code, range) = IF condition THEN <<error>> ELSE <<>>
  BY DEF ErrorIf
<1> HIDE DEF error
<1>2. IsList(<<error>>) /\ <<error>> # <<>> /\ IsList(<<>>)
  BY SingletonList, EmptyList, OneIsNotNone
<1> QED
  BY <1>1, <1>2

LEMMA ChildUnless ==
  ASSUME NEW empty, NEW child
  PROVE  /\ IsList(NoChildIf(empty, child))
         /\ ~empty => Len(NoChildIf(empty, child)) = 1
         /\ \A k \in 1..Len(NoChildIf(empty, child)) : NoChildIf(empty, child)[k] = child
<1>1. CASE empty
  <2>1. NoChildIf(empty, child) = <<>>
    BY <1>1 DEF NoChildIf
  <2>2. IsList(NoChildIf(empty, child)) /\ 1..Len(NoChildIf(empty, child)) = {}
    BY <2>1, EmptyList
  <2> QED
    BY <1>1, <2>2
<1>2. CASE ~empty
  <2>1. NoChildIf(empty, child) = <<child>>
    BY <1>2 DEF NoChildIf
  <2> QED
    BY <1>2, <2>1, SingletonList
<1> QED
  BY <1>1, <1>2

-----------------------------------------------------------------------------
(* Complete constructs.                                                    *)

\* The constructs of which the later stages need operands or a terminator.
Demanding == {"FailStatement", "ReturnStatement", "TryInitialization",
              "TryExpression", "FailureSpecification"}

LEMMA OthersAreComplete ==
  ASSUME NEW node, node.kind \notin Demanding
  PROVE  CompleteConstruct(node)
BY DEF Demanding, CompleteConstruct

LEMMA RegionIsNoConstruct ==
  ASSUME NEW first, NEW end
  PROVE  /\ CxxRegion(first, end).kind \in {"CxxRegion", "Invalid"}
         /\ CompleteConstruct(CxxRegion(first, end))
<1>1. CxxRegion(first, end).kind \in {"CxxRegion", "Invalid"}
  BY DEF CxxRegion, InvalidNode, Node
<1>2. CxxRegion(first, end).kind \notin Demanding
  BY <1>1 DEF Demanding
<1> QED
  BY <1>1, <1>2, OthersAreComplete

\* A region, or no child, is nothing a construct is missing.
LEMMA RegionIfIsWhole ==
  ASSUME NEW empty, NEW first, NEW end
  PROVE  WholeChildren(NoChildIf(empty, CxxRegion(first, end)))
<1> DEFINE region == CxxRegion(first, end)
<1>1. CompleteConstruct(region)
  BY RegionIsNoConstruct
<1> HIDE DEF region
<1>2. \A k \in 1..Len(NoChildIf(empty, region)) : NoChildIf(empty, region)[k] = region
  BY ChildUnless
<1> QED
  BY <1>1, <1>2 DEF WholeChildren, region

\* A construct whose last token is the `;` before "next" is terminated.
Terminated(node) ==
  \E i \in 1..Len(tokens) : Kind(i) = ";" /\ tokens[i].end = node.range.end

LEMMA SemicolonTerminates ==
  ASSUME IsTokenStream(tokens), NEW first \in 1..Len(tokens), NEW at \in first..Len(tokens),
         AfterSemicolon(at) # at,
         NEW node, node.range = RangeOfTokens(first, AfterSemicolon(at))
  PROVE  Terminated(node)
<1>1. Kind(at) = ";" /\ AfterSemicolon(at) = at + 1
  BY DEF AfterSemicolon
<1>2. at \in 1..Len(tokens) /\ first < at + 1 /\ at + 1 <= Len(tokens) + 1 /\ 1 <= first
  BY StreamFacts
<1>3. (at + 1) - 1 = at
  BY <1>2
<1>4. node.range = [begin |-> tokens[first].begin, end |-> tokens[(at + 1) - 1].end]
  BY <1>1, <1>2 DEF RangeOfTokens
<1>5. node.range.end = tokens[at].end
  BY <1>3, <1>4
<1> QED
  BY <1>1, <1>2, <1>5 DEF Terminated

\* The construct is of the kind and, if it reports nothing, complete with
\* all its children.
Checked(parsed, kind) ==
  /\ parsed.node.kind = kind
  /\ IsList(parsed.errors)
  /\ parsed.errors = <<>> =>
       CompleteConstruct(parsed.node) /\ WholeChildren(parsed.node.children)

LEMMA TryExpressionChecked ==
  ASSUME NEW at
  PROVE  Checked(TryExpression(at), "TryExpression")
<1> DEFINE first == at + 1
           end == ScanOpaqueRegion(first, OperandStops)
           call == Node("DirectCallExpression", RangeOfTokens(first, end),
                        <<CxxRegion(first, first + 1)>>)
           operand == IF IsDirectCall(first, end) THEN call ELSE CxxRegion(first, end)
           error == Error("VIXC1004", RangeOfTokens(at, first))
<1>1. CASE end = first
  <2>1. /\ TryExpression(at).errors = <<error>>
        /\ TryExpression(at).node.kind = "TryExpression"
    BY <1>1 DEF TryExpression, Parsed, Node
  <2> HIDE DEF error
  <2> QED
    BY <2>1, SingletonList, OneIsNotNone DEF Checked
<1>2. CASE end # first
  <2>1. /\ TryExpression(at).errors = <<>>
        /\ TryExpression(at).node.kind = "TryExpression"
        /\ TryExpression(at).node.children = <<operand>>
    BY <1>2 DEF TryExpression, Parsed, Node
  <2>2. CompleteConstruct(operand)
    <3>1. call.kind \notin Demanding
      BY DEF Node, Demanding
    <3>2. CompleteConstruct(call)
      BY <3>1, OthersAreComplete
    <3>3. CompleteConstruct(CxxRegion(first, end))
      BY RegionIsNoConstruct
    <3> HIDE DEF call, end, first
    <3> QED
      BY <3>2, <3>3
  <2> HIDE DEF operand
  <2>3. Len(<<operand>>) = 1 /\ <<operand>>[1] = operand
    BY SingletonList
  <2>4. WholeChildren(<<operand>>)
    BY <2>2, <2>3 DEF WholeChildren
  <2>5. CompleteConstruct(TryExpression(at).node)
    BY <2>1, <2>3 DEF CompleteConstruct
  <2> QED
    BY <2>1, <2>4, <2>5, EmptyList DEF Checked
<1> QED
  BY <1>1, <1>2

LEMMA FailureSpecificationChecked ==
  ASSUME NEW at
  PROVE  Checked(FailureSpecification(at), "FailureSpecification")
<1> DEFINE first == at + 1
           end == FailureTypeEnd(first)
           children == NoChildIf(end = first, CxxRegion(first, end))
           errors == ErrorIf(end = first, "VIXC1003", RangeOfTokens(at, first))
<1>1. /\ FailureSpecification(at).errors = errors
      /\ FailureSpecification(at).node.kind = "FailureSpecification"
      /\ FailureSpecification(at).node.children = children
  BY DEF FailureSpecification, Parsed, Node
<1>2. IsList(errors) /\ (errors = <<>> => end # first)
  BY ErrorIfReports
<1>3. /\ WholeChildren(children)
      /\ end # first => Len(children) = 1
  BY RegionIfIsWhole, ChildUnless
<1> HIDE DEF errors, children, end
<1>4. errors = <<>> => CompleteConstruct(FailureSpecification(at).node)
  BY <1>1, <1>2, <1>3 DEF CompleteConstruct
<1> QED
  BY <1>1, <1>2, <1>3, <1>4 DEF Checked

LEMMA ReturnStatementChecked ==
  ASSUME IsTokenStream(tokens), NEW at \in 1..Len(tokens), Kind(at) # "EndOfFile"
  PROVE  Checked(ReturnStatement(at), "ReturnStatement")
<1> DEFINE first == at + 1
           end == ScanOpaqueRegion(first, StatementStops)
           next == AfterSemicolon(end)
           children == NoChildIf(end = first, CxxRegion(first, end))
           noOperand == ErrorIf(end = first, "VIXC1005", RangeOfTokens(at, first))
           noEnd == ErrorIf(next = end, "VIXC1006", RangeOfTokens(at, next))
           node == ReturnStatement(at).node
<1>1. /\ ReturnStatement(at).errors = noOperand \o noEnd
      /\ node.kind = "ReturnStatement" /\ node.children = children
      /\ node.range = RangeOfTokens(at, next)
  BY DEF ReturnStatement, Parsed, Node
<1>2. /\ IsList(noOperand) /\ (noOperand = <<>> => end # first)
      /\ IsList(noEnd) /\ (noEnd = <<>> => next # end)
  BY ErrorIfReports
<1>3. /\ WholeChildren(children)
      /\ end # first => Len(children) = 1
  BY RegionIfIsWhole, ChildUnless
<1>4. end \in at..Len(tokens)
  <2>1. first \in 1..Len(tokens) /\ at + 1 \in Nat
    BY NextToken
  <2>2. end \in at+1..Len(tokens)
    BY <2>1, ScansStop
  <2> HIDE DEF end
  <2> QED
    BY <2>2
<1> HIDE DEF noOperand, noEnd, children, end, first, node
<1>5. ASSUME next # end PROVE Terminated(node)
  BY <1>1, <1>4, <1>5, SemicolonTerminates
<1> HIDE DEF next
<1>6. IsList(noOperand \o noEnd)
  BY <1>2, ConcatOfLists
<1>7. ASSUME noOperand \o noEnd = <<>> PROVE CompleteConstruct(node)
  <2>1. end # first /\ next # end
    BY <1>2, <1>7, NothingReported
  <2>2. Len(node.children) = 1 /\ Terminated(node)
    BY <1>1, <1>3, <1>5, <2>1
  <2> QED
    BY <1>1, <2>2 DEF CompleteConstruct, Terminated
<1> QED
  BY <1>1, <1>3, <1>6, <1>7 DEF Checked, node

LEMMA FailStatementChecked ==
  ASSUME IsTokenStream(tokens), NEW at \in 1..Len(tokens), Kind(at) # "EndOfFile"
  PROVE  Checked(FailStatement(at), "FailStatement")
<1> DEFINE first == at + 1
           end == ScanOpaqueRegion(first, StatementStops)
           payload == IF Kind(first) = "try" /\ Kind(first + 1) # "{"
                      THEN TryExpression(first)
                      ELSE Parsed(CxxRegion(first, end), end, <<>>)
           next == AfterSemicolon(payload.next)
           children == NoChildIf(payload.next = first, payload.node)
           noOperand == ErrorIf(payload.next = first, "VIXC1001", RangeOfTokens(at, first))
           noEnd == ErrorIf(next = payload.next, "VIXC1002", RangeOfTokens(at, next))
           node == FailStatement(at).node
<1>1. /\ FailStatement(at).errors = (payload.errors \o noOperand) \o noEnd
      /\ node.kind = "FailStatement" /\ node.children = children
      /\ node.range = RangeOfTokens(at, next)
  BY DEF FailStatement, Parsed, Node
<1>2. first \in 1..Len(tokens) /\ end \in first..Len(tokens)
  BY NextToken, ScansStop
<1>3. /\ IsList(payload.errors)
      /\ payload.errors = <<>> => CompleteConstruct(payload.node)
      /\ payload.next \in first..Len(tokens)
  <2>1. CASE Kind(first) = "try" /\ Kind(first + 1) # "{"
    <3>1. payload = TryExpression(first) /\ Kind(first) # "EndOfFile"
      BY <2>1
    <3> HIDE DEF payload, first, end
    <3>2. Spans(TryExpression(first), first, first)
      BY <1>2, <3>1, TryExpressionSpans
    <3>3. Checked(TryExpression(first), "TryExpression")
      BY TryExpressionChecked
    <3>4. payload.next \in first..Len(tokens)
      BY <1>2, <3>1, <3>2, StreamFacts DEF Spans
    <3> QED
      BY <3>1, <3>3, <3>4 DEF Checked
  <2>2. CASE ~(Kind(first) = "try" /\ Kind(first + 1) # "{")
    <3>1. /\ payload.errors = <<>> /\ payload.node = CxxRegion(first, end)
          /\ payload.next = end
      BY <2>2 DEF Parsed
    <3> HIDE DEF payload, first, end
    <3> QED
      BY <1>2, <3>1, EmptyList, RegionIsNoConstruct
  <2> QED
    BY <2>1, <2>2
<1> HIDE DEF payload, end
<1>4. /\ IsList(noOperand) /\ (noOperand = <<>> => payload.next # first)
      /\ IsList(noEnd) /\ (noEnd = <<>> => next # payload.next)
  BY ErrorIfReports
<1>5. /\ payload.next # first => Len(children) = 1
      /\ \A k \in 1..Len(children) : children[k] = payload.node
  BY ChildUnless
<1> HIDE DEF noOperand, noEnd, children, node
<1>6. payload.next \in at..Len(tokens)
  BY <1>2, <1>3
<1>7. ASSUME next # payload.next PROVE Terminated(node)
  BY <1>1, <1>6, <1>7, SemicolonTerminates
<1> HIDE DEF next, first
<1>8. IsList(payload.errors \o noOperand)
  BY <1>3, <1>4, ConcatOfLists
<1>9. IsList((payload.errors \o noOperand) \o noEnd)
  BY <1>4, <1>8, ConcatOfLists
<1>10. ASSUME (payload.errors \o noOperand) \o noEnd = <<>>
       PROVE  CompleteConstruct(node) /\ WholeChildren(node.children)
  <2>1. payload.errors \o noOperand = <<>> /\ noEnd = <<>>
    BY <1>4, <1>8, <1>10, NothingReported
  <2>2. payload.errors = <<>> /\ noOperand = <<>>
    BY <1>3, <1>4, <2>1, NothingReported
  <2>3. /\ Len(node.children) = 1 /\ Terminated(node)
        /\ WholeChildren(node.children)
    BY <1>1, <1>3, <1>4, <1>5, <1>7, <2>1, <2>2 DEF WholeChildren
  <2> QED
    BY <1>1, <2>3 DEF CompleteConstruct, Terminated
<1> QED
  BY <1>1, <1>9, <1>10 DEF Checked, node

LEMMA TryInitializationChecked ==
  ASSUME IsTokenStream(tokens), NEW at \in 1..Len(tokens), Kind(at) # "EndOfFile",
         NEW declaration \in 1..at
  PROVE  Checked(TryInitialization(declaration, at), "TryInitialization")
<1> DEFINE operand == TryExpression(at)
           next == AfterSemicolon(operand.next)
           region == CxxRegion(declaration, at - 1)
           noEnd == ErrorIf(next = operand.next, "VIXC1007", RangeOfTokens(declaration, next))
           node == TryInitialization(declaration, at).node
<1>1. /\ TryInitialization(declaration, at).errors = operand.errors \o noEnd
      /\ node.kind = "TryInitialization" /\ node.children = <<region, operand.node>>
      /\ node.range = RangeOfTokens(declaration, next)
  BY DEF TryInitialization, Parsed, Node
<1>2. /\ IsList(noEnd) /\ (noEnd = <<>> => next # operand.next)
  BY ErrorIfReports
<1>3. Checked(operand, "TryExpression")
  BY TryExpressionChecked
<1>4. operand.next \in at+1..Len(tokens)
  BY TryExpressionSpans DEF Spans
<1>5. CompleteConstruct(region)
  BY RegionIsNoConstruct
<1> HIDE DEF operand, region, noEnd, node
<1>6. declaration \in 1..Len(tokens) /\ operand.next \in declaration..Len(tokens)
  BY <1>4, StreamFacts
<1>7. ASSUME next # operand.next PROVE Terminated(node)
  BY <1>1, <1>6, <1>7, SemicolonTerminates
<1> HIDE DEF next
<1>8. IsList(operand.errors \o noEnd)
  BY <1>2, <1>3, ConcatOfLists DEF Checked
<1>9. ASSUME operand.errors \o noEnd = <<>>
      PROVE  CompleteConstruct(node) /\ WholeChildren(node.children)
  <2>1. operand.errors = <<>> /\ noEnd = <<>>
    BY <1>2, <1>3, <1>9, NothingReported DEF Checked
  <2>2. CompleteConstruct(operand.node) /\ operand.node.kind = "TryExpression"
    BY <1>3, <2>1 DEF Checked
  <2>3. Len(operand.node.children) = 1
    BY <2>2 DEF CompleteConstruct
  <2>4. /\ Len(node.children) = 2
        /\ node.children[1] = region /\ node.children[2] = operand.node
    BY <1>1
  <2>5. Terminated(node)
    BY <1>2, <1>7, <2>1
  <2>6. CompleteConstruct(node)
    BY <1>1, <2>2, <2>3, <2>4, <2>5 DEF CompleteConstruct, Terminated
  <2>7. WholeChildren(node.children)
    BY <1>5, <2>2, <2>4 DEF WholeChildren
  <2> QED
    BY <2>6, <2>7
<1> QED
  BY <1>1, <1>8, <1>9 DEF Checked, node

LEMMA ConstructChecked ==
  ASSUME IsTokenStream(tokens), NEW at \in 1..Len(tokens), StartsConstruct(at)
  PROVE  /\ Construct(at).node.kind \in Demanding
         /\ Checked(Construct(at), Construct(at).node.kind)
<1>1. Kind(at) \in {"fail", "fails", "try"}
  BY DEF StartsConstruct
<1>2. Kind(at) # "EndOfFile"
  BY <1>1
<1>3. Construct(at) \in {FailStatement(at), FailureSpecification(at), TryExpression(at)}
  BY <1>1 DEF Construct
<1>4. /\ Checked(FailStatement(at), "FailStatement")
      /\ Checked(FailureSpecification(at), "FailureSpecification")
      /\ Checked(TryExpression(at), "TryExpression")
  BY <1>2, FailStatementChecked, FailureSpecificationChecked, TryExpressionChecked
<1> QED
  BY <1>3, <1>4 DEF Checked, Demanding

-----------------------------------------------------------------------------
(* The children of a function, in source order.                            *)

\* Nodes that are no constructs, as in the header of a function.
AllOther(nodes) == IsList(nodes) /\ \A k \in 1..Len(nodes) : nodes[k].kind \notin Demanding

LEMMA ConcatOfOthers ==
  ASSUME NEW s, NEW t, AllOther(s), AllOther(t)
  PROVE  AllOther(s \o t)
<1> DEFINE both == s \o t
<1>1. /\ IsList(both) /\ Len(s) \in Nat /\ Len(t) \in Nat
      /\ Len(both) = Len(s) + Len(t)
      /\ \A k \in 1..Len(s) : both[k] = s[k]
      /\ \A k \in 1..Len(t) : both[Len(s) + k] = t[k]
  BY ConcatOfLists DEF AllOther
<1> HIDE DEF both
<1>2. ASSUME NEW k \in 1..Len(both) PROVE both[k].kind \notin Demanding
  <2>1. CASE k \in 1..Len(s)
    BY <1>1, <2>1 DEF AllOther
  <2>2. CASE k \notin 1..Len(s)
    <3>1. k - Len(s) \in 1..Len(t) /\ Len(s) + (k - Len(s)) = k
      BY <1>1, <2>2
    <3>2. both[k] = t[k - Len(s)]
      BY <1>1, <3>1
    <3> QED
      BY <3>1, <3>2 DEF AllOther
  <2> QED
    BY <2>1, <2>2
<1> QED
  BY <1>1, <1>2 DEF AllOther, both

LEMMA OneOther ==
  ASSUME NEW node, node.kind \notin Demanding
  PROVE  AllOther(<<node>>)
BY SingletonList DEF AllOther

\* A function declaration without a name or without a header at all has
\* other children, but never a construct before its specification.
LEMMA HeaderHasNoConstruct ==
  ASSUME NEW prefix, prefix.kind = "CxxRegion", NEW at
  PROVE  AllOther(Header(prefix, at).children)
<1> DEFINE first == PrefixBegin(prefix, at)
           open == IF first < at THEN MatchingLeftParen(at - 1) ELSE NotFound
           begin == DeclarationBegin(first, open)
           type == Node("FunctionReturnType", RangeOfTokens(begin, open - 1), <<>>)
           name == Node("FunctionName", RangeOfTokens(open - 1, open), <<>>)
           named == NoChildIf(~HasSupportedFunctionName(begin, open), name)
           declarator == Node("FunctionDeclarator", RangeOfTokens(open - 1, at), <<>>)
<1>1. AllOther(<<prefix>>) /\ AllOther(<<type>>) /\ AllOther(<<declarator>>)
  <2>1. prefix.kind \notin Demanding /\ type.kind \notin Demanding
        /\ declarator.kind \notin Demanding
    BY DEF Demanding, Node
  <2> HIDE DEF type, declarator
  <2> QED
    BY <2>1, OneOther
<1>2. AllOther(named)
  <2>1. name.kind \notin Demanding
    BY DEF Demanding, Node
  <2> HIDE DEF name
  <2> QED
    BY <2>1, ChildUnless DEF AllOther
<1>3. CASE open \in {NotFound, first}
  <2>1. Header(prefix, at).children = <<prefix>>
    BY <1>3 DEF Header
  <2> QED
    BY <1>1, <2>1
<1>4. CASE open \notin {NotFound, first}
  <2>1. Header(prefix, at).children = (<<type>> \o named) \o <<declarator>>
    BY <1>4 DEF Header
  <2> HIDE DEF type, declarator, named
  <2> DEFINE both == <<type>> \o named
  <2>2. AllOther(both)
    BY <1>1, <1>2, ConcatOfOthers
  <2>3. AllOther(both \o <<declarator>>)
    <3> HIDE DEF both
    <3> QED
      BY <1>1, <2>2, ConcatOfOthers
  <2> QED
    BY <2>1, <2>3
<1> QED
  BY <1>3, <1>4

\* The first failure specification heads the body.
LEMMA SpecificationHeads ==
  ASSUME NEW nodes, AllOther(nodes), NEW node, node.kind = "FailureSpecification"
  PROVE  Headed(nodes \o <<node>>)
<1> DEFINE longer == nodes \o <<node>>
<1>1. /\ Len(nodes) \in Nat /\ Len(longer) = Len(nodes) + 1
      /\ \A k \in 1..Len(nodes) : longer[k] = nodes[k]
      /\ longer[Len(nodes) + 1] = node
  BY PushedElement DEF AllOther
<1> HIDE DEF longer
<1>2. Len(nodes) + 1 \in 1..Len(longer)
  BY <1>1
<1>3. \A k \in 1..(Len(nodes)+1)-1 : longer[k].kind # "FailureSpecification"
  BY <1>1 DEF AllOther, Demanding
<1>4. (Len(nodes)+1)..Len(longer)-1 = {}
  BY <1>1
<1> QED
  BY <1>1, <1>2, <1>3, <1>4 DEF Headed, longer

LEMMA HeadedExtends ==
  ASSUME NEW nodes, IsList(nodes), Headed(nodes), NEW node,
         nodes[Len(nodes)].range.end <= node.range.begin
  PROVE  Headed(nodes \o <<node>>)
<1> DEFINE longer == nodes \o <<node>>
<1>1. /\ Len(nodes) \in Nat /\ Len(longer) = Len(nodes) + 1
      /\ \A k \in 1..Len(nodes) : longer[k] = nodes[k]
      /\ longer[Len(nodes) + 1] = node
  BY PushedElement
<1>2. PICK h \in 1..Len(nodes) :
        /\ nodes[h].kind = "FailureSpecification"
        /\ \A k \in 1..h-1 : nodes[k].kind # "FailureSpecification"
        /\ \A k \in h..Len(nodes)-1 : nodes[k].range.end <= nodes[k+1].range.begin
  BY DEF Headed
<1> HIDE DEF longer
<1>3. h \in 1..Len(longer) /\ longer[h].kind = "FailureSpecification"
  BY <1>1, <1>2
<1>4. \A k \in 1..h-1 : longer[k].kind # "FailureSpecification"
  BY <1>1, <1>2
<1>5. ASSUME NEW k \in h..Len(longer)-1
      PROVE  longer[k].range.end <= longer[k+1].range.begin
  <2>1. CASE k = Len(nodes)
    BY <1>1, <1>2, <2>1
  <2>2. CASE k # Len(nodes)
    <3>1. k \in h..Len(nodes)-1 /\ k \in 1..Len(nodes) /\ k+1 \in 1..Len(nodes)
      BY <1>1, <2>2
    <3> QED
      BY <1>1, <1>2, <3>1
  <2> QED
    BY <2>1, <2>2
<1> QED
  BY <1>3, <1>4, <1>5 DEF Headed, longer

LEMMA OrderExtends ==
  ASSUME IsTokenStream(tokens), NEW to \in 2..Len(tokens), NEW next \in to+1..Len(tokens),
         NEW nodes, Ordered(nodes, to), NEW node, node.range = RangeOfTokens(to, next)
  PROVE  Ordered(nodes \o <<node>>, next)
<1>1. to - 1 \in 1..Len(tokens) /\ to \in 1..Len(tokens) /\ to - 1 < to
  BY StreamFacts
<1>2. tokens[to-1].end <= tokens[to].begin
  BY <1>1, StreamFacts
<1>3. node.range = [begin |-> tokens[to].begin, end |-> tokens[next-1].end]
  BY <1>1, StreamFacts DEF RangeOfTokens
<1>4. nodes[Len(nodes)].range.end <= node.range.begin
  BY <1>2, <1>3 DEF Ordered
<1>5. Headed(nodes \o <<node>>)
  BY <1>4, HeadedExtends DEF Ordered
<1>6. /\ IsList(nodes \o <<node>>)
      /\ (nodes \o <<node>>)[Len(nodes \o <<node>>)] = node
  BY PushedElement DEF Ordered
<1> QED
  BY <1>3, <1>5, <1>6 DEF Ordered

LEMMA RegionOrdered ==
  ASSUME IsTokenStream(tokens), NEW to \in 2..Len(tokens), NEW end \in to..Len(tokens),
         function.regionBegin = to, Ordered(function.children, to)
  PROVE  IsList(OpenRegion(end)) /\ Ordered(function.children \o OpenRegion(end), end)
<1>1. CASE end = to
  <2>1. OpenRegion(end) = <<>>
    BY <1>1 DEF OpenRegion, NoChildIf
  <2> QED
    BY <1>1, <2>1, EmptyList, NothingAppended DEF Ordered
<1>2. CASE end # to
  <2> DEFINE region == CxxRegion(to, end)
  <2>1. end \in to+1..Len(tokens) /\ to < end /\ to <= Len(tokens) /\ ~(end <= to)
    BY <1>2, StreamFacts
  <2>2. OpenRegion(end) = <<region>> /\ region.range = RangeOfTokens(to, end)
    BY <2>1 DEF OpenRegion, NoChildIf, CxxRegion, Node
  <2> HIDE DEF region
  <2> QED
    BY <2>1, <2>2, OrderExtends, SingletonList
<1> QED
  BY <1>1, <1>2

-----------------------------------------------------------------------------
(* Lists of good nodes.                                                    *)

LEMMA WholeConcat ==
  ASSUME NEW s, NEW t, IsList(s), IsList(t), WholeChildren(s), WholeChildren(t)
  PROVE  WholeChildren(s \o t)
<1> DEFINE both == s \o t
<1>1. /\ Len(s) \in Nat /\ Len(t) \in Nat
      /\ Len(both) = Len(s) + Len(t)
      /\ \A k \in 1..Len(s) : both[k] = s[k]
      /\ \A k \in 1..Len(t) : both[Len(s) + k] = t[k]
  BY ConcatOfLists
<1> HIDE DEF both
<1>2. ASSUME NEW k \in 1..Len(both) PROVE CompleteConstruct(both[k])
  <2>1. CASE k \in 1..Len(s)
    BY <1>1, <2>1 DEF WholeChildren
  <2>2. CASE k \notin 1..Len(s)
    <3>1. k - Len(s) \in 1..Len(t) /\ Len(s) + (k - Len(s)) = k
      BY <1>1, <2>2
    <3>2. both[k] = t[k - Len(s)]
      BY <1>1, <3>1
    <3> QED
      BY <3>1, <3>2 DEF WholeChildren
  <2> QED
    BY <2>1, <2>2
<1> QED
  BY <1>2 DEF WholeChildren, both

LEMMA WholeOne ==
  ASSUME NEW node, CompleteConstruct(node)
  PROVE  WholeChildren(<<node>>)
BY SingletonList DEF WholeChildren

LEMMA OthersAreWhole ==
  ASSUME NEW nodes, AllOther(nodes)
  PROVE  WholeChildren(nodes)
BY OthersAreComplete DEF AllOther, WholeChildren

LEMMA GoodConcat ==
  ASSUME NEW s, NEW t, NEW clean, AllGood(s, clean), AllGood(t, clean)
  PROVE  AllGood(s \o t, clean)
<1> DEFINE both == s \o t
<1>1. /\ IsList(both) /\ Len(s) \in Nat /\ Len(t) \in Nat
      /\ Len(both) = Len(s) + Len(t)
      /\ \A k \in 1..Len(s) : both[k] = s[k]
      /\ \A k \in 1..Len(t) : both[Len(s) + k] = t[k]
  BY ConcatOfLists DEF AllGood
<1> HIDE DEF both
<1>2. ASSUME NEW k \in 1..Len(both) PROVE Good(both[k], clean)
  <2>1. CASE k \in 1..Len(s)
    BY <1>1, <2>1 DEF AllGood
  <2>2. CASE k \notin 1..Len(s)
    <3>1. k - Len(s) \in 1..Len(t) /\ Len(s) + (k - Len(s)) = k
      BY <1>1, <2>2
    <3>2. both[k] = t[k - Len(s)]
      BY <1>1, <3>1
    <3> QED
      BY <3>1, <3>2 DEF AllGood
  <2> QED
    BY <2>1, <2>2
<1> QED
  BY <1>1, <1>2 DEF AllGood, both

LEMMA GoodOne ==
  ASSUME NEW node, NEW clean, Good(node, clean)
  PROVE  AllGood(<<node>>, clean)
BY SingletonList DEF AllGood

LEMMA NoneIsGood ==
  ASSUME NEW clean
  PROVE  AllGood(<<>>, clean)
BY EmptyList DEF AllGood

LEMMA GoodUnlessReported ==
  ASSUME NEW nodes, NEW clean, AllGood(nodes, clean), NEW later, later => clean
  PROVE  AllGood(nodes, later)
BY DEF AllGood, Good

\* A region at top level, owned or dropped.
LEMMA RegionIsGood ==
  ASSUME NEW node, node.kind \in {"CxxRegion", "Invalid"}, node.children = <<>>, NEW clean
  PROVE  Good(node, clean)
<1>1. CompleteConstruct(node)
  BY OthersAreComplete DEF Demanding
<1>2. WholeChildren(node.children)
  BY EmptyList DEF WholeChildren
<1> QED
  BY <1>1, <1>2 DEF Good

LEMMA CompleteConcat ==
  ASSUME NEW s, NEW t, IsList(s), IsList(t), AllComplete(s \o t)
  PROVE  AllComplete(s) /\ AllComplete(t)
<1> DEFINE both == s \o t
<1>1. /\ Len(s) \in Nat /\ Len(t) \in Nat
      /\ Len(both) = Len(s) + Len(t)
      /\ \A k \in 1..Len(s) : both[k] = s[k]
      /\ \A k \in 1..Len(t) : both[Len(s) + k] = t[k]
  BY ConcatOfLists
<1>2. \A k \in 1..Len(both) : Complete(both[k])
  BY DEF AllComplete
<1> HIDE DEF both
<1>3. \A k \in 1..Len(s) : Complete(s[k])
  BY <1>1, <1>2
<1>4. ASSUME NEW k \in 1..Len(t) PROVE Complete(t[k])
  <2>1. Len(s) + k \in 1..Len(both)
    BY <1>1
  <2> QED
    BY <1>1, <1>2, <2>1
<1> QED
  BY <1>3, <1>4 DEF AllComplete

-----------------------------------------------------------------------------
(* Ranges with trivia.                                                     *)

\* The offset lies at the last byte of token "index"-1 or in the trivia
\* behind it.
EndsAt(offset, index) ==
  tokens[index-1].end <= offset /\ offset <= tokens[index].begin

\* Later tokens begin and end at later offsets.
LEMMA TokensAdvance ==
  ASSUME IsTokenStream(tokens), NEW i \in 1..Len(tokens), NEW j \in 1..Len(tokens), i <= j
  PROVE  tokens[i].begin <= tokens[j].begin /\ tokens[i].end <= tokens[j].end
<1>1. CASE i = j
  <2>1. tokens[i].begin \in Nat /\ tokens[i].end \in Nat
    BY StreamFacts
  <2> QED
    BY <1>1, <2>1
<1>2. CASE i # j
  <2>1. i < j
    BY <1>2, StreamFacts
  <2>2. PICK iBegin, iEnd, jBegin, jEnd \in Nat :
          /\ iBegin = tokens[i].begin /\ iEnd = tokens[i].end
          /\ jBegin = tokens[j].begin /\ jEnd = tokens[j].end
    BY StreamFacts
  <2>3. iBegin <= iEnd /\ iEnd <= jBegin /\ jBegin <= jEnd
    BY <2>1, <2>2, StreamFacts
  <2>4. iBegin <= jBegin /\ iEnd <= jEnd
    BY <2>3
  <2> QED
    BY <2>2, <2>4
<1> QED
  BY <1>1, <1>2

\* Such a range owns exactly the tokens between its endpoints.
LEMMA SpanOwnsItsTokens ==
  ASSUME IsTokenStream(tokens),
         NEW first \in 1..Len(tokens), NEW end \in first+1..Len(tokens),
         NEW node, node.range.begin \in Nat, node.range.end \in Int,
         StartsAt(node.range.begin, first), EndsAt(node.range.end, end)
  PROVE  \A i \in 1..Len(tokens)-1 : Owns(node, i) <=> first <= i /\ i < end
<1> SUFFICES ASSUME NEW i \in 1..Len(tokens)-1
             PROVE  Owns(node, i) <=> first <= i /\ i < end
  OBVIOUS
<1>1. end - 1 \in 1..Len(tokens) /\ end \in 1..Len(tokens) /\ i \in 1..Len(tokens) /\ i < Len(tokens)
      /\ (first > 1 => first - 1 \in 1..Len(tokens))
  BY StreamFacts
<1>2. PICK b \in Nat, e \in Int : b = node.range.begin /\ e = node.range.end
  OBVIOUS
<1>3. PICK begin, tokenEnd \in Nat : begin = tokens[i].begin /\ tokenEnd = tokens[i].end
  BY <1>1, StreamFacts
<1>4. begin < tokenEnd
  BY <1>1, <1>3, StreamFacts
<1>5. Owns(node, i) <=> b <= begin /\ tokenEnd <= e
  <2>1. Owns(node, i) <=> Within([begin |-> begin, end |-> tokenEnd], node.range)
    BY <1>3 DEF Owns
  <2> QED
    BY <1>2, <1>4, <2>1 DEF Within, ValidRange
<1>6. ASSUME first <= i PROVE b <= begin
  <2>1. PICK x \in Nat : x = tokens[first].begin
    BY StreamFacts
  <2>2. b <= x
    BY <1>2, <2>1 DEF StartsAt
  <2>3. x <= begin
    BY <1>1, <1>3, <1>6, <2>1, TokensAdvance
  <2> QED
    BY <2>2, <2>3
<1>7. ASSUME i < first PROVE ~(b <= begin)
  <2>1. first > 1 /\ first - 1 \in 1..Len(tokens) /\ i <= first - 1
    BY <1>1, <1>7
  <2>2. PICK x \in Nat : x = tokens[first-1].end
    BY <2>1, StreamFacts
  <2>3. x <= b
    BY <1>2, <2>1, <2>2 DEF StartsAt
  <2>4. tokenEnd <= x
    BY <1>1, <1>3, <2>1, <2>2, TokensAdvance
  <2> QED
    BY <1>4, <2>3, <2>4
<1>8. ASSUME i < end PROVE tokenEnd <= e
  <2>1. i <= end - 1
    BY <1>1, <1>8
  <2>2. PICK x \in Nat : x = tokens[end-1].end
    BY <1>1, StreamFacts
  <2>3. x <= e
    BY <1>2, <2>2 DEF EndsAt
  <2>4. tokenEnd <= x
    BY <1>1, <1>3, <2>1, <2>2, TokensAdvance
  <2> QED
    BY <2>3, <2>4
<1>9. ASSUME end <= i PROVE ~(tokenEnd <= e)
  <2>1. PICK x \in Nat : x = tokens[end].begin
    BY <1>1, StreamFacts
  <2>2. e <= x
    BY <1>2, <2>1 DEF EndsAt
  <2>3. x <= begin
    BY <1>1, <1>3, <1>9, <2>1, TokensAdvance
  <2> QED
    BY <1>4, <2>2, <2>3
<1> QED
  BY <1>1, <1>5, <1>6, <1>7, <1>8, <1>9

-----------------------------------------------------------------------------
(* Where a function declaration starts.                                    *)

\* A top-level region: it owns the trivia in front of its first token.
StartsRegion(range, first) ==
  range.begin = IF first > 1 THEN tokens[first-1].end ELSE tokens[first].begin

LEMMA RegionStarts ==
  ASSUME IsTokenStream(tokens), NEW first \in 1..Len(tokens),
         NEW range, StartsRegion(range, first)
  PROVE  range.begin \in Nat /\ StartsAt(range.begin, first)
<1>1. CASE first > 1
  <2>1. first - 1 \in 1..Len(tokens) /\ first - 1 < first /\ range.begin = tokens[first-1].end
    BY <1>1 DEF StartsRegion
  <2>2. tokens[first-1].end \in Nat /\ tokens[first-1].end <= tokens[first].begin
    BY <2>1, StreamFacts
  <2> QED
    BY <2>1, <2>2 DEF StartsAt
<1>2. CASE first = 1
  <2>1. range.begin = tokens[first].begin /\ tokens[first].begin \in Nat
    BY <1>2, StreamFacts DEF StartsRegion
  <2> QED
    BY <1>2, <2>1 DEF StartsAt
<1> QED
  BY <1>1, <1>2

\* The search by offset finds the first token of the region.
LEMMA PrefixBeginIsFirst ==
  ASSUME IsTokenStream(tokens), NEW first \in 1..Len(tokens), NEW at \in first+1..Len(tokens),
         NEW prefix, StartsRegion(prefix.range, first)
  PROVE  PrefixBegin(prefix, at) = first
<1> DEFINE S == {i \in 1..at-1 : tokens[i].begin >= prefix.range.begin}
<1>1. prefix.range.begin \in Nat /\ StartsAt(prefix.range.begin, first)
  BY RegionStarts
<1>2. tokens[first].begin \in Nat /\ tokens[first].begin >= prefix.range.begin
  BY <1>1, StreamFacts DEF StartsAt
<1>3. first \in S /\ S \in SUBSET Int
  BY <1>2, StreamFacts
<1>4. ASSUME NEW i \in S, i < first PROVE FALSE
  <2>1. i \in 1..Len(tokens) /\ first - 1 \in 1..Len(tokens) /\ first > 1 /\ i < Len(tokens)
        /\ i <= first - 1
    BY <1>4, StreamFacts
  <2>2. PICK begin, end, before \in Nat :
          begin = tokens[i].begin /\ end = tokens[i].end /\ before = tokens[first-1].end
    BY <2>1, StreamFacts
  <2>3. begin < end
    BY <2>1, <2>2, StreamFacts
  <2>4. prefix.range.begin = before /\ begin >= prefix.range.begin
    BY <2>1, <2>2 DEF StartsRegion
  <2>5. end <= before
    BY <2>1, <2>2, TokensAdvance
  <2> QED
    BY <2>3, <2>4, <2>5
<1>5. \A i \in S : first <= i
  BY <1>4
<1>6. S # {} /\ Min(S) = first
  <2> HIDE DEF S
  <2> QED
    BY <1>3, <1>5, MinIs
<1> QED
  BY <1>6 DEF PrefixBegin

\* The header leaves the tokens before the declaration to the region it cut
\* off, and its range does not reach past the `fails`.
StartsDeclaration(header, first, at) ==
  /\ header.range.begin \in Int /\ header.range.end \in Int
  /\ header.range.end < tokens[at].end
  /\ \A clean : AllGood(header.before, clean)
  /\ \A nodes : Tiles(nodes, 1, first) /\ header.range.begin >= 0 =>
       \E start \in 1..at-1 : /\ Tiles(nodes \o header.before, 1, start)
                              /\ StartsAt(header.range.begin, start)

LEMMA HeaderStartsDeclaration ==
  ASSUME IsTokenStream(tokens), NEW first \in 1..Len(tokens), NEW at \in first+1..Len(tokens),
         Kind(at) = "fails", NEW prefix, prefix.kind = "CxxRegion",
         StartsRegion(prefix.range, first), prefix.range.end = tokens[at].begin
  PROVE  StartsDeclaration(Header(prefix, at), first, at)
<1> DEFINE header == Header(prefix, at)
           open == IF first < at THEN MatchingLeftParen(at - 1) ELSE NotFound
           begin == DeclarationBegin(first, open)
           type == RangeOfTokens(begin, open - 1)
           region == CxxRegion(first, begin)
<1>1. PrefixBegin(prefix, at) = first
  BY PrefixBeginIsFirst
<1>2. /\ Len(tokens) \in Nat /\ first < at /\ at < Len(tokens)
      /\ at \in 1..Len(tokens) /\ at - 1 \in 1..Len(tokens) /\ first \in 1..at-1
  <2>1. at \in 1..Len(tokens) /\ Kind(at) # "EndOfFile"
    BY StreamFacts
  <2> QED
    BY <2>1, NextToken, StreamFacts
<1>3. /\ tokens[at].begin \in Nat /\ tokens[at].end \in Nat
      /\ tokens[at].begin < tokens[at].end
  BY <1>2, StreamFacts
<1>4. CASE open \in {NotFound, first}
  <2>1. header.before = <<>> /\ header.range = prefix.range
    BY <1>1, <1>4 DEF Header
  <2> HIDE DEF header, open
  <2>2. prefix.range.begin \in Nat /\ StartsAt(prefix.range.begin, first)
    BY RegionStarts
  <2>3. \A nodes : Tiles(nodes, 1, first) => Tiles(nodes \o header.before, 1, first)
    BY <2>1, NothingAppended DEF Tiles
  <2>4. \A clean : AllGood(header.before, clean)
    BY <2>1, NoneIsGood
  <2>5. StartsDeclaration(header, first, at)
    BY <1>2, <1>3, <2>1, <2>2, <2>3, <2>4 DEF StartsDeclaration
  <2> QED
    BY <2>5 DEF header
<1>5. CASE open \notin {NotFound, first}
  <2>1. /\ header.before = NoChildIf(begin <= first, region)
        /\ header.range = type
    BY <1>1, <1>5 DEF Header
  <2>2. open \in 1..at-1
    <3>1. open = MatchingLeftParen(at - 1) /\ MatchingLeftParen(at - 1) # NotFound
      BY <1>2, <1>5
    <3> HIDE DEF open
    <3> QED
      BY <1>2, <3>1, LeftParenBefore
  <2> HIDE DEF header, open
  <2>3. begin \in Nat /\ first <= begin
    <3>1. first \in 1..Len(tokens)+1 /\ open \in 1..Len(tokens)
      BY <1>2, <2>2
    <3> QED
      BY <3>1, DeclarationBeginIsNatural
  <2>4. region.kind \in {"CxxRegion", "Invalid"} /\ region.children = <<>>
    BY DEF CxxRegion, InvalidNode, Node
  <2>5. ASSUME ~(begin <= first), begin <= Len(tokens)
        PROVE  region.range = RangeOfTokens(first, begin)
    BY <1>2, <2>3, <2>5 DEF CxxRegion, Node
  <2> HIDE DEF begin, region
  <2>6. ASSUME NEW clean PROVE AllGood(header.before, clean)
    <3>1. Good(region, clean)
      BY <2>4, RegionIsGood
    <3>2. CASE begin <= first
      <4>1. header.before = <<>>
        BY <2>1, <3>2 DEF NoChildIf
      <4> QED
        BY <4>1, NoneIsGood
    <3>3. CASE ~(begin <= first)
      <4>1. header.before = <<region>>
        BY <2>1, <3>3 DEF NoChildIf
      <4> QED
        BY <3>1, <4>1, GoodOne
    <3> QED
      BY <3>2, <3>3
  <2>7. CASE begin < open - 1
    <3>1. /\ type = [begin |-> tokens[begin].begin, end |-> tokens[(open-1)-1].end]
          /\ begin \in 1..at-1 /\ begin \in 1..Len(tokens)
          /\ (open-1)-1 \in 1..Len(tokens) /\ (open-1)-1 < at
      BY <1>2, <2>2, <2>3, <2>7 DEF RangeOfTokens
    <3>2. type.begin = tokens[begin].begin /\ type.end = tokens[(open-1)-1].end
      BY <3>1
    <3> HIDE DEF type
    <3>3. /\ type.begin \in Nat /\ type.end \in Nat /\ type.end <= tokens[at].begin
      BY <1>2, <3>1, <3>2, StreamFacts
    <3>4. StartsAt(type.begin, begin)
      <4>1. begin > 1 => begin - 1 \in 1..Len(tokens) /\ begin - 1 < begin
        BY <3>1
      <4>2. begin > 1 => tokens[begin-1].end <= tokens[begin].begin
        BY <3>1, <4>1, StreamFacts
      <4> QED
        BY <3>1, <3>2, <3>3, <4>2 DEF StartsAt
    <3>5. ASSUME NEW nodes, Tiles(nodes, 1, first)
          PROVE  Tiles(nodes \o header.before, 1, begin)
      <4>1. CASE begin <= first
        <5>1. header.before = <<>> /\ begin = first
          BY <2>1, <2>3, <4>1, <1>2 DEF NoChildIf
        <5> QED
          BY <3>5, <5>1, NothingAppended DEF Tiles
      <4>2. CASE ~(begin <= first)
        <5>1. header.before = <<region>>
          BY <2>1, <4>2 DEF NoChildIf
        <5>2. /\ 1 \in 1..Len(tokens) /\ first \in 1..Len(tokens)
              /\ begin \in first+1..Len(tokens)
          BY <1>2, <3>1, <4>2
        <5>3. region.range = RangeOfTokens(first, begin)
          BY <2>5, <4>2, <5>2
        <5> QED
          BY <3>5, <5>1, <5>2, <5>3, TilingExtends
      <4> QED
        BY <4>1, <4>2
    <3>6. type.begin \in Int /\ type.end \in Int /\ type.end < tokens[at].end
      BY <1>3, <3>3
    <3>7. StartsDeclaration(header, first, at)
      BY <2>1, <2>6, <3>1, <3>4, <3>5, <3>6 DEF StartsDeclaration
    <3> QED
      BY <3>7 DEF header
  <2>8. CASE ~(begin < open - 1)
    <3>1. type = NoRange
      BY <2>8 DEF RangeOfTokens
    <3>2. type.begin = -1 /\ type.end = -1
      BY <3>1 DEF NoRange, Invalid
    <3> HIDE DEF type
    <3>3. /\ type.begin \in Int /\ type.end \in Int /\ type.end < tokens[at].end
          /\ ~(type.begin >= 0)
      BY <1>3, <3>2
    <3>4. StartsDeclaration(header, first, at)
      BY <2>1, <2>6, <3>3 DEF StartsDeclaration
    <3> QED
      BY <3>4 DEF header
  <2> QED
    BY <2>7, <2>8
<1> QED
  BY <1>4, <1>5

-----------------------------------------------------------------------------
(* The state after a step.                                                 *)

LEMMA GoodNow ==
  ASSUME tokens' = tokens
  PROVE  /\ AllGood(unit', Clean') => AllGood(unit, Clean)'
         /\ AllGood(unit'.children, Clean') => AllGood(unit.children, Clean)'
         /\ AllGood(pending', Clean') => AllGood(pending, Clean)'
<1>1. ASSUME AllGood(unit', Clean')
      PROVE  AllGood(unit, Clean)'
  <2>1. (\A k \in 1..Len(unit) : Clean => CompleteConstruct(unit[k]))'
    <3>1. ASSUME NEW k \in 1..Len(unit')
          PROVE  (Clean => CompleteConstruct(unit[k]))'
      <4>1. Clean' => CompleteConstruct(unit'[k])
        BY <1>1 DEF AllGood, Good
      <4> QED
        BY <4>1 DEF CompleteConstruct, Kind
    <3> QED
      BY <3>1
  <2>2. (\A k \in 1..Len(unit) :
           Clean => \A l \in 1..Len(unit[k].children) : CompleteConstruct(unit[k].children[l]))'
    <3>1. ASSUME NEW k \in 1..Len(unit')
          PROVE  (Clean => \A l \in 1..Len(unit[k].children) : CompleteConstruct(unit[k].children[l]))'
      <4>1. Clean' => \A l \in 1..Len(unit'[k].children) : CompleteConstruct(unit'[k].children[l])
        BY <1>1 DEF AllGood, Good, WholeChildren
      <4> QED
        BY <4>1 DEF CompleteConstruct, Kind
    <3> QED
      BY <3>1
  <2>3. (IsList(unit) /\ \A k \in 1..Len(unit) :
           unit[k].kind = "FunctionDeclaration" => IsList(unit[k].children) /\ Headed(unit[k].children))'
    BY <1>1 DEF AllGood, Good
  <2> QED
    BY <2>1, <2>2, <2>3 DEF AllGood, Good, WholeChildren
<1>2. ASSUME AllGood(unit'.children, Clean')
      PROVE  AllGood(unit.children, Clean)'
  <2>1. (\A k \in 1..Len(unit.children) : Clean => CompleteConstruct(unit.children[k]))'
    <3>1. ASSUME NEW k \in 1..Len(unit'.children)
          PROVE  (Clean => CompleteConstruct(unit.children[k]))'
      <4>1. Clean' => CompleteConstruct(unit'.children[k])
        BY <1>2 DEF AllGood, Good
      <4> QED
        BY <4>1 DEF CompleteConstruct, Kind
    <3> QED
      BY <3>1
  <2>2. (\A k \in 1..Len(unit.children) :
           Clean => \A l \in 1..Len(unit.children[k].children) : CompleteConstruct(unit.children[k].children[l]))'
    <3>1. ASSUME NEW k \in 1..Len(unit'.children)
          PROVE  (Clean => \A l \in 1..Len(unit.children[k].children) : CompleteConstruct(unit.children[k].children[l]))'
      <4>1. Clean' => \A l \in 1..Len(unit'.children[k].children) : CompleteConstruct(unit'.children[k].children[l])
        BY <1>2 DEF AllGood, Good, WholeChildren
      <4>2. ASSUME Clean', NEW l \in 1..Len(unit'.children[k].children)
            PROVE  CompleteConstruct(unit.children[k].children[l])'
        <5>1. CompleteConstruct(unit'.children[k].children[l])
          BY <4>1, <4>2
        <5> QED
          BY <5>1 DEF CompleteConstruct, Kind
      <4> QED
        BY <4>2
    <3> QED
      BY <3>1
  <2>3. (IsList(unit.children) /\ \A k \in 1..Len(unit.children) :
           unit.children[k].kind = "FunctionDeclaration" => IsList(unit.children[k].children) /\ Headed(unit.children[k].children))'
    BY <1>2 DEF AllGood, Good
  <2> QED
    BY <2>1, <2>2, <2>3 DEF AllGood, Good, WholeChildren
<1>3. ASSUME AllGood(pending', Clean')
      PROVE  AllGood(pending, Clean)'
  <2>1. (\A k \in 1..Len(pending) : Clean => CompleteConstruct(pending[k]))'
    <3>1. ASSUME NEW k \in 1..Len(pending')
          PROVE  (Clean => CompleteConstruct(pending[k]))'
      <4>1. Clean' => CompleteConstruct(pending'[k])
        BY <1>3 DEF AllGood, Good
      <4> QED
        BY <4>1 DEF CompleteConstruct, Kind
    <3> QED
      BY <3>1
  <2>2. (\A k \in 1..Len(pending) :
           Clean => \A l \in 1..Len(pending[k].children) : CompleteConstruct(pending[k].children[l]))'
    <3>1. ASSUME NEW k \in 1..Len(pending')
          PROVE  (Clean => \A l \in 1..Len(pending[k].children) : CompleteConstruct(pending[k].children[l]))'
      <4>1. Clean' => \A l \in 1..Len(pending'[k].children) : CompleteConstruct(pending'[k].children[l])
        BY <1>3 DEF AllGood, Good, WholeChildren
      <4> QED
        BY <4>1 DEF CompleteConstruct, Kind
    <3> QED
      BY <3>1
  <2>3. (IsList(pending) /\ \A k \in 1..Len(pending) :
           pending[k].kind = "FunctionDeclaration" => IsList(pending[k].children) /\ Headed(pending[k].children))'
    BY <1>3 DEF AllGood, Good
  <2> QED
    BY <2>1, <2>2, <2>3 DEF AllGood, Good, WholeChildren
<1> QED
  BY <1>1, <1>2, <1>3

LEMMA TiledNow ==
  ASSUME tokens' = tokens
  PROVE  /\ UnitTiled(unit', position') => UnitTiled(unit, position)'
         /\ UnitTiled(unit'.children, Len(tokens')) => UnitTiled(unit.children, Len(tokens))'
BY DEF UnitTiled, AllComplete, Tiles, Clear, OwnedOnce, Owns

LEMMA UnitNow ==
  ASSUME tokens' = tokens, phase' = "unit", IsList(syntaxErrors'),
         AllGood(unit', Clean'), UnitTiled(unit', position')
  PROVE  TreeInv'
BY GoodNow, TiledNow DEF TreeInv

LEMMA DoneNow ==
  ASSUME tokens' = tokens, phase' = "done", IsList(syntaxErrors'),
         AllGood(unit'.children, Clean'), UnitTiled(unit'.children, Len(tokens'))
  PROVE  TreeInv'
BY GoodNow, TiledNow DEF TreeInv

LEMMA FunctionNow ==
  ASSUME tokens' = tokens, FunctionGood(function', pending', unit', Clean')
  PROVE  FunctionGood(function, pending, unit, Clean)'
<1>1. AllGood(pending, Clean)'
  BY GoodNow DEF FunctionGood
<1>2. Ordered(function.children, function.regionBegin)'
  BY DEF FunctionGood, Ordered
<1>3. (Clean => WholeChildren(function.children))'
  BY DEF FunctionGood, WholeChildren, CompleteConstruct, Kind
<1>4. /\ function'.bodyBegin \in 2..Len(tokens')
      /\ function'.range.begin \in Int /\ function'.range.end \in Int
      /\ function'.range.end < tokens'[function'.bodyBegin-1].end
  BY DEF FunctionGood
<1>5. (AllComplete(unit) /\ function.range.begin >= 0 =>
         \E first \in 1..function.bodyBegin-1 :
           Tiles(unit \o pending, 1, first) /\ StartsAt(function.range.begin, first))'
  <2> SUFFICES ASSUME AllComplete(unit)', (function.range.begin >= 0)'
               PROVE  (\E first \in 1..function.bodyBegin-1 :
                         Tiles(unit \o pending, 1, first) /\ StartsAt(function.range.begin, first))'
    OBVIOUS
  <2>1. AllComplete(unit') /\ function'.range.begin >= 0
    BY DEF AllComplete
  <2>2. PICK first \in 1..function'.bodyBegin-1 :
          Tiles(unit' \o pending', 1, first) /\ StartsAt(function'.range.begin, first)
    BY <2>1 DEF FunctionGood
  <2>3. Tiles(unit \o pending, 1, first)'
    BY <2>2 DEF Tiles, Clear, OwnedOnce, Owns
  <2>4. StartsAt(function.range.begin, first)'
    BY <2>2 DEF StartsAt
  <2> QED
    BY <2>3, <2>4
<1> QED
  BY <1>1, <1>2, <1>3, <1>4, <1>5 DEF FunctionGood

LEMMA BodyNow ==
  ASSUME tokens' = tokens, phase' = "body", IsList(syntaxErrors'),
         AllGood(unit', Clean'), FunctionGood(function', pending', unit', Clean')
  PROVE  TreeInv'
BY GoodNow, FunctionNow DEF TreeInv

-----------------------------------------------------------------------------
(* Steps that end at top level.                                            *)

\* What the steps start from.
LEMMA TreeFacts ==
  ASSUME IInv, TreeInv
  PROVE  /\ IsTokenStream(tokens) /\ Len(tokens) \in Nat \ {0}
         /\ position \in 1..Len(tokens) /\ 1 \in 1..Len(tokens)
         /\ IsList(syntaxErrors)
         /\ phase # "done" => AllGood(unit, Clean) /\ IsList(unit)
<1>1. IsTokenStream(tokens) /\ position \in 1..Len(tokens)
  BY DEF IInv, ParserTypeOK
<1>2. Len(tokens) \in Nat \ {0}
  BY <1>1, StreamFacts
<1> QED
  BY <1>1, <1>2 DEF TreeInv, AllGood

\* Appending errors keeps what was reported.
LEMMA ErrorsGrow ==
  ASSUME NEW errors, IsList(errors), IsList(syntaxErrors),
         syntaxErrors' = syntaxErrors \o errors
  PROVE  IsList(syntaxErrors') /\ (Clean' => Clean /\ errors = <<>>)
<1>1. IsList(syntaxErrors')
  BY ConcatOfLists
<1>2. Clean' => syntaxErrors \o errors = <<>>
  BY DEF Clean
<1> QED
  BY <1>1, <1>2, NothingReported DEF Clean

LEMMA PushKeepsTree ==
  ASSUME tokens' = tokens, IsList(syntaxErrors'), AllGood(unit, Clean'),
         NEW before, AllGood(before, Clean'),
         NEW node, node.kind # "Invalid", Good(node, Clean'),
         PushTopLevel(before, node),
         UnitTiled(unit \o before \o <<node>>, position')
  PROVE  TreeInv'
<1>1. /\ unit' = unit \o before \o <<node>>
      /\ phase' = "unit"
  BY DEF PushTopLevel
<1>2. AllGood(unit \o before, Clean')
  BY GoodConcat
<1>3. AllGood(<<node>>, Clean')
  BY GoodOne
<1> DEFINE flushed == unit \o before
<1>4. AllGood(flushed \o <<node>>, Clean')
  <2> HIDE DEF flushed
  <2> QED
    BY <1>2, <1>3, GoodConcat DEF flushed
<1> QED
  BY <1>1, <1>4, UnitNow

\* Pushing a node at top level that owns the tokens it consumed.
LEMMA PushTiles ==
  ASSUME IsTokenStream(tokens), NEW from \in 1..Len(tokens), NEW next \in from+1..Len(tokens),
         NEW nodes, IsList(nodes), UnitTiled(nodes, from),
         NEW node, \A i \in 1..Len(tokens)-1 : Owns(node, i) <=> from <= i /\ i < next
  PROVE  UnitTiled(nodes \o <<>> \o <<node>>, next)
<1>1. nodes \o <<>> = nodes /\ IsList(<<node>>)
  BY NothingAppended, SingletonList
<1>2. ASSUME AllComplete(nodes \o <<node>>) PROVE Tiles(nodes \o <<node>>, 1, next)
  <2>1. AllComplete(nodes)
    BY <1>1, <1>2, CompleteConcat
  <2>2. Tiles(nodes, 1, from) /\ 1 \in 1..Len(tokens)
    BY <2>1, StreamFacts DEF UnitTiled
  <2> QED
    BY <2>2, TilingExtendsBy
<1> QED
  BY <1>1, <1>2 DEF UnitTiled

LEMMA TopLevelConstructKeepsTree == IInv /\ TreeInv /\ ParseTopLevelConstruct => TreeInv'
<1> SUFFICES ASSUME IInv, TreeInv, ParseTopLevelConstruct PROVE TreeInv'
  OBVIOUS
<1> DEFINE parsed == Construct(position)
<1>1. /\ phase = "unit" /\ StartsConstruct(position) /\ UNCHANGED tokens
      /\ PushTopLevel(<<>>, parsed.node) /\ position' = parsed.next
      /\ syntaxErrors' = syntaxErrors \o parsed.errors
  BY DEF ParseTopLevelConstruct
<1>2. /\ IsTokenStream(tokens) /\ position \in 1..Len(tokens)
      /\ IsList(syntaxErrors) /\ AllGood(unit, Clean) /\ IsList(unit)
      /\ UnitTiled(unit, position)
  BY <1>1, TreeFacts DEF TreeInv
<1>3. Spans(parsed, position, position)
  BY <1>1, <1>2, ConstructSpans
<1>4. parsed.node.kind \in Demanding /\ Checked(parsed, parsed.node.kind)
  BY <1>1, <1>2, ConstructChecked
<1> HIDE DEF parsed
<1>5. IsList(syntaxErrors') /\ (Clean' => Clean /\ parsed.errors = <<>>)
  BY <1>1, <1>2, <1>4, ErrorsGrow DEF Checked
<1>6. AllGood(unit, Clean') /\ AllGood(<<>>, Clean')
  BY <1>2, <1>5, GoodUnlessReported, NoneIsGood
<1>7. Good(parsed.node, Clean') /\ parsed.node.kind # "Invalid"
  BY <1>4, <1>5 DEF Good, Checked, Demanding
<1>8. UnitTiled(unit \o <<>> \o <<parsed.node>>, position')
  <2>1. parsed.next \in position+1..Len(tokens)
        /\ parsed.node.range = RangeOfTokens(position, parsed.next)
    BY <1>3 DEF Spans
  <2>2. parsed.next \in position+1..Len(tokens)+1
    BY <2>1, StreamFacts, <1>2
  <2>3. \A i \in 1..Len(tokens)-1 : Owns(parsed.node, i) <=> position <= i /\ i < parsed.next
    BY <1>2, <2>1, <2>2, RangeOwnsItsTokens
  <2> QED
    BY <1>1, <1>2, <2>1, <2>3, PushTiles
<1> QED
  BY <1>1, <1>5, <1>6, <1>7, <1>8, PushKeepsTree

\* A top-level region starts at the current token and ends before the next
\* construct or the end of file.
LEMMA RegionSpans ==
  ASSUME IInv, ~AtEnd(position), ~StartsConstruct(position)
  PROVE  /\ TopLevelRegion(position).node.kind = "CxxRegion"
         /\ TopLevelRegion(position).node.children = <<>>
         /\ StartsRegion(TopLevelRegion(position).node.range, position)
BY DEF TopLevelRegion, Parsed, Node, StartsRegion

LEMMA TopLevelRegionKeepsTree == IInv /\ TreeInv /\ ParseTopLevelRegion => TreeInv'
<1> SUFFICES ASSUME IInv, TreeInv, ParseTopLevelRegion PROVE TreeInv'
  OBVIOUS
<1> DEFINE region == TopLevelRegion(position)
           node == region.node
           next == region.next
<1>1. /\ phase = "unit" /\ ~AtEnd(position) /\ ~StartsConstruct(position)
      /\ UNCHANGED <<tokens, syntaxErrors>>
      /\ PushTopLevel(<<>>, node) /\ position' = next
  BY DEF ParseTopLevelRegion
<1>2. /\ IsTokenStream(tokens) /\ position \in 1..Len(tokens)
      /\ IsList(syntaxErrors) /\ AllGood(unit, Clean) /\ IsList(unit)
      /\ UnitTiled(unit, position)
  BY <1>1, TreeFacts DEF TreeInv
<1>3. /\ next \in position+1..Len(tokens)
      /\ node.range.end = tokens[next].begin
  BY <1>1, RegionAdvances
<1>4. /\ node.kind = "CxxRegion" /\ node.children = <<>>
      /\ StartsRegion(node.range, position)
  BY <1>1, RegionSpans
<1> HIDE DEF region, node, next
<1>5. Clean' <=> Clean
  BY <1>1 DEF Clean
<1>6. AllGood(unit, Clean') /\ AllGood(<<>>, Clean') /\ IsList(syntaxErrors')
  BY <1>1, <1>2, <1>5, GoodUnlessReported, NoneIsGood
<1>7. Good(node, Clean')
  BY <1>4, RegionIsGood
<1>8. UnitTiled(unit \o <<>> \o <<node>>, position')
  <2>1. node.range.begin \in Nat /\ StartsAt(node.range.begin, position)
    BY <1>2, <1>4, RegionStarts
  <2>2. /\ next \in 1..Len(tokens) /\ next - 1 \in 1..Len(tokens) /\ next - 1 < next
    BY <1>2, <1>3
  <2>3. node.range.end \in Int /\ EndsAt(node.range.end, next)
    BY <1>2, <1>3, <2>2, StreamFacts DEF EndsAt
  <2>4. \A i \in 1..Len(tokens)-1 : Owns(node, i) <=> position <= i /\ i < next
    BY <1>2, <1>3, <2>1, <2>3, SpanOwnsItsTokens
  <2> QED
    BY <1>1, <1>2, <1>3, <2>4, PushTiles
<1> QED
  BY <1>1, <1>4, <1>6, <1>7, <1>8, PushKeepsTree

LEMMA FinishUnitKeepsTree == IInv /\ TreeInv /\ FinishUnit => TreeInv'
<1> SUFFICES ASSUME IInv, TreeInv, FinishUnit PROVE TreeInv'
  OBVIOUS
<1>1. /\ phase = "unit" /\ phase' = "done" /\ AtEnd(position)
      /\ UNCHANGED <<tokens, position, syntaxErrors>>
      /\ unit'.children = unit
  BY DEF FinishUnit, Node
<1>2. /\ AllGood(unit, Clean) /\ UnitTiled(unit, position) /\ IsList(syntaxErrors)
      /\ position \in 1..Len(tokens) /\ Len(tokens) \in Nat
  BY <1>1, TreeFacts DEF TreeInv
<1>3. position = Len(tokens) /\ (Clean' <=> Clean)
  BY <1>1, <1>2 DEF AtEnd, Clean
<1>4. AllGood(unit'.children, Clean')
  BY <1>1, <1>2, <1>3, GoodUnlessReported
<1>5. UnitTiled(unit'.children, Len(tokens'))
  BY <1>1, <1>2, <1>3
<1> QED
  BY <1>1, <1>2, <1>4, <1>5, DoneNow

-----------------------------------------------------------------------------
(* Function declarations.                                                  *)

\* A declaration that is not cut short owns the tokens up to where parsing
\* resumes.
LEMMA DeclarationTiles ==
  ASSUME IsTokenStream(tokens), NEW end \in 1..Len(tokens),
         NEW nodes, NEW before, IsList(nodes), IsList(before),
         NEW node, node.kind = "FunctionDeclaration",
         AllComplete(nodes) /\ node.range.begin >= 0 =>
           \E first \in 1..end-1 : /\ Tiles(nodes \o before, 1, first)
                                   /\ StartsAt(node.range.begin, first),
         ValidRange(node.range) =>
           /\ node.range.begin \in Int /\ node.range.end \in Int
           /\ EndsAt(node.range.end, end)
  PROVE  UnitTiled(nodes \o before \o <<node>>, end)
<1> DEFINE flushed == nodes \o before
<1>1. IsList(flushed) /\ IsList(<<node>>)
  BY ConcatOfLists, SingletonList
<1>2. ASSUME AllComplete(flushed \o <<node>>) PROVE Tiles(flushed \o <<node>>, 1, end)
  <2>1. AllComplete(flushed) /\ AllComplete(<<node>>)
    <3> HIDE DEF flushed
    <3> QED
      BY <1>1, <1>2, CompleteConcat
  <2>2. AllComplete(nodes)
    BY <2>1, CompleteConcat
  <2>3. Complete(node)
    BY <2>1, SingletonList DEF AllComplete
  <2>4. ValidRange(node.range)
    BY <2>3 DEF Complete
  <2>5. node.range.begin \in Nat /\ node.range.end \in Int /\ EndsAt(node.range.end, end)
    BY <2>4 DEF ValidRange
  <2>6. PICK first \in 1..end-1 : Tiles(flushed, 1, first) /\ StartsAt(node.range.begin, first)
    BY <2>2, <2>5
  <2> HIDE DEF flushed
  <2>7. first \in 1..Len(tokens) /\ end \in first+1..Len(tokens) /\ 1 \in 1..Len(tokens)
    BY StreamFacts
  <2>8. \A i \in 1..Len(tokens)-1 : Owns(node, i) <=> first <= i /\ i < end
    BY <2>5, <2>6, <2>7, SpanOwnsItsTokens
  <2> QED
    BY <2>6, <2>7, <2>8, TilingExtendsBy
<1> QED
  BY <1>2 DEF UnitTiled

\* A declaration is good when its children are.
LEMMA DeclarationIsGood ==
  ASSUME NEW node, node.kind = "FunctionDeclaration", NEW clean,
         IsList(node.children), Headed(node.children), clean => WholeChildren(node.children)
  PROVE  Good(node, clean)
<1>1. CompleteConstruct(node)
  BY OthersAreComplete DEF Demanding
<1> QED
  BY <1>1 DEF Good

\* The header and the failure specification before a body or a `;`.
LEMMA SpecificationPushed ==
  ASSUME IsTokenStream(tokens), NEW at \in 1..Len(tokens), Kind(at) = "fails",
         NEW prefix, prefix.kind = "CxxRegion", NEW clean,
         clean => FailureSpecification(at).errors = <<>>
  PROVE  LET children == Append(Header(prefix, at).children, FailureSpecification(at).node)
             next == FailureSpecification(at).next
         IN  /\ Ordered(children, next)
             /\ clean => WholeChildren(children)
<1> DEFINE header == Header(prefix, at).children
           specification == FailureSpecification(at)
           node == specification.node
           next == specification.next
           children == Append(header, node)
<1>1. Kind(at) # "EndOfFile" /\ Len(tokens) \in Nat
  BY StreamFacts
<1>2. Spans(specification, at, at) /\ Checked(specification, "FailureSpecification")
  BY <1>1, FailureSpecificationSpans, FailureSpecificationChecked
<1>3. AllOther(header)
  BY HeaderHasNoConstruct
<1> HIDE DEF header, specification
<1>4. children = header \o <<node>>
  BY <1>3, AppendIsConcat DEF AllOther, IsList
<1>5. node.kind = "FailureSpecification" /\ node.range = RangeOfTokens(at, next)
      /\ next \in at+1..Len(tokens)
  BY <1>2 DEF Spans, Checked
<1> HIDE DEF node, next
<1>6. node.range.end = tokens[next-1].end
  <2>1. 1 <= at /\ at < next /\ next <= Len(tokens) + 1
    BY <1>1, <1>5
  <2> QED
    BY <1>5, <2>1 DEF RangeOfTokens
<1>7. Headed(header \o <<node>>)
  BY <1>3, <1>5, SpecificationHeads
<1>8. /\ IsList(header \o <<node>>)
      /\ (header \o <<node>>)[Len(header \o <<node>>)] = node
  BY <1>3, PushedElement DEF AllOther
<1>9. Ordered(header \o <<node>>, next)
  BY <1>6, <1>7, <1>8 DEF Ordered
<1>10. ASSUME clean PROVE WholeChildren(header \o <<node>>)
  <2>1. CompleteConstruct(node)
    BY <1>2, <1>10 DEF Checked, specification, node
  <2>2. WholeChildren(<<node>>) /\ WholeChildren(header) /\ IsList(<<node>>) /\ IsList(header)
    BY <1>3, <2>1, WholeOne, OthersAreWhole, SingletonList DEF AllOther
  <2> QED
    BY <2>2, WholeConcat
<1>11. Ordered(children, next) /\ (clean => WholeChildren(children))
  BY <1>4, <1>9, <1>10
<1> QED
  BY <1>11 DEF children, header, node, next, specification

LEMMA FunctionHeaderKeepsTree == IInv /\ TreeInv /\ ParseFunctionHeader => TreeInv'
<1> SUFFICES ASSUME IInv, TreeInv, ParseFunctionHeader PROVE TreeInv'
  OBVIOUS
<1> DEFINE region == TopLevelRegion(position)
           at == region.next
           prefix == region.node
           header == Header(prefix, at)
           specification == FailureSpecification(at)
           next == specification.next
           children == Append(header.children, specification.node)
<1>1. /\ phase = "unit" /\ ~AtEnd(position) /\ ~StartsConstruct(position)
      /\ Kind(at) = "fails" /\ UNCHANGED tokens
      /\ syntaxErrors' = syntaxErrors \o specification.errors
      /\ IF Kind(next) = "{" THEN OpenBody(header, specification)
                             ELSE DeclareOnly(header, specification)
  BY DEF ParseFunctionHeader
<1>2. /\ IsTokenStream(tokens) /\ position \in 1..Len(tokens) /\ Len(tokens) \in Nat
      /\ IsList(syntaxErrors) /\ AllGood(unit, Clean) /\ IsList(unit)
      /\ UnitTiled(unit, position)
  BY <1>1, TreeFacts DEF TreeInv
<1>3. /\ at \in position+1..Len(tokens)
      /\ prefix.range.end = tokens[at].begin
  BY <1>1, RegionAdvances
<1>4. /\ prefix.kind = "CxxRegion" /\ StartsRegion(prefix.range, position)
  BY <1>1, RegionSpans
<1> HIDE DEF region, at, prefix
<1>5. at \in 1..Len(tokens) /\ Kind(at) # "EndOfFile" /\ at < Len(tokens)
  <2>0. Kind(at) # "EndOfFile"
    BY <1>1
  <2>1. at \in 1..Len(tokens) /\ Kind(at) # "EndOfFile"
    BY <1>2, <1>3, <2>0
  <2> QED
    BY <1>2, <2>1, NextToken
<1>6. StartsDeclaration(header, position, at)
  BY <1>1, <1>2, <1>3, <1>4, HeaderStartsDeclaration
<1>7. Spans(specification, at, at) /\ Checked(specification, "FailureSpecification")
  BY <1>2, <1>5, FailureSpecificationSpans, FailureSpecificationChecked
<1>8. IsList(syntaxErrors') /\ (Clean' => Clean /\ specification.errors = <<>>)
  BY <1>1, <1>2, <1>7, ErrorsGrow DEF Checked
<1>9. Ordered(children, next) /\ (Clean' => WholeChildren(children))
  BY <1>1, <1>2, <1>4, <1>5, <1>8, SpecificationPushed
<1> HIDE DEF header, specification, children
<1>10. AllGood(unit, Clean') /\ AllGood(header.before, Clean') /\ IsList(header.before)
  BY <1>2, <1>6, <1>8, GoodUnlessReported DEF StartsDeclaration, AllGood
<1>11. /\ next \in at+1..Len(tokens) /\ next \in 1..Len(tokens)
       /\ specification.node.range = RangeOfTokens(at, next)
  BY <1>2, <1>5, <1>7 DEF Spans
<1> HIDE DEF next
<1>12. /\ specification.node.range.end = tokens[next-1].end
       /\ EndsAt(tokens[next-1].end, next) /\ tokens[next-1].end \in Int
       /\ tokens[at].end <= tokens[next-1].end /\ tokens[at].end \in Nat
  <2>1. /\ at < next /\ next <= Len(tokens) + 1 /\ 1 <= at
        /\ next - 1 \in 1..Len(tokens) /\ next - 1 < next /\ at <= next - 1
    BY <1>2, <1>5, <1>11
  <2>2. specification.node.range.end = tokens[next-1].end
    BY <1>11, <2>1 DEF RangeOfTokens
  <2>3. /\ tokens[next-1].end <= tokens[next].begin
        /\ tokens[next-1].end \in Nat /\ tokens[at].end \in Nat
    BY <1>2, <1>5, <1>11, <2>1, StreamFacts
  <2>4. tokens[at].end <= tokens[next-1].end
    <3>1. CASE at = next - 1
      BY <2>3, <3>1
    <3>2. CASE at # next - 1
      <4>1. at < next - 1
        BY <1>5, <1>11, <2>1, <3>2
      <4>2. /\ tokens[at].end <= tokens[next-1].begin
            /\ tokens[next-1].begin <= tokens[next-1].end
            /\ tokens[next-1].begin \in Nat
        BY <1>2, <1>5, <2>1, <4>1, StreamFacts
      <4> QED
        BY <2>3, <4>2
    <3> QED
      BY <3>1, <3>2
  <2> QED
    BY <2>2, <2>3, <2>4 DEF EndsAt
<1>13. AllComplete(unit) /\ header.range.begin >= 0 =>
         \E first \in 1..next-1 : /\ Tiles(unit \o header.before, 1, first)
                                  /\ StartsAt(header.range.begin, first)
  <2>1. SUFFICES ASSUME AllComplete(unit), header.range.begin >= 0
                 PROVE  \E first \in 1..next-1 :
                          /\ Tiles(unit \o header.before, 1, first)
                          /\ StartsAt(header.range.begin, first)
    OBVIOUS
  <2>2. Tiles(unit, 1, position)
    BY <1>2, <2>1 DEF UnitTiled
  <2>3. PICK first \in 1..at-1 : /\ Tiles(unit \o header.before, 1, first)
                                 /\ StartsAt(header.range.begin, first)
    BY <1>6, <2>1, <2>2 DEF StartsDeclaration
  <2>4. first \in 1..next-1
    BY <1>2, <1>5, <1>11
  <2> QED
    BY <2>3, <2>4
<1>14. /\ header.range.begin \in Int /\ header.range.end \in Int
       /\ header.range.end < tokens[next-1].end
  <2>1. /\ header.range.begin \in Int /\ header.range.end \in Int
        /\ header.range.end < tokens[at].end
    BY <1>6 DEF StartsDeclaration
  <2> QED
    BY <1>12, <2>1
<1>15. CASE Kind(next) # "{"
  <2> DEFINE node == Node("FunctionDeclaration",
                          IF ValidRange(header.range)
                          THEN ExtendedTo(header.range, specification.node.range)
                          ELSE header.range,
                          children)
  <2>1. PushTopLevel(header.before, node) /\ position' = next
    BY <1>1, <1>15 DEF DeclareOnly, children, next
  <2>2. /\ node.kind = "FunctionDeclaration" /\ node.children = children
        /\ node.range.begin = header.range.begin
        /\ ValidRange(header.range) => node.range.end = specification.node.range.end
        /\ ~ValidRange(header.range) => ~ValidRange(node.range)
    BY DEF Node, ExtendedTo
  <2> HIDE DEF node
  <2>3. Good(node, Clean') /\ node.kind # "Invalid"
    BY <1>9, <2>2, DeclarationIsGood DEF Ordered
  <2>4. ValidRange(node.range) => /\ node.range.begin \in Int /\ node.range.end \in Int
                                  /\ EndsAt(node.range.end, next)
    BY <1>12, <1>14, <2>2
  <2>5. UnitTiled(unit \o header.before \o <<node>>, next)
    BY <1>2, <1>10, <1>11, <1>13, <2>2, <2>4, DeclarationTiles
  <2> QED
    BY <1>1, <1>8, <1>10, <2>1, <2>3, <2>5, PushKeepsTree
<1>16. CASE Kind(next) = "{"
  <2>1. /\ phase' = "body" /\ unit' = unit /\ pending' = header.before
        /\ function' = [children |-> children, range |-> header.range,
                        bodyBegin |-> next, regionBegin |-> next, braceDepth |-> 1]
    BY <1>1, <1>16 DEF OpenBody, children, next
  <2>2. /\ function'.children = children /\ function'.range = header.range
        /\ function'.bodyBegin = next /\ function'.regionBegin = next
    BY <2>1
  <2>3. next \in 2..Len(tokens)
    BY <1>5, <1>11
  <2>4. FunctionGood(function', pending', unit', Clean')
    BY <1>9, <1>10, <1>13, <1>14, <2>1, <2>2, <2>3 DEF FunctionGood
  <2>5. AllGood(unit', Clean')
    BY <1>10, <2>1
  <2> QED
    BY <1>1, <1>8, <2>1, <2>4, <2>5, BodyNow
<1> QED
  BY <1>15, <1>16

-----------------------------------------------------------------------------
(* The body of a function.                                                 *)

\* What the steps of a body start from.
LEMMA BodyTreeFacts ==
  ASSUME IInv, TreeInv, phase = "body"
  PROVE  /\ IsTokenStream(tokens) /\ Len(tokens) \in Nat
         /\ position \in 1..Len(tokens)
         /\ function.bodyBegin \in 2..Len(tokens)
         /\ function.regionBegin \in function.bodyBegin..position
         /\ function.regionBegin \in 2..Len(tokens)
         /\ FunctionIsRecord
         /\ IsList(syntaxErrors) /\ AllGood(unit, Clean) /\ IsList(unit)
         /\ FunctionGood(function, pending, unit, Clean)
         /\ Ordered(function.children, function.regionBegin)
         /\ IsList(function.children) /\ IsList(pending)
<1>1. /\ IsTokenStream(tokens) /\ Len(tokens) \in Nat
      /\ position \in 1..Len(tokens)
      /\ IsList(syntaxErrors) /\ AllGood(unit, Clean) /\ IsList(unit)
  BY TreeFacts
<1>2. FunctionGood(function, pending, unit, Clean)
  BY DEF TreeInv
<1>3. /\ function.regionBegin \in function.bodyBegin..position /\ FunctionIsRecord
  BY DEF IInv, ParserTypeOK
<1>4. function.bodyBegin \in 2..Len(tokens)
  BY <1>2 DEF FunctionGood
<1>5. function.regionBegin \in 2..Len(tokens)
  BY <1>1, <1>3, <1>4
<1> QED
  BY <1>1, <1>2, <1>3, <1>4, <1>5 DEF FunctionGood, Ordered, AllGood

\* The function's part of the invariant only depends on what a step changes.
LEMMA FunctionStaysGood ==
  ASSUME FunctionGood(function, pending, unit, Clean), Clean' => Clean,
         function'.range = function.range, function'.bodyBegin = function.bodyBegin,
         Ordered(function'.children, function'.regionBegin),
         Clean' => WholeChildren(function'.children)
  PROVE  FunctionGood(function', pending, unit, Clean')
BY GoodUnlessReported DEF FunctionGood

LEMMA BodyConstructKeepsTree ==
  ASSUME IInv, TreeInv, phase = "body", NEW regionEnd \in function.regionBegin..position,
         NEW parsed, Spans(parsed, regionEnd, position), Checked(parsed, parsed.node.kind),
         PushBodyConstruct(regionEnd, parsed)
  PROVE  TreeInv'
<1> DEFINE node == parsed.node
           next == parsed.next
           before == OpenRegion(regionEnd)
           longer == function.children \o (before \o <<node>>)
           to == function.regionBegin
<1>1. /\ IsTokenStream(tokens) /\ Len(tokens) \in Nat /\ position \in 1..Len(tokens)
      /\ to \in 2..Len(tokens) /\ FunctionIsRecord /\ IsList(syntaxErrors)
      /\ AllGood(unit, Clean) /\ FunctionGood(function, pending, unit, Clean)
      /\ Ordered(function.children, to) /\ IsList(function.children)
  BY BodyTreeFacts
<1>2. /\ UNCHANGED <<tokens, phase, unit, pending>>
      /\ syntaxErrors' = syntaxErrors \o parsed.errors
      /\ function' = [function EXCEPT !.children = longer, !.regionBegin = next]
  BY DEF PushBodyConstruct, WithChildren
<1>3. next \in position+1..Len(tokens) /\ node.range = RangeOfTokens(regionEnd, next)
  BY DEF Spans
<1>4. regionEnd \in to..Len(tokens) /\ regionEnd \in 2..Len(tokens) /\ next \in regionEnd+1..Len(tokens)
  BY <1>1, <1>3
<1>5. IsList(before) /\ Ordered(function.children \o before, regionEnd)
  BY <1>1, <1>4, RegionOrdered
<1>6. IsList(syntaxErrors') /\ (Clean' => Clean /\ parsed.errors = <<>>)
  BY <1>1, <1>2, ErrorsGrow DEF Checked
<1>7. WholeChildren(before)
  BY RegionIfIsWhole DEF OpenRegion
<1> HIDE DEF node, next, before
<1>8. longer = (function.children \o before) \o <<node>>
  <2>1. IsList(<<node>>)
    BY SingletonList
  <2>2. function.children \o (before \o <<node>>) = (function.children \o before) \o <<node>>
    <3>1. IsList(function.children) /\ IsList(before)
      BY <1>1, <1>5
    <3>2. \A s : IsList(s) => s \o (before \o <<node>>) = (s \o before) \o <<node>>
      BY <2>1, <3>1, ListsAssociate
    <3> QED
      BY <3>1, <3>2
  <2> QED
    BY <2>2 DEF longer, before, node
<1>9. Ordered((function.children \o before) \o <<node>>, next)
  BY <1>1, <1>3, <1>4, <1>5, OrderExtends
<1>10. ASSUME Clean' PROVE WholeChildren((function.children \o before) \o <<node>>)
  <2>1. WholeChildren(function.children) /\ CompleteConstruct(node)
    BY <1>1, <1>6, <1>10 DEF FunctionGood, Checked, node
  <2>2. WholeChildren(function.children \o before) /\ IsList(function.children \o before)
    BY <1>1, <1>5, <1>7, <2>1, WholeConcat, ConcatOfLists
  <2>3. WholeChildren(<<node>>) /\ IsList(<<node>>)
    BY <2>1, WholeOne, SingletonList
  <2> QED
    BY <2>2, <2>3, WholeConcat
<1> HIDE DEF longer, to
<1>11. function' = [children |-> longer, range |-> function.range,
                    bodyBegin |-> function.bodyBegin,
                    regionBegin |-> next, braceDepth |-> function.braceDepth]
  BY <1>1, <1>2 DEF FunctionIsRecord
<1>12. /\ function'.children = longer /\ function'.range = function.range
       /\ function'.bodyBegin = function.bodyBegin /\ function'.regionBegin = next
  BY <1>11
<1>13. FunctionGood(function', pending, unit, Clean')
  BY <1>1, <1>6, <1>8, <1>9, <1>10, <1>12, FunctionStaysGood
<1>14. AllGood(unit, Clean')
  BY <1>1, <1>6, GoodUnlessReported
<1> QED
  BY <1>2, <1>6, <1>13, <1>14, BodyNow

LEMMA ScanBodyTokenKeepsTree == IInv /\ TreeInv /\ ScanBodyToken => TreeInv'
<1> SUFFICES ASSUME IInv, TreeInv, ScanBodyToken PROVE TreeInv'
  OBVIOUS
<1>1. /\ phase = "body" /\ UNCHANGED <<tokens, phase, unit, pending, syntaxErrors>>
      /\ \E depth : function' = [function EXCEPT !.braceDepth = depth]
  BY DEF ScanBodyToken, InBody
<1>2. /\ FunctionIsRecord /\ IsList(syntaxErrors)
      /\ AllGood(unit, Clean) /\ FunctionGood(function, pending, unit, Clean)
  BY <1>1, BodyTreeFacts
<1>3. PICK depth : function' = [function EXCEPT !.braceDepth = depth]
  BY <1>1
<1>4. function' = [children |-> function.children, range |-> function.range,
                   bodyBegin |-> function.bodyBegin, regionBegin |-> function.regionBegin,
                   braceDepth |-> depth]
  BY <1>2, <1>3 DEF FunctionIsRecord
<1>5. /\ function'.children = function.children /\ function'.range = function.range
      /\ function'.bodyBegin = function.bodyBegin
      /\ function'.regionBegin = function.regionBegin
  BY <1>4
<1>6. Clean' <=> Clean
  BY <1>1 DEF Clean
<1>7. FunctionGood(function', pending, unit, Clean')
  BY <1>2, <1>5, <1>6, FunctionStaysGood DEF FunctionGood
<1>8. AllGood(unit, Clean')
  BY <1>2, <1>6, GoodUnlessReported
<1> QED
  BY <1>1, <1>2, <1>7, <1>8, BodyNow

LEMMA BodyReturnKeepsTree == IInv /\ TreeInv /\ ParseBodyReturn => TreeInv'
<1> SUFFICES ASSUME IInv, TreeInv, ParseBodyReturn PROVE TreeInv'
  OBVIOUS
<1> DEFINE parsed == ReturnStatement(position)
<1>1. InBody /\ PushBodyConstruct(position, parsed)
  BY DEF ParseBodyReturn
<1>2. Spans(parsed, position, position) /\ Checked(parsed, "ReturnStatement")
  BY <1>1, BodyFacts, ReturnStatementSpans, ReturnStatementChecked
<1>3. phase = "body" /\ position \in function.regionBegin..position
  BY <1>1, BodyFacts
<1> HIDE DEF parsed
<1>4. Checked(parsed, parsed.node.kind)
  BY <1>2 DEF Checked
<1> QED
  BY <1>1, <1>2, <1>3, <1>4, BodyConstructKeepsTree

LEMMA BodyTryInitializationKeepsTree == IInv /\ TreeInv /\ ParseBodyTryInitialization => TreeInv'
<1> SUFFICES ASSUME IInv, TreeInv, ParseBodyTryInitialization PROVE TreeInv'
  OBVIOUS
<1> DEFINE declaration == TryInitializationBegin(position, function.regionBegin)
           parsed == TryInitialization(declaration, position)
<1>1. InBody /\ declaration # NotFound /\ PushBodyConstruct(declaration, parsed)
  BY DEF ParseBodyTryInitialization
<1>2. declaration = position - 3 /\ position >= function.regionBegin + 3
  BY <1>1 DEF TryInitializationBegin
<1> HIDE DEF declaration
<1>3. /\ phase = "body" /\ declaration \in function.regionBegin..position
      /\ declaration \in 1..position
  BY <1>1, <1>2, BodyFacts
<1>4. Spans(parsed, declaration, position) /\ Checked(parsed, "TryInitialization")
  BY <1>1, <1>3, BodyFacts, TryInitializationSpans, TryInitializationChecked
<1> HIDE DEF parsed
<1>5. Checked(parsed, parsed.node.kind)
  BY <1>4 DEF Checked
<1> QED
  BY <1>1, <1>3, <1>4, <1>5, BodyConstructKeepsTree

LEMMA BodyOtherConstructKeepsTree == IInv /\ TreeInv /\ ParseBodyConstruct => TreeInv'
<1> SUFFICES ASSUME IInv, TreeInv, ParseBodyConstruct PROVE TreeInv'
  OBVIOUS
<1> DEFINE parsed == Construct(position)
<1>1. InBody /\ StartsConstruct(position) /\ PushBodyConstruct(position, parsed)
  BY DEF ParseBodyConstruct
<1>2. Spans(parsed, position, position) /\ Checked(parsed, parsed.node.kind)
  BY <1>1, BodyFacts, ConstructSpans, ConstructChecked
<1>3. phase = "body" /\ position \in function.regionBegin..position
  BY <1>1, BodyFacts
<1> HIDE DEF parsed
<1> QED
  BY <1>1, <1>2, <1>3, BodyConstructKeepsTree

\* The declaration pushed at the end of a body has the children of its
\* function and the region up to the end.
LEMMA DeclarationOfBodyIsGood ==
  ASSUME IInv, TreeInv, phase = "body", NEW end \in function.regionBegin..Len(tokens),
         NEW node, node.kind = "FunctionDeclaration",
         node.children = function.children \o OpenRegion(end)
  PROVE  Good(node, Clean) /\ Ordered(node.children, end)
<1>1. /\ IsTokenStream(tokens) /\ function.regionBegin \in 2..Len(tokens)
      /\ FunctionGood(function, pending, unit, Clean)
      /\ Ordered(function.children, function.regionBegin) /\ IsList(function.children)
  BY BodyTreeFacts
<1>2. IsList(OpenRegion(end)) /\ Ordered(node.children, end)
  BY <1>1, RegionOrdered
<1>3. WholeChildren(OpenRegion(end))
  BY RegionIfIsWhole DEF OpenRegion
<1>4. Clean => WholeChildren(node.children)
  BY <1>1, <1>2, <1>3, WholeConcat DEF FunctionGood
<1> QED
  BY <1>2, <1>4, DeclarationIsGood DEF Ordered

LEMMA CloseBodyKeepsTree == IInv /\ TreeInv /\ CloseBody => TreeInv'
<1> SUFFICES ASSUME IInv, TreeInv, CloseBody PROVE TreeInv'
  OBVIOUS
<1> DEFINE end == position + 1
           body == RangeOfTokens(function.bodyBegin, end)
           node == Node("FunctionDeclaration", ExtendedTo(function.range, body),
                        function.children \o OpenRegion(end))
<1>1. /\ InBody /\ UNCHANGED <<tokens, syntaxErrors>> /\ position' = end
      /\ PushTopLevel(pending, node)
  BY DEF CloseBody
<1>2. /\ IsTokenStream(tokens) /\ Len(tokens) \in Nat /\ phase = "body"
      /\ function.bodyBegin \in 2..Len(tokens)
      /\ function.regionBegin \in function.bodyBegin..position
      /\ position \in 1..Len(tokens) /\ position < Len(tokens)
      /\ FunctionGood(function, pending, unit, Clean)
      /\ IsList(syntaxErrors) /\ AllGood(unit, Clean) /\ IsList(unit) /\ IsList(pending)
  BY <1>1, BodyFacts, BodyTreeFacts DEF InBody
<1>3. /\ end \in function.regionBegin..Len(tokens) /\ end \in 1..Len(tokens)
      /\ end - 1 = position /\ function.bodyBegin < end /\ function.bodyBegin >= 1
      /\ end <= Len(tokens) + 1
  BY <1>2
<1>4. body.end = tokens[position].end
  BY <1>3 DEF RangeOfTokens
<1>5. /\ node.kind = "FunctionDeclaration"
      /\ node.children = function.children \o OpenRegion(end)
      /\ node.range.begin = function.range.begin /\ node.range.end = tokens[position].end
  BY <1>4 DEF Node, ExtendedTo
<1> HIDE DEF end, node
<1>6. Good(node, Clean) /\ node.kind # "Invalid" /\ (Clean' <=> Clean)
  BY <1>1, <1>2, <1>3, <1>5, DeclarationOfBodyIsGood DEF Clean
<1>7. /\ node.range.begin \in Int /\ node.range.end \in Int
      /\ EndsAt(node.range.end, end)
  <2>1. /\ tokens[position].end \in Nat
        /\ tokens[position].end <= tokens[end].begin
    BY <1>2, <1>3, StreamFacts
  <2> QED
    BY <1>2, <1>3, <1>5, <2>1 DEF EndsAt, FunctionGood
<1>8. AllComplete(unit) /\ node.range.begin >= 0 =>
        \E first \in 1..end-1 : /\ Tiles(unit \o pending, 1, first)
                                /\ StartsAt(node.range.begin, first)
  <2>1. 1..function.bodyBegin-1 \subseteq 1..end-1
    BY <1>2, <1>3
  <2> QED
    BY <1>2, <1>5, <2>1 DEF FunctionGood
<1>9. UnitTiled(unit \o pending \o <<node>>, end)
  BY <1>2, <1>3, <1>5, <1>7, <1>8, DeclarationTiles
<1>10. AllGood(unit, Clean') /\ AllGood(pending, Clean') /\ Good(node, Clean')
  BY <1>2, <1>6, GoodUnlessReported DEF FunctionGood, Good
<1> QED
  BY <1>1, <1>2, <1>6, <1>9, <1>10, PushKeepsTree

\* A declaration the end of the file cuts short does not reach its last child.
LEMMA EndOfFileKeepsTree == IInv /\ TreeInv /\ EndOfFileInBody => TreeInv'
<1> SUFFICES ASSUME IInv, TreeInv, EndOfFileInBody PROVE TreeInv'
  OBVIOUS
<1> DEFINE node == Node("FunctionDeclaration", function.range,
                        function.children \o OpenRegion(position))
<1>1. /\ phase = "body" /\ UNCHANGED <<tokens, position, syntaxErrors>>
      /\ PushTopLevel(pending, node)
  BY DEF EndOfFileInBody
<1>2. /\ IsTokenStream(tokens) /\ Len(tokens) \in Nat
      /\ function.bodyBegin \in 2..Len(tokens)
      /\ function.regionBegin \in function.bodyBegin..position
      /\ position \in 1..Len(tokens)
      /\ FunctionGood(function, pending, unit, Clean)
      /\ IsList(syntaxErrors) /\ AllGood(unit, Clean) /\ IsList(unit) /\ IsList(pending)
  BY <1>1, BodyTreeFacts
<1>3. position \in function.regionBegin..Len(tokens)
  BY <1>2
<1>4. /\ node.kind = "FunctionDeclaration" /\ node.range = function.range
      /\ node.children = function.children \o OpenRegion(position)
  BY DEF Node
<1> HIDE DEF node
<1>5. /\ Good(node, Clean) /\ Ordered(node.children, position)
      /\ node.kind # "Invalid" /\ (Clean' <=> Clean)
  BY <1>1, <1>2, <1>3, <1>4, DeclarationOfBodyIsGood DEF Clean
<1>6. ~Complete(node)
  <2>1. Last(node.children).range.end = tokens[position-1].end
    BY <1>5 DEF Ordered, Last
  <2>2. /\ node.range.end \in Int /\ node.range.end < tokens[function.bodyBegin-1].end
    BY <1>2, <1>4 DEF FunctionGood
  <2>3. /\ function.bodyBegin-1 \in 1..Len(tokens) /\ position-1 \in 1..Len(tokens)
        /\ function.bodyBegin-1 <= position-1
    BY <1>2
  <2>4. tokens[function.bodyBegin-1].end <= tokens[position-1].end
        /\ tokens[function.bodyBegin-1].end \in Nat /\ tokens[position-1].end \in Nat
    <3>1. tokens[function.bodyBegin-1].end \in Nat /\ tokens[position-1].end \in Nat
          /\ tokens[position-1].begin \in Nat
          /\ tokens[position-1].begin <= tokens[position-1].end
      BY <1>2, <2>3, StreamFacts
    <3>2. CASE function.bodyBegin-1 = position-1
      BY <3>1, <3>2
    <3>3. CASE function.bodyBegin-1 # position-1
      <4>1. function.bodyBegin-1 < position-1
        BY <2>3, <3>3
      <4>2. tokens[function.bodyBegin-1].end <= tokens[position-1].begin
        BY <1>2, <2>3, <4>1, StreamFacts
      <4> QED
        BY <3>1, <4>2
    <3> QED
      BY <3>2, <3>3
  <2>5. node.range.end # Last(node.children).range.end
    BY <2>1, <2>2, <2>4
  <2> QED
    BY <1>4, <2>5 DEF Complete
<1>7. UnitTiled(unit \o pending \o <<node>>, position)
  <2> DEFINE flushed == unit \o pending
  <2>1. IsList(flushed) /\ IsList(<<node>>) /\ Len(<<node>>) = 1 /\ <<node>>[1] = node
    BY <1>2, ConcatOfLists, SingletonList
  <2> HIDE DEF flushed
  <2>2. ~AllComplete(<<node>>)
    BY <1>6, <2>1 DEF AllComplete
  <2>3. ~AllComplete(flushed \o <<node>>)
    BY <2>1, <2>2, CompleteConcat
  <2>4. UnitTiled(flushed \o <<node>>, position)
    BY <2>3 DEF UnitTiled
  <2> QED
    BY <2>4 DEF flushed
<1>8. AllGood(unit, Clean') /\ AllGood(pending, Clean') /\ Good(node, Clean')
  BY <1>2, <1>5, GoodUnlessReported DEF FunctionGood, Good
<1> QED
  BY <1>1, <1>2, <1>5, <1>7, <1>8, PushKeepsTree

-----------------------------------------------------------------------------
(* The theorems.                                                           *)

LEMMA InitIsGood == ParserInit => TreeInv
<1> SUFFICES ASSUME ParserInit PROVE TreeInv
  OBVIOUS
<1>1. /\ position = 1 /\ phase = "unit" /\ unit = <<>> /\ syntaxErrors = <<>>
  BY DEF ParserInit
<1>2. AllGood(unit, Clean)
  BY <1>1, NoneIsGood
<1>3. Tiles(unit, 1, position)
  BY <1>1, EmptyList DEF Tiles
<1> QED
  BY <1>1, <1>2, <1>3, EmptyList DEF TreeInv, UnitTiled

LEMMA StepKeepsTree == IInv /\ TreeInv /\ ParserStep => TreeInv'
BY TopLevelConstructKeepsTree, TopLevelRegionKeepsTree, FunctionHeaderKeepsTree,
   FinishUnitKeepsTree, ScanBodyTokenKeepsTree, BodyReturnKeepsTree,
   BodyTryInitializationKeepsTree, BodyOtherConstructKeepsTree, CloseBodyKeepsTree,
   EndOfFileKeepsTree
   DEF ParserStep

LEMMA StutterKeepsTree == TreeInv /\ UNCHANGED parsingVars => TreeInv'
<1> SUFFICES ASSUME TreeInv, UNCHANGED parsingVars PROVE TreeInv'
  OBVIOUS
<1>1. UNCHANGED <<tokens, position, phase, unit, pending, function, syntaxErrors>>
  BY DEF parsingVars
<1>2. Clean' <=> Clean
  BY <1>1 DEF Clean
<1>3. phase # "done" => AllGood(unit, Clean)'
  BY <1>1, <1>2, GoodNow, GoodUnlessReported DEF TreeInv
<1>4. phase = "done" => AllGood(unit.children, Clean)'
  BY <1>1, <1>2, GoodNow, GoodUnlessReported DEF TreeInv
<1>5. phase = "unit" => UnitTiled(unit, position)'
  BY <1>1, TiledNow DEF TreeInv
<1>6. phase = "done" => UnitTiled(unit.children, Len(tokens))'
  BY <1>1, TiledNow DEF TreeInv
<1>7. phase = "body" => FunctionGood(function, pending, unit, Clean)'
  <2>1. phase = "body" => FunctionGood(function', pending', unit', Clean')
    BY <1>1, <1>2, GoodUnlessReported DEF TreeInv, FunctionGood
  <2> QED
    BY <1>1, <2>1, FunctionNow
<1> QED
  BY <1>1, <1>3, <1>4, <1>5, <1>6, <1>7 DEF TreeInv

(***************************************************************************)
(* The inductive invariant: the nodes pushed so far are good and own the   *)
(* tokens consumed, and so will those of the function under construction.  *)
(***************************************************************************)
THEOREM TreeInvariant == ParserSpec => []TreeInv
<1>1. IInv /\ TreeInv /\ [ParserNext]_parsingVars => TreeInv'
  BY StepKeepsTree, StutterKeepsTree DEF ParserNext, Done
<1>2. QED
  BY <1>1, InitIsGood, InductiveInvariant, PTL DEF ParserSpec

(***************************************************************************)
(* For every source, the finished unit owns every token in exactly one     *)
(* top-level node unless a function declaration was left incomplete.       *)
(***************************************************************************)
THEOREM UnitTokensAreOwnedOnce == ParserSpec => []UnitTokensOwnedOnce
<1>1. TreeInv => UnitTokensOwnedOnce
  BY DEF TreeInv, UnitTiled, AllComplete, Tiles, UnitTokensOwnedOnce
<1>2. QED
  BY <1>1, TreeInvariant, PTL

(***************************************************************************)
(* Whatever the parser recovered from, a source without an error has its   *)
(* operands and terminators in every construct of the tree.                *)
(***************************************************************************)
THEOREM IncompleteConstructsAreReported == ParserSpec => []IncompleteConstructsReported
<1>1. TreeInv => IncompleteConstructsReported
  BY DEF TreeInv, Clean, AllGood, Good, WholeChildren, IncompleteConstructsReported
<1>2. QED
  BY <1>1, TreeInvariant, PTL

\* The body of a function starts at its first failure specification.
LEMMA HeadedBodyInOrder ==
  ASSUME NEW node, IsList(node.children), Headed(node.children)
  PROVE  InSourceOrder(BodyOf(node))
<1> DEFINE nodes == node.children
           S == {k \in 1..Len(nodes) : nodes[k].kind = "FailureSpecification"}
<1>1. PICK h \in 1..Len(nodes) :
        /\ nodes[h].kind = "FailureSpecification"
        /\ \A k \in 1..h-1 : nodes[k].kind # "FailureSpecification"
        /\ \A k \in h..Len(nodes)-1 : nodes[k].range.end <= nodes[k+1].range.begin
  BY DEF Headed
<1>2. nodes \in Seq(ToSet(nodes)) /\ Len(nodes) \in Nat
  BY DEF IsList
<1>3. Min(S) = h
  <2>1. h \in S /\ S \in SUBSET Int
    BY <1>1
  <2>2. \A y \in S : h <= y
    BY <1>1, <1>2
  <2> HIDE DEF S
  <2> QED
    BY <2>1, <2>2, MinIs
<1>4. BodyOf(node) = SubSeq(nodes, h, Len(nodes))
  BY <1>3 DEF BodyOf
<1>5. /\ Len(SubSeq(nodes, h, Len(nodes))) = Len(nodes) - h + 1
      /\ \A k \in 1..Len(nodes) - h + 1 : SubSeq(nodes, h, Len(nodes))[k] = nodes[h + k - 1]
  <2> HIDE DEF nodes
  <2> QED
    BY <1>1, <1>2, SubSeqProperties
<1> DEFINE body == SubSeq(nodes, h, Len(nodes))
<1> HIDE DEF nodes, body
<1>6. ASSUME NEW k \in 1..Len(body)-1 PROVE body[k].range.end <= body[k+1].range.begin
  <2>1. /\ k \in 1..Len(nodes)-h+1 /\ k+1 \in 1..Len(nodes)-h+1
        /\ h+k-1 \in h..Len(nodes)-1 /\ h+(k+1)-1 = (h+k-1)+1
    BY <1>1, <1>2, <1>5 DEF body
  <2>2. body[k] = nodes[h+k-1] /\ body[k+1] = nodes[(h+k-1)+1]
    BY <1>5, <2>1 DEF body
  <2>3. PICK m \in h..Len(nodes)-1 : m = h+k-1
    BY <2>1
  <2>4. nodes[m].range.end <= nodes[m+1].range.begin
    BY <1>1
  <2> QED
    BY <2>2, <2>3, <2>4
<1> QED
  BY <1>4, <1>6 DEF InSourceOrder, body, nodes

(***************************************************************************)
(* For every source, the failure specification and the body of each        *)
(* function follow one another in source order.                            *)
(***************************************************************************)
THEOREM BodiesAreInSourceOrder == ParserSpec => []BodiesInSourceOrder
<1>1. TreeInv => BodiesInSourceOrder
  <2> SUFFICES ASSUME TreeInv, phase = "done", NEW k \in 1..Len(unit.children),
                      unit.children[k].kind = "FunctionDeclaration"
               PROVE  InSourceOrder(BodyOf(unit.children[k]))
    BY DEF BodiesInSourceOrder
  <2>1. Good(unit.children[k], Clean)
    BY DEF TreeInv, AllGood
  <2> QED
    BY <2>1, HeadedBodyInOrder DEF Good
<1>2. QED
  BY <1>1, TreeInvariant, PTL

-----------------------------------------------------------------------------
(* Ranges.                                                                 *)

\* Two offsets, valid or not.
IsRange(range) == range.begin \in Int /\ range.end \in Int

\* The node and its children down to one or two levels have ranges.
Ranged(node) == IsRange(node.range)

RangedOnce(node) == Ranged(node) /\ \A k \in 1..Len(node.children) : Ranged(node.children[k])

RangedTwice(node) ==
  Ranged(node) /\ \A k \in 1..Len(node.children) : RangedOnce(node.children[k])

AllRanged(nodes) == IsList(nodes) /\ \A k \in 1..Len(nodes) : RangedTwice(nodes[k])

\* A top-level node; the body of a function is one level further down.
UnitRanged(node) ==
  IF node.kind = "FunctionDeclaration" THEN Ranged(node) /\ AllRanged(node.children)
  ELSE RangedTwice(node)

AllUnitRanged(nodes) == IsList(nodes) /\ \A k \in 1..Len(nodes) : UnitRanged(nodes[k])

LEMMA RangedConcat ==
  ASSUME NEW s, NEW t
  PROVE  /\ AllRanged(s) /\ AllRanged(t) => AllRanged(s \o t)
         /\ AllUnitRanged(s) /\ AllUnitRanged(t) => AllUnitRanged(s \o t)
<1> DEFINE both == s \o t
<1>1. ASSUME IsList(s), IsList(t), NEW k \in 1..Len(both)
      PROVE  (\E l \in 1..Len(s) : both[k] = s[l]) \/ (\E l \in 1..Len(t) : both[k] = t[l])
  <2>1. /\ IsList(both) /\ Len(s) \in Nat /\ Len(t) \in Nat
        /\ Len(both) = Len(s) + Len(t)
        /\ \A l \in 1..Len(s) : both[l] = s[l]
        /\ \A l \in 1..Len(t) : both[Len(s) + l] = t[l]
    BY <1>1, ConcatOfLists
  <2> HIDE DEF both
  <2>2. CASE k \in 1..Len(s)
    BY <2>1, <2>2
  <2>3. CASE k \notin 1..Len(s)
    <3>1. k - Len(s) \in 1..Len(t) /\ Len(s) + (k - Len(s)) = k
      BY <2>1, <2>3, <1>1
    <3> QED
      BY <2>1, <3>1
  <2> QED
    BY <2>2, <2>3
<1>2. IsList(s) /\ IsList(t) => IsList(both)
  BY ConcatOfLists
<1> HIDE DEF both
<1>3. ASSUME AllRanged(s), AllRanged(t) PROVE AllRanged(both)
  <2>1. IsList(s) /\ IsList(t)
    BY <1>3 DEF AllRanged
  <2>2. ASSUME NEW k \in 1..Len(both) PROVE RangedTwice(both[k])
    BY <1>1, <1>3, <2>1 DEF AllRanged
  <2> QED
    BY <1>2, <2>1, <2>2 DEF AllRanged
<1>4. ASSUME AllUnitRanged(s), AllUnitRanged(t) PROVE AllUnitRanged(both)
  <2>1. IsList(s) /\ IsList(t)
    BY <1>4 DEF AllUnitRanged
  <2>2. ASSUME NEW k \in 1..Len(both) PROVE UnitRanged(both[k])
    BY <1>1, <1>4, <2>1 DEF AllUnitRanged
  <2> QED
    BY <1>2, <2>1, <2>2 DEF AllUnitRanged
<1> QED
  BY <1>3, <1>4 DEF both

LEMMA RangedOne ==
  ASSUME NEW node
  PROVE  /\ RangedTwice(node) => AllRanged(<<node>>)
         /\ UnitRanged(node) => AllUnitRanged(<<node>>)
<1>1. IsList(<<node>>) /\ Len(<<node>>) = 1 /\ <<node>>[1] = node
  BY SingletonList
<1> QED
  BY <1>1 DEF AllRanged, AllUnitRanged

LEMMA NoneRanged == AllRanged(<<>>) /\ AllUnitRanged(<<>>)
BY EmptyList DEF AllRanged, AllUnitRanged

\* A node without children, and one with a single child.
LEMMA LeafRanged ==
  ASSUME NEW kind, NEW range, IsRange(range)
  PROVE  RangedTwice(Node(kind, range, <<>>)) /\ RangedOnce(Node(kind, range, <<>>))
<1>1. Node(kind, range, <<>>).range = range /\ Node(kind, range, <<>>).children = <<>>
  BY DEF Node
<1> QED
  BY <1>1, EmptyList DEF RangedTwice, RangedOnce, Ranged

LEMMA ParentRanged ==
  ASSUME NEW kind, NEW range, IsRange(range), NEW only
  PROVE  /\ RangedOnce(only) => RangedTwice(Node(kind, range, <<only>>))
         /\ Ranged(only) => RangedOnce(Node(kind, range, <<only>>))
<1>1. Node(kind, range, <<only>>).range = range /\ Node(kind, range, <<only>>).children = <<only>>
  BY DEF Node
<1>2. Len(<<only>>) = 1 /\ <<only>>[1] = only
  BY SingletonList
<1> HIDE DEF Node
<1> QED
  BY <1>1, <1>2 DEF RangedTwice, RangedOnce, Ranged

LEMMA TokensRanged ==
  ASSUME IsTokenStream(tokens), NEW first \in Int, NEW end \in Int
  PROVE  /\ IsRange(RangeOfTokens(first, end))
         /\ RangedTwice(CxxRegion(first, end)) /\ RangedOnce(CxxRegion(first, end))
         /\ Ranged(CxxRegion(first, end))
<1>1. IsRange(NoRange)
  BY DEF IsRange, NoRange, Invalid
<1>2. IsRange(RangeOfTokens(first, end))
  <2>1. CASE 1 <= first /\ first < end /\ end <= Len(tokens) + 1
    <3>1. first \in 1..Len(tokens) /\ end - 1 \in 1..Len(tokens)
      BY <2>1, StreamFacts
    <3>2. tokens[first].begin \in Int /\ tokens[end-1].end \in Int
      BY <3>1, StreamFacts
    <3> QED
      BY <2>1, <3>2 DEF RangeOfTokens, IsRange
  <2>2. CASE ~(1 <= first /\ first < end /\ end <= Len(tokens) + 1)
    BY <1>1, <2>2 DEF RangeOfTokens
  <2> QED
    BY <2>1, <2>2
<1>3. \E kind, range : IsRange(range) /\ CxxRegion(first, end) = Node(kind, range, <<>>)
  <2>1. CASE first < end /\ first <= Len(tokens)
    BY <1>2, <2>1 DEF CxxRegion
  <2>2. CASE ~(first < end /\ first <= Len(tokens))
    BY <1>1, <2>2 DEF CxxRegion, InvalidNode
  <2> QED
    BY <2>1, <2>2
<1>4. RangedTwice(CxxRegion(first, end)) /\ RangedOnce(CxxRegion(first, end))
  BY <1>3, LeafRanged
<1> QED
  BY <1>2, <1>4 DEF RangedOnce

LEMMA ChildIfRanged ==
  ASSUME NEW empty, NEW kind, NEW range, IsRange(range), NEW only
  PROVE  RangedOnce(only) => RangedTwice(Node(kind, range, NoChildIf(empty, only)))
BY LeafRanged, ParentRanged DEF NoChildIf

-----------------------------------------------------------------------------
(* The constructs.                                                         *)

LEMMA TryExpressionRanged ==
  ASSUME IsTokenStream(tokens), NEW at \in 1..Len(tokens), Kind(at) # "EndOfFile"
  PROVE  RangedTwice(TryExpression(at).node) /\ RangedOnce(TryExpression(at).node)
<1> DEFINE first == at + 1
           end == ScanOpaqueRegion(first, OperandStops)
           call == Node("DirectCallExpression", RangeOfTokens(first, end),
                        <<CxxRegion(first, first + 1)>>)
           operand == IF IsDirectCall(first, end) THEN call ELSE CxxRegion(first, end)
<1>1. first \in 1..Len(tokens) /\ end \in first..Len(tokens)
  BY NextToken, ScansStop
<1>2. first \in Int /\ first + 1 \in Int /\ end \in Int /\ at \in Int
  BY <1>1
<1>3. TryExpression(at).node = IF end = first
        THEN Node("TryExpression", RangeOfTokens(at, first), <<>>)
        ELSE Node("TryExpression", RangeOfTokens(at, end), <<operand>>)
  BY DEF TryExpression, Parsed
<1>4. Ranged(operand) /\ RangedOnce(operand)
  <2>1. RangedOnce(call)
    <3>1. IsRange(RangeOfTokens(first, end)) /\ Ranged(CxxRegion(first, first + 1))
      BY <1>2, TokensRanged
    <3> QED
      BY <3>1, ParentRanged
  <2>2. RangedOnce(CxxRegion(first, end))
    BY <1>2, TokensRanged
  <2> HIDE DEF call, end, first
  <2> QED
    BY <2>1, <2>2 DEF RangedOnce
<1>5. IsRange(RangeOfTokens(at, first)) /\ IsRange(RangeOfTokens(at, end))
  BY <1>2, TokensRanged
<1> HIDE DEF operand, end, first
<1>6. CASE end = first
  BY <1>3, <1>5, <1>6, LeafRanged
<1>7. CASE end # first
  BY <1>3, <1>4, <1>5, <1>7, ParentRanged
<1> QED
  BY <1>6, <1>7

LEMMA FailStatementRanged ==
  ASSUME IsTokenStream(tokens), NEW at \in 1..Len(tokens), Kind(at) # "EndOfFile"
  PROVE  RangedTwice(FailStatement(at).node)
<1> DEFINE first == at + 1
           end == ScanOpaqueRegion(first, StatementStops)
           payload == IF Kind(first) = "try" /\ Kind(first + 1) # "{"
                      THEN TryExpression(first)
                      ELSE Parsed(CxxRegion(first, end), end, <<>>)
           next == FailStatement(at).next
<1>1. first \in 1..Len(tokens) /\ end \in first..Len(tokens)
  BY NextToken, ScansStop
<1>2. RangedOnce(payload.node)
  <2>1. CASE Kind(first) = "try" /\ Kind(first + 1) # "{"
    <3>1. Kind(first) # "EndOfFile"
      BY <2>1
    <3>2. RangedOnce(TryExpression(first).node)
      BY <1>1, <3>1, TryExpressionRanged
    <3> QED
      BY <2>1, <3>2
  <2>2. CASE ~(Kind(first) = "try" /\ Kind(first + 1) # "{")
    <3>1. first \in Int /\ end \in Int
      BY <1>1
    <3>2. RangedOnce(CxxRegion(first, end))
      BY <3>1, TokensRanged
    <3> QED
      BY <2>2, <3>2 DEF Parsed
  <2> QED
    BY <2>1, <2>2
<1>3. FailStatement(at).node = Node("FailStatement", RangeOfTokens(at, next),
                                    NoChildIf(payload.next = first, payload.node))
  BY DEF FailStatement, Parsed
<1>4. next \in Int /\ at \in Int
  BY FailStatementSpans DEF Spans
<1> HIDE DEF payload, next
<1>5. IsRange(RangeOfTokens(at, next))
  BY <1>4, TokensRanged
<1> QED
  BY <1>2, <1>3, <1>5, ChildIfRanged

LEMMA ReturnStatementRanged ==
  ASSUME IsTokenStream(tokens), NEW at \in 1..Len(tokens), Kind(at) # "EndOfFile"
  PROVE  RangedTwice(ReturnStatement(at).node)
<1> DEFINE first == at + 1
           end == ScanOpaqueRegion(first, StatementStops)
           next == ReturnStatement(at).next
<1>1. first \in 1..Len(tokens) /\ end \in first..Len(tokens)
  BY NextToken, ScansStop
<1>2. ReturnStatement(at).node = Node("ReturnStatement", RangeOfTokens(at, next),
                                      NoChildIf(end = first, CxxRegion(first, end)))
  BY DEF ReturnStatement, Parsed
<1>3. next \in Int /\ at \in Int /\ first \in Int /\ end \in Int
  BY <1>1, ReturnStatementSpans DEF Spans
<1> HIDE DEF end, next
<1>4. IsRange(RangeOfTokens(at, next)) /\ RangedOnce(CxxRegion(first, end))
  BY <1>3, TokensRanged
<1> HIDE DEF first
<1> QED
  BY <1>2, <1>4, ChildIfRanged

LEMMA FailureSpecificationRanged ==
  ASSUME IsTokenStream(tokens), NEW at \in 1..Len(tokens), Kind(at) # "EndOfFile"
  PROVE  RangedTwice(FailureSpecification(at).node)
<1> DEFINE first == at + 1
           end == FailureTypeEnd(first)
<1>1. first \in 1..Len(tokens) /\ end \in first..Len(tokens)
  BY NextToken, ScansStop
<1>2. FailureSpecification(at).node = Node("FailureSpecification", RangeOfTokens(at, end),
                                           NoChildIf(end = first, CxxRegion(first, end)))
  BY DEF FailureSpecification, Parsed
<1>3. at \in Int /\ first \in Int /\ end \in Int
  BY <1>1
<1> HIDE DEF end
<1>4. IsRange(RangeOfTokens(at, end)) /\ RangedOnce(CxxRegion(first, end))
  BY <1>3, TokensRanged
<1> HIDE DEF first
<1> QED
  BY <1>2, <1>4, ChildIfRanged

LEMMA TryInitializationRanged ==
  ASSUME IsTokenStream(tokens), NEW at \in 1..Len(tokens), Kind(at) # "EndOfFile",
         NEW declaration \in Int
  PROVE  RangedTwice(TryInitialization(declaration, at).node)
<1> DEFINE next == TryInitialization(declaration, at).next
           left == CxxRegion(declaration, at - 1)
           right == TryExpression(at).node
           node == TryInitialization(declaration, at).node
<1>1. node.range = RangeOfTokens(declaration, next) /\ node.children = <<left, right>>
  BY DEF TryInitialization, Parsed, Node
<1>2. next \in Int /\ at - 1 \in Int
  BY TryInitializationSpans DEF Spans
<1>3. RangedOnce(left) /\ RangedOnce(right)
  BY <1>2, TokensRanged, TryExpressionRanged
<1>4. IsRange(RangeOfTokens(declaration, next))
  BY <1>2, TokensRanged
<1> HIDE DEF node, left, right, next
<1>5. Len(<<left, right>>) = 2 /\ <<left, right>>[1] = left /\ <<left, right>>[2] = right
  OBVIOUS
<1>6. ASSUME NEW k \in 1..2 PROVE RangedOnce(<<left, right>>[k])
  <2>1. k = 1 \/ k = 2
    OBVIOUS
  <2> QED
    BY <1>3, <1>5, <2>1
<1>7. RangedTwice(node)
  BY <1>1, <1>4, <1>5, <1>6 DEF RangedTwice, Ranged
<1> QED
  BY <1>7 DEF node

LEMMA ConstructRanged ==
  ASSUME IsTokenStream(tokens), NEW at \in 1..Len(tokens), StartsConstruct(at)
  PROVE  RangedTwice(Construct(at).node)
<1>1. Kind(at) \in {"fail", "fails", "try"}
  BY DEF StartsConstruct
<1>2. Kind(at) # "EndOfFile"
  BY <1>1
<1>3. Construct(at) \in {FailStatement(at), FailureSpecification(at), TryExpression(at)}
  BY <1>1 DEF Construct
<1> QED
  BY <1>2, <1>3, FailStatementRanged, FailureSpecificationRanged, TryExpressionRanged

LEMMA RegionRanged ==
  ASSUME IInv, ~AtEnd(position), ~StartsConstruct(position)
  PROVE  LET region == TopLevelRegion(position)
         IN  RangedTwice(region.node) /\ region.node.kind = "CxxRegion" /\ Ranged(region.node)
<1> DEFINE region == TopLevelRegion(position)
           end == RegionEnd(position)
           range == [begin |-> IF position > 1 THEN tokens[position-1].end ELSE tokens[position].begin,
                     end   |-> tokens[end].begin]
<1>1. /\ IsTokenStream(tokens) /\ position \in 1..Len(tokens)
      /\ end \in position..Len(tokens) /\ Len(tokens) \in Nat
  BY ScansStop, StreamFacts DEF IInv, ParserTypeOK
<1>2. region.node = Node("CxxRegion", range, <<>>)
  BY DEF TopLevelRegion, Parsed
<1>3. /\ end \in 1..Len(tokens) /\ position > 1 => position - 1 \in 1..Len(tokens)
  BY <1>1
<1>4. IsRange(range)
  <2>1. tokens[end].begin \in Int /\ tokens[position].begin \in Int
        /\ (position > 1 => tokens[position-1].end \in Int)
    BY <1>1, <1>3, StreamFacts
  <2> QED
    BY <2>1 DEF IsRange
<1> HIDE DEF range, region
<1>5. RangedTwice(region.node) /\ region.node.kind = "CxxRegion"
  BY <1>2, <1>4, LeafRanged DEF Node
<1> QED
  BY <1>5 DEF RangedTwice, region

LEMMA HeaderRanged ==
  ASSUME IsTokenStream(tokens), NEW at \in 2..Len(tokens), NEW prefix, RangedTwice(prefix),
         prefix.kind = "CxxRegion"
  PROVE  LET header == Header(prefix, at)
         IN  /\ AllUnitRanged(header.before) /\ AllRanged(header.children)
             /\ IsRange(header.range)
<1> DEFINE header == Header(prefix, at)
           first == PrefixBegin(prefix, at)
           open == IF first < at THEN MatchingLeftParen(at - 1) ELSE NotFound
           begin == DeclarationBegin(first, open)
           type == RangeOfTokens(begin, open - 1)
           region == CxxRegion(first, begin)
           typeNode == Node("FunctionReturnType", type, <<>>)
           nameNode == Node("FunctionName", RangeOfTokens(open - 1, open), <<>>)
           declarator == Node("FunctionDeclarator", RangeOfTokens(open - 1, at), <<>>)
           named == NoChildIf(~HasSupportedFunctionName(begin, open), nameNode)
<1>1. first \in 1..at-1 \/ first = NotFound
  <2> DEFINE S == {i \in 1..at-1 : tokens[i].begin >= prefix.range.begin}
  <2>1. S \in SUBSET Nat
    OBVIOUS
  <2>2. S # {} => Min(S) \in S
    <3> HIDE DEF S
    <3> QED
      BY <2>1, MinOfNaturals
  <2> QED
    BY <2>2 DEF PrefixBegin
<1>2. CASE open \in {NotFound, first}
  <2>1. header.before = <<>> /\ header.children = <<prefix>> /\ header.range = prefix.range
    BY <1>2 DEF Header
  <2> HIDE DEF header
  <2>2. AllRanged(<<prefix>>) /\ IsRange(prefix.range)
    BY RangedOne DEF RangedTwice, Ranged
  <2> QED
    BY <2>1, <2>2, NoneRanged DEF header
<1>3. CASE open \notin {NotFound, first}
  <2>1. first \in 1..at-1 /\ at - 1 \in 1..Len(tokens) /\ open = MatchingLeftParen(at - 1)
    <3>1. first < at
      BY <1>3
    <3>2. first # NotFound
      BY <3>1, StreamFacts DEF NotFound
    <3> QED
      BY <1>1, <3>1, <3>2, StreamFacts
  <2>2. open \in 1..at-1
    <3>1. MatchingLeftParen(at - 1) # NotFound
      BY <1>3, <2>1
    <3>2. MatchingLeftParen(at - 1) \in 1..at-1
      BY <2>1, <3>1, LeftParenBefore
    <3> QED
      BY <2>1, <3>2
  <2>3. /\ header.before = NoChildIf(begin <= first, region)
        /\ header.children = <<typeNode>> \o named \o <<declarator>>
        /\ header.range = type
    BY <1>3 DEF Header
  <2> HIDE DEF header, open
  <2>4. begin \in Nat
    <3>1. first \in 1..Len(tokens)+1 /\ open \in 1..Len(tokens)
      BY <2>1, <2>2, StreamFacts
    <3> QED
      BY <3>1, DeclarationBeginIsNatural
  <2> HIDE DEF begin
  <2>5. begin \in Int /\ first \in Int /\ open - 1 \in Int /\ open \in Int /\ at \in Int
    BY <2>1, <2>2, <2>4
  <2> HIDE DEF first
  <2>6. /\ IsRange(type) /\ IsRange(RangeOfTokens(open - 1, open))
        /\ IsRange(RangeOfTokens(open - 1, at)) /\ RangedTwice(region)
    BY <2>5, TokensRanged
  <2>7. RangedTwice(typeNode) /\ RangedTwice(nameNode) /\ RangedTwice(declarator)
    BY <2>6, LeafRanged
  <2>8. region.kind # "FunctionDeclaration"
    BY DEF CxxRegion, InvalidNode, Node
  <2> HIDE DEF type, region, typeNode, nameNode, declarator
  <2>9. UnitRanged(region)
    BY <2>6, <2>8 DEF UnitRanged
  <2>10. AllUnitRanged(NoChildIf(begin <= first, region))
    BY <2>9, RangedOne, NoneRanged DEF NoChildIf
  <2>11. AllRanged(named)
    BY <2>7, RangedOne, NoneRanged DEF NoChildIf
  <2>12. AllRanged(<<typeNode>>) /\ AllRanged(<<declarator>>)
    BY <2>7, RangedOne
  <2> HIDE DEF named
  <2>13. AllRanged(<<typeNode>> \o named)
    BY <2>11, <2>12, RangedConcat
  <2>14. AllRanged((<<typeNode>> \o named) \o <<declarator>>)
    BY <2>12, <2>13, RangedConcat
  <2> QED
    BY <2>3, <2>6, <2>10, <2>14 DEF header
<1> QED
  BY <1>2, <1>3

-----------------------------------------------------------------------------
(* Every node of the tree has a range.                                     *)

RangesInv ==
  /\ phase # "done" => AllUnitRanged(unit)
  /\ phase = "body" =>
       AllUnitRanged(pending) /\ AllRanged(function.children) /\ IsRange(function.range)
  /\ phase = "done" => AllUnitRanged(unit.children)

LEMMA PushIsRanged ==
  ASSUME AllUnitRanged(unit), NEW before, AllUnitRanged(before), NEW node, UnitRanged(node),
         PushTopLevel(before, node)
  PROVE  RangesInv'
<1>1. /\ unit' = unit \o before \o (IF node.kind = "Invalid" THEN <<>> ELSE <<node>>)
      /\ phase' = "unit"
  BY DEF PushTopLevel
<1>2. AllUnitRanged(unit \o before)
  BY RangedConcat
<1>3. AllUnitRanged(IF node.kind = "Invalid" THEN <<>> ELSE <<node>>)
  BY RangedOne, NoneRanged
<1> DEFINE flushed == unit \o before
           pushed == IF node.kind = "Invalid" THEN <<>> ELSE <<node>>
<1>4. AllUnitRanged(flushed \o pushed)
  <2> HIDE DEF flushed, pushed
  <2> QED
    BY <1>2, <1>3, RangedConcat DEF flushed, pushed
<1> QED
  BY <1>1, <1>4 DEF RangesInv

\* What the body actions push.
LEMMA OpenRegionRanged ==
  ASSUME IsTokenStream(tokens), NEW end \in Int, function.regionBegin \in Int
  PROVE  AllRanged(OpenRegion(end))
<1>1. RangedTwice(CxxRegion(function.regionBegin, end))
  BY TokensRanged
<1> QED
  BY <1>1, RangedOne, NoneRanged DEF OpenRegion, NoChildIf

LEMMA BodyPushIsRanged ==
  ASSUME IInv, RangesInv, InBody, NEW end \in Int, NEW parsed, RangedTwice(parsed.node),
         PushBodyConstruct(end, parsed)
  PROVE  RangesInv'
<1>1. /\ phase = "body" /\ IsTokenStream(tokens) /\ function.regionBegin \in Int
      /\ FunctionIsRecord
  BY BodyFacts DEF IInv
<1> DEFINE more == OpenRegion(end) \o <<parsed.node>>
           longer == function.children \o more
<1>2. /\ UNCHANGED <<phase, unit, pending>>
      /\ function' = [function EXCEPT !.children = longer, !.regionBegin = parsed.next]
  BY DEF PushBodyConstruct, WithChildren
<1>3. AllRanged(more)
  <2>1. AllRanged(OpenRegion(end)) /\ AllRanged(<<parsed.node>>)
    BY <1>1, OpenRegionRanged, RangedOne
  <2> QED
    BY <2>1, RangedConcat
<1> HIDE DEF more
<1>4. AllRanged(longer)
  BY <1>1, <1>3, RangedConcat DEF RangesInv
<1> HIDE DEF longer
<1>5. function' = [children |-> longer, range |-> function.range,
                   bodyBegin |-> function.bodyBegin, regionBegin |-> parsed.next,
                   braceDepth |-> function.braceDepth]
  BY <1>1, <1>2 DEF FunctionIsRecord
<1>6. function'.children = longer /\ function'.range = function.range
  BY <1>5
<1> QED
  BY <1>1, <1>2, <1>4, <1>6 DEF RangesInv

LEMMA DeclarationRanged ==
  ASSUME NEW range, IsRange(range), NEW children, AllRanged(children)
  PROVE  UnitRanged(Node("FunctionDeclaration", range, children))
BY DEF UnitRanged, Ranged, Node

LEMMA HeaderKeepsRanges ==
  ASSUME IInv, RangesInv, ParseFunctionHeader
  PROVE  RangesInv'
<1> DEFINE region == TopLevelRegion(position)
           at == region.next
           header == Header(region.node, at)
           specification == FailureSpecification(at)
           children == Append(header.children, specification.node)
<1>1. /\ phase = "unit" /\ ~AtEnd(position) /\ ~StartsConstruct(position)
      /\ Kind(at) = "fails"
      /\ IF Kind(specification.next) = "{" THEN OpenBody(header, specification)
                                           ELSE DeclareOnly(header, specification)
  BY DEF ParseFunctionHeader
<1>2. IsTokenStream(tokens) /\ position \in 1..Len(tokens) /\ at \in position+1..Len(tokens)
  BY <1>1, RegionAdvances DEF IInv, ParserTypeOK
<1>3. RangedTwice(region.node) /\ region.node.kind = "CxxRegion"
  BY <1>1, RegionRanged
<1> HIDE DEF region, at
<1>4. at \in 2..Len(tokens) /\ at \in 1..Len(tokens) /\ Kind(at) # "EndOfFile"
  <2>1. Kind(at) # "EndOfFile"
    BY <1>1
  <2>2. Len(tokens) \in Nat
    BY <1>2, StreamFacts
  <2> QED
    BY <1>2, <2>1, <2>2
<1>5. AllUnitRanged(header.before) /\ AllRanged(header.children) /\ IsRange(header.range)
  BY <1>2, <1>3, <1>4, HeaderRanged
<1>6. RangedTwice(specification.node)
  BY <1>2, <1>4, FailureSpecificationRanged
<1> HIDE DEF header, specification
<1>7. AllRanged(children)
  <2>1. children = header.children \o <<specification.node>>
    BY <1>5, AppendIsConcat DEF AllRanged, IsList
  <2>2. AllRanged(<<specification.node>>)
    BY <1>6, RangedOne
  <2> QED
    BY <1>5, <2>1, <2>2, RangedConcat
<1>8. IsRange(ExtendedTo(header.range, specification.node.range))
  BY <1>5, <1>6 DEF ExtendedTo, IsRange, RangedTwice, Ranged
<1> HIDE DEF children
<1>9. CASE Kind(specification.next) = "{"
  <2>1. /\ phase' = "body" /\ pending' = header.before /\ unit' = unit
        /\ function'.children = children /\ function'.range = header.range
    <3>1. OpenBody(header, specification)
      BY <1>1, <1>9
    <3>2. /\ phase' = "body" /\ pending' = header.before /\ unit' = unit
          /\ \E x, y, z : function' = [children |-> children, range |-> header.range,
                                     bodyBegin |-> x, regionBegin |-> y, braceDepth |-> z]
      BY <3>1 DEF OpenBody, children
    <3> QED
      BY <3>2
  <2> QED
    BY <1>1, <1>5, <1>7, <2>1 DEF RangesInv
<1>10. CASE Kind(specification.next) # "{"
  <2>1. PICK range : /\ range \in {ExtendedTo(header.range, specification.node.range), header.range}
                     /\ PushTopLevel(header.before, Node("FunctionDeclaration", range, children))
    BY <1>1, <1>10 DEF DeclareOnly, children
  <2>2. UnitRanged(Node("FunctionDeclaration", range, children))
    BY <1>5, <1>7, <1>8, <2>1, DeclarationRanged
  <2> QED
    BY <1>1, <1>5, <2>1, <2>2, PushIsRanged DEF RangesInv
<1> QED
  BY <1>9, <1>10

LEMMA RangesAreKept == IInv /\ RangesInv /\ ParserStep => RangesInv'
<1> SUFFICES ASSUME IInv, RangesInv, ParserStep PROVE RangesInv'
  OBVIOUS
<1>1. CASE ParseTopLevelConstruct
  <2>1. /\ phase = "unit" /\ StartsConstruct(position)
        /\ PushTopLevel(<<>>, Construct(position).node)
    BY <1>1 DEF ParseTopLevelConstruct
  <2>2. RangedTwice(Construct(position).node)
    BY <2>1, ConstructRanged DEF IInv, ParserTypeOK
  <2>3. Construct(position).node.kind # "FunctionDeclaration"
    BY <2>1, ConstructChecked DEF Demanding, IInv, ParserTypeOK
  <2>4. UnitRanged(Construct(position).node)
    BY <2>2, <2>3 DEF UnitRanged
  <2> QED
    BY <2>1, <2>4, NoneRanged, PushIsRanged DEF RangesInv
<1>2. CASE ParseTopLevelRegion
  <2> DEFINE node == TopLevelRegion(position).node
  <2>1. phase = "unit" /\ PushTopLevel(<<>>, node) /\ ~AtEnd(position) /\ ~StartsConstruct(position)
    BY <1>2 DEF ParseTopLevelRegion
  <2>2. RangedTwice(node) /\ node.kind = "CxxRegion"
    BY <2>1, RegionRanged
  <2> HIDE DEF node
  <2>3. UnitRanged(node)
    BY <2>2 DEF UnitRanged
  <2> QED
    BY <2>1, <2>3, NoneRanged, PushIsRanged DEF RangesInv
<1>3. CASE ParseFunctionHeader
  BY <1>3, HeaderKeepsRanges
<1>4. CASE FinishUnit
  <2>1. phase = "unit" /\ phase' = "done" /\ unit'.children = unit
    BY <1>4 DEF FinishUnit, Node
  <2> QED
    BY <2>1 DEF RangesInv
<1>5. CASE ScanBodyToken
  <2>1. /\ phase = "body" /\ UNCHANGED <<phase, unit, pending>>
        /\ \E depth : function' = [function EXCEPT !.braceDepth = depth]
    BY <1>5 DEF ScanBodyToken, InBody
  <2>2. PICK depth : function' = [function EXCEPT !.braceDepth = depth]
    BY <2>1
  <2>3. FunctionIsRecord
    BY DEF IInv
  <2>4. function' = [children |-> function.children, range |-> function.range,
                     bodyBegin |-> function.bodyBegin, regionBegin |-> function.regionBegin,
                     braceDepth |-> depth]
    BY <2>2, <2>3 DEF FunctionIsRecord
  <2>5. function'.children = function.children /\ function'.range = function.range
    BY <2>4
  <2> QED
    BY <2>1, <2>5 DEF RangesInv
<1>6. CASE ParseBodyReturn
  <2>1. InBody /\ PushBodyConstruct(position, ReturnStatement(position))
    BY <1>6 DEF ParseBodyReturn
  <2>2. RangedTwice(ReturnStatement(position).node) /\ position \in Int
    BY <2>1, BodyFacts, ReturnStatementRanged
  <2> QED
    BY <2>1, <2>2, BodyPushIsRanged
<1>7. CASE ParseBodyTryInitialization
  <2> DEFINE declaration == TryInitializationBegin(position, function.regionBegin)
  <2>1. InBody /\ PushBodyConstruct(declaration, TryInitialization(declaration, position))
    BY <1>7 DEF ParseBodyTryInitialization
  <2>2. declaration \in Int
    BY <2>1, BodyFacts DEF TryInitializationBegin, NotFound
  <2>3. RangedTwice(TryInitialization(declaration, position).node)
    BY <2>1, <2>2, BodyFacts, TryInitializationRanged
  <2> HIDE DEF declaration
  <2> QED
    BY <2>1, <2>2, <2>3, BodyPushIsRanged
<1>8. CASE ParseBodyConstruct
  <2>1. InBody /\ StartsConstruct(position) /\ PushBodyConstruct(position, Construct(position))
    BY <1>8 DEF ParseBodyConstruct
  <2>2. RangedTwice(Construct(position).node) /\ position \in Int
    BY <2>1, BodyFacts, ConstructRanged
  <2> QED
    BY <2>1, <2>2, BodyPushIsRanged
<1>9. CASE CloseBody
  <2> DEFINE end == position + 1
             body == RangeOfTokens(function.bodyBegin, end)
             children == function.children \o OpenRegion(end)
             range == ExtendedTo(function.range, body)
  <2>1. InBody /\ PushTopLevel(pending, Node("FunctionDeclaration", range, children))
    BY <1>9 DEF CloseBody
  <2>2. /\ IsTokenStream(tokens) /\ phase = "body" /\ end \in Int
        /\ function.regionBegin \in Int /\ function.bodyBegin \in Int
    BY <2>1, BodyFacts
  <2> HIDE DEF end
  <2>3. AllRanged(children) /\ IsRange(range)
    <3>1. IsRange(body) /\ AllRanged(OpenRegion(end))
      BY <2>2, TokensRanged, OpenRegionRanged
    <3>2. AllRanged(function.children) /\ IsRange(function.range)
      BY <2>2 DEF RangesInv
    <3> QED
      BY <3>1, <3>2, RangedConcat DEF IsRange, ExtendedTo
  <2> HIDE DEF children, range
  <2> QED
    BY <2>1, <2>2, <2>3, DeclarationRanged, PushIsRanged DEF RangesInv
<1>10. CASE EndOfFileInBody
  <2> DEFINE children == function.children \o OpenRegion(position)
  <2>1. phase = "body" /\ PushTopLevel(pending, Node("FunctionDeclaration", function.range, children))
    BY <1>10 DEF EndOfFileInBody
  <2>2. /\ IsTokenStream(tokens) /\ position \in Int /\ function.regionBegin \in Int
    BY <2>1 DEF IInv, ParserTypeOK
  <2>3. AllRanged(children) /\ IsRange(function.range)
    <3>1. AllRanged(OpenRegion(position))
      BY <2>2, OpenRegionRanged
    <3>2. AllRanged(function.children) /\ IsRange(function.range)
      BY <2>1 DEF RangesInv
    <3> QED
      BY <3>1, <3>2, RangedConcat
  <2> HIDE DEF children
  <2> QED
    BY <2>1, <2>3, DeclarationRanged, PushIsRanged DEF RangesInv
<1> QED
  BY <1>1, <1>2, <1>3, <1>4, <1>5, <1>6, <1>7, <1>8, <1>9, <1>10 DEF ParserStep

LEMMA InitIsRanged == ParserInit => RangesInv
BY NoneRanged DEF ParserInit, RangesInv

LEMMA RangesStay == RangesInv /\ UNCHANGED parsingVars => RangesInv'
BY DEF RangesInv, parsingVars

-----------------------------------------------------------------------------
(* The try expressions of the tree: each is what the parser reads at one   *)
(* token, and the token before tells whether it is the operand of a `fail` *)
(* statement.                                                              *)

ReadAt(node, at) ==
  at \in 2..Len(tokens) /\ Kind(at) # "EndOfFile" /\ node = TryExpression(at).node

\* A `try` the analysis visits, and one it does not.
Visited(node) == \E at \in 2..Len(tokens) : ReadAt(node, at) /\ Kind(at-1) # "fail"
Unvisited(node) == \E at \in 2..Len(tokens) : ReadAt(node, at) /\ Kind(at-1) = "fail"

ChildRead(node) ==
  /\ node.kind = "TryExpression" => Visited(node)
  /\ node.kind = "TryInitialization" => Visited(node.children[2])
  /\ node.kind = "FailStatement" =>
       \A k \in 1..Len(node.children) :
         node.children[k].kind = "TryExpression" => Unvisited(node.children[k])

\* A function that has a name has one name, a success type and a declarator.
NamedOnce(nodes) ==
  \A i, j \in 1..Len(nodes) :
    nodes[i].kind = "FunctionName" /\ nodes[j].kind = "FunctionName" =>
      /\ i = j
      /\ \E k \in 1..Len(nodes) : nodes[k].kind = "FunctionReturnType"
      /\ \E k \in 1..Len(nodes) : nodes[k].kind = "FunctionDeclarator"

\* Every construct is behind the first failure specification.
ConstructsFollow(nodes) ==
  \A k \in 1..Len(nodes) : nodes[k].kind \in Demanding =>
    \E h \in 1..k : nodes[h].kind = "FailureSpecification"

FunctionRead(nodes) ==
  /\ IsList(nodes)
  /\ \A k \in 1..Len(nodes) : ChildRead(nodes[k])
  /\ NamedOnce(nodes) /\ ConstructsFollow(nodes)

UnitRead(nodes) ==
  /\ IsList(nodes)
  /\ \A k \in 1..Len(nodes) :
       nodes[k].kind = "FunctionDeclaration" => FunctionRead(nodes[k].children)

\* What may stand at the position a parse function leaves.
Leaves(next) == Kind(next) = "try" => Kind(next-1) # "fail"

TriesInv ==
  /\ phase # "done" => UnitRead(unit)
  /\ phase = "body" =>
       /\ UnitRead(pending) /\ FunctionRead(function.children)
       /\ position > 1 /\ Leaves(position)
  /\ phase = "done" => UnitRead(unit.children)

\* Two visited expressions of one range are the same.
LEMMA RangeNamesTheTry ==
  ASSUME IsTokenStream(tokens), NEW s, NEW at, ReadAt(s, at), NEW t, NEW to, ReadAt(t, to),
         s.range = t.range
  PROVE  at = to /\ s = t
<1>1. at \in 1..Len(tokens) /\ to \in 1..Len(tokens) /\ Len(tokens) \in Nat
      /\ Kind(at) # "EndOfFile" /\ Kind(to) # "EndOfFile"
  BY StreamFacts DEF ReadAt
<1>2. \A i \in 1..Len(tokens) : Kind(i) # "EndOfFile" =>
        /\ TryExpression(i).node.range.begin = tokens[i].begin /\ i < Len(tokens)
  <2>1. SUFFICES ASSUME NEW i \in 1..Len(tokens), Kind(i) # "EndOfFile"
                 PROVE  /\ TryExpression(i).node.range.begin = tokens[i].begin
                        /\ i < Len(tokens)
    OBVIOUS
  <2>2. PICK next \in i+1..Len(tokens) :
          TryExpression(i).node.range = RangeOfTokens(i, next)
    BY <2>1, TryExpressionSpans DEF Spans
  <2>3. RangeOfTokens(i, next) = [begin |-> tokens[i].begin, end |-> tokens[next-1].end]
    BY <1>1, <2>2 DEF RangeOfTokens
  <2> QED
    BY <2>1, <2>2, <2>3, NextToken
<1>3. tokens[at].begin = tokens[to].begin
  BY <1>1, <1>2 DEF ReadAt
<1>4. ASSUME NEW i \in 1..Len(tokens), NEW j \in 1..Len(tokens), i < j, Kind(i) # "EndOfFile"
      PROVE  tokens[i].begin # tokens[j].begin
  <2>1. i < Len(tokens)
    BY <1>2, <1>4
  <2>2. PICK b, e, c \in Nat : b = tokens[i].begin /\ e = tokens[i].end /\ c = tokens[j].begin
    BY StreamFacts
  <2>3. b < e /\ e <= c
    BY <1>4, <2>1, <2>2, StreamFacts
  <2> QED
    BY <2>2, <2>3
<1>5. at = to
  BY <1>1, <1>3, <1>4
<1> QED
  BY <1>5 DEF ReadAt

-----------------------------------------------------------------------------
(* No construct ends before a `try` whose predecessor is `fail`.           *)

\* The conditions of a scan, bracket by bracket.
LEMMA BracketParts ==
  \A x, y : <<x, y>>[1] = x /\ <<x, y>>[2] = y
OBVIOUS

ZeroDepths(first, i) ==
  /\ Depth("(", ")", first, i) = 0
  /\ Depth("[", "]", first, i) = 0
  /\ Depth("{", "}", first, i) = 0

Closing(first, i) ==
  \/ Kind(i) = ")" /\ Depth("(", ")", first, i) = 0
  \/ Kind(i) = "]" /\ Depth("[", "]", first, i) = 0
  \/ Kind(i) = "}" /\ Depth("{", "}", first, i) = 0

LEMMA OuterParts ==
  \A first, i : /\ Outer(first, i) <=> ZeroDepths(first, i)
                /\ Unmatched(first, i) <=> Closing(first, i)
<1> DEFINE p == <<"(", ")">>
           s == <<"[", "]">>
           c == <<"{", "}">>
<1>1. /\ p[1] = "(" /\ p[2] = ")" /\ s[1] = "[" /\ s[2] = "]" /\ c[1] = "{" /\ c[2] = "}"
  BY BracketParts
<1>2. Brackets = {p, s, c}
  BY DEF Brackets
<1> HIDE DEF p, s, c
<1>3. \A first, i : Outer(first, i) <=> ZeroDepths(first, i)
  BY <1>1, <1>2 DEF Outer, ZeroDepths
<1>4. \A first, i : Unmatched(first, i) <=> Closing(first, i)
  BY <1>1, <1>2 DEF Unmatched, Closing
<1> QED
  BY <1>3, <1>4

LEMMA NoTryWhereScansStop ==
  ASSUME IsTokenStream(tokens), NEW first \in 1..Len(tokens)
  PROVE  /\ Kind(ScanOpaqueRegion(first, OperandStops)) # "try"
         /\ Kind(ScanOpaqueRegion(first, StatementStops)) # "try"
         /\ Kind(FailureTypeEnd(first)) # "try"
<1>1. Len(tokens) \in Nat /\ Kind(Len(tokens)) = "EndOfFile" /\ AtEnd(Len(tokens))
  BY StreamFacts DEF AtEnd
<1>2. ASSUME NEW i \in first..Len(tokens), AtEnd(i) PROVE Kind(i) # "try"
  BY <1>1, <1>2 DEF AtEnd
<1>3. ASSUME NEW stops, "try" \notin stops
      PROVE Kind(ScanOpaqueRegion(first, stops)) # "try"
  <2> DEFINE S == {i \in first..Len(tokens) : \/ AtEnd(i)
                                              \/ Outer(first, i) /\ Kind(i) \in stops
                                              \/ Unmatched(first, i)}
  <2>1. S \in SUBSET Nat /\ Len(tokens) \in S
    BY <1>1
  <2>2. Min(S) \in S
    <3> HIDE DEF S
    <3> QED
      BY <2>1, MinOfNaturals
  <2>3. \A i \in S : Kind(i) # "try"
    <3>1. SUFFICES ASSUME NEW i \in S PROVE Kind(i) # "try"
      OBVIOUS
    <3>2. Unmatched(first, i) => Kind(i) # "try"
      BY OuterParts DEF Closing
    <3> QED
      BY <1>2, <1>3, <3>2
  <2> QED
    BY <2>2, <2>3 DEF ScanOpaqueRegion
<1>4. Kind(FailureTypeEnd(first)) # "try"
  <2> DEFINE S == {i \in first..Len(tokens) :
             \/ AtEnd(i)
             \/ /\ Kind(i) \in {"{", ";"}
                /\ Depth("(", ")", first, i) = 0 /\ Depth("[", "]", first, i) = 0
             \/ Kind(i) = ")" /\ Depth("(", ")", first, i) = 0
             \/ Kind(i) = "]" /\ Depth("[", "]", first, i) = 0}
  <2>1. S \in SUBSET Nat
    <3>1. first..Len(tokens) \in SUBSET Nat
      BY <1>1
    <3> QED
      BY <3>1
  <2>2. Len(tokens) \in S
    BY <1>1
  <2>3. Min(S) \in S
    <3> HIDE DEF S
    <3> QED
      BY <2>1, <2>2, MinOfNaturals
  <2>4. \A i \in S : Kind(i) # "try"
    BY <1>2
  <2> QED
    BY <2>3, <2>4 DEF FailureTypeEnd
<1> QED
  BY <1>3, <1>4 DEF OperandStops, StatementStops

LEMMA LeavesAfterSemicolon ==
  ASSUME NEW at \in Int, Kind(at) # "try"
  PROVE  Leaves(at) /\ Leaves(AfterSemicolon(at))
<1>1. (at + 1) - 1 = at
  OBVIOUS
<1>2. CASE Kind(at) = ";"
  <2>1. AfterSemicolon(at) = at + 1 /\ Kind(at) # "fail"
    BY <1>2 DEF AfterSemicolon
  <2>2. Leaves(at + 1)
    BY <1>1, <2>1 DEF Leaves
  <2> QED
    BY <2>1, <2>2 DEF Leaves
<1>3. CASE Kind(at) # ";"
  BY <1>3 DEF AfterSemicolon, Leaves
<1> QED
  BY <1>2, <1>3

LEMMA TryExpressionLeaves ==
  ASSUME IsTokenStream(tokens), NEW at \in 1..Len(tokens), Kind(at) # "EndOfFile"
  PROVE  Kind(TryExpression(at).next) # "try"
<1>1. at + 1 \in 1..Len(tokens)
  BY NextToken
<1>2. Kind(ScanOpaqueRegion(at + 1, OperandStops)) # "try"
  BY <1>1, NoTryWhereScansStop
<1>3. TryExpression(at).next = ScanOpaqueRegion(at + 1, OperandStops)
  BY DEF TryExpression, Parsed
<1> QED
  BY <1>2, <1>3

LEMMA ConstructLeaves ==
  ASSUME IsTokenStream(tokens), NEW at \in 1..Len(tokens), Kind(at) # "EndOfFile"
  PROVE  /\ Leaves(TryExpression(at).next) /\ Leaves(FailStatement(at).next)
         /\ Leaves(ReturnStatement(at).next) /\ Leaves(FailureSpecification(at).next)
         /\ \A declaration : Leaves(TryInitialization(declaration, at).next)
<1> DEFINE first == at + 1
           end == ScanOpaqueRegion(first, StatementStops)
           payload == IF Kind(first) = "try" /\ Kind(first + 1) # "{"
                      THEN TryExpression(first)
                      ELSE Parsed(CxxRegion(first, end), end, <<>>)
<1>1. first \in 1..Len(tokens) /\ end \in Int /\ Kind(end) # "try"
      /\ Kind(FailureTypeEnd(first)) # "try"
  BY NextToken, NoTryWhereScansStop, ScansStop
<1>2. Kind(TryExpression(at).next) # "try" /\ TryExpression(at).next \in Int
  BY TryExpressionLeaves, TryExpressionSpans DEF Spans
<1>3. Kind(payload.next) # "try" /\ payload.next \in Int
  <2>1. CASE Kind(first) = "try" /\ Kind(first + 1) # "{"
    <3>1. payload = TryExpression(first) /\ Kind(first) # "EndOfFile"
      BY <2>1
    <3> HIDE DEF payload, first
    <3> QED
      BY <1>1, <3>1, TryExpressionLeaves, TryExpressionSpans DEF Spans
  <2>2. CASE ~(Kind(first) = "try" /\ Kind(first + 1) # "{")
    <3>1. payload.next = end
      BY <2>2 DEF Parsed
    <3> HIDE DEF payload, end
    <3> QED
      BY <1>1, <3>1
  <2> QED
    BY <2>1, <2>2
<1>4. /\ FailStatement(at).next = AfterSemicolon(payload.next)
      /\ ReturnStatement(at).next = AfterSemicolon(end)
      /\ FailureSpecification(at).next = FailureTypeEnd(first)
      /\ \A declaration :
           TryInitialization(declaration, at).next = AfterSemicolon(TryExpression(at).next)
  BY DEF FailStatement, ReturnStatement, FailureSpecification, TryInitialization, Parsed
<1> HIDE DEF payload, end, first
<1>5. Leaves(AfterSemicolon(payload.next)) /\ Leaves(AfterSemicolon(end))
      /\ Leaves(AfterSemicolon(TryExpression(at).next)) /\ Leaves(TryExpression(at).next)
  BY <1>1, <1>2, <1>3, LeavesAfterSemicolon
<1>6. Leaves(FailureTypeEnd(first))
  BY <1>1 DEF Leaves
<1> QED
  BY <1>4, <1>5, <1>6

-----------------------------------------------------------------------------
(* What is read at a token depends on nothing but the tokens.              *)

LEMMA KindsStay ==
  ASSUME tokens' = tokens
  PROVE  /\ \A i : Kind(i)' = Kind(i)
         /\ \A k, i, j : CountOf(k, i, j)' = CountOf(k, i, j)
         /\ \A o, c, i, j : Depth(o, c, i, j)' = Depth(o, c, i, j)
         /\ \A i, j : RangeOfTokens(i, j)' = RangeOfTokens(i, j)
         /\ \A i, j : CxxRegion(i, j)' = CxxRegion(i, j)
<1>1. \A i : Kind(i)' = Kind(i)
  BY DEF Kind
<1>2. \A k, i, j : CountOf(k, i, j)' = CountOf(k, i, j)
  BY <1>1 DEF CountOf
<1>3. \A o, c, i, j : Depth(o, c, i, j)' = Depth(o, c, i, j)
  BY <1>2 DEF Depth
<1>4. \A i, j : RangeOfTokens(i, j)' = RangeOfTokens(i, j)
  BY DEF RangeOfTokens
<1>5. \A i, j : CxxRegion(i, j)' = CxxRegion(i, j)
  BY <1>4 DEF CxxRegion
<1> QED
  BY <1>1, <1>2, <1>3, <1>4, <1>5

LEMMA ScansStay ==
  ASSUME tokens' = tokens
  PROVE  /\ \A i, stops : ScanOpaqueRegion(i, stops)' = ScanOpaqueRegion(i, stops)
         /\ \A i : MatchingRightParen(i)' = MatchingRightParen(i)
         /\ \A i, j : IsDirectCall(i, j)' <=> IsDirectCall(i, j)
<1>1. \A f, i : (Outer(f, i)' <=> Outer(f, i)) /\ (Unmatched(f, i)' <=> Unmatched(f, i))
  <2>1. \A f, i : (ZeroDepths(f, i)' <=> ZeroDepths(f, i)) /\ (Closing(f, i)' <=> Closing(f, i))
    <3>1. /\ \A i : Kind(i)' = Kind(i)
          /\ \A o, c, i, j : Depth(o, c, i, j)' = Depth(o, c, i, j)
      BY KindsStay
    <3>2. ASSUME NEW f, NEW i
          PROVE  (ZeroDepths(f, i)' <=> ZeroDepths(f, i)) /\ (Closing(f, i)' <=> Closing(f, i))
      <4>1. /\ Kind(i)' = Kind(i)
            /\ Depth("(", ")", f, i)' = Depth("(", ")", f, i)
            /\ Depth("[", "]", f, i)' = Depth("[", "]", f, i)
            /\ Depth("{", "}", f, i)' = Depth("{", "}", f, i)
        BY <3>1
      <4> QED
        BY <4>1 DEF ZeroDepths, Closing
    <3> QED
      BY <3>2
  <2>2. (\A first, i : /\ Outer(first, i) <=> ZeroDepths(first, i)
                       /\ Unmatched(first, i) <=> Closing(first, i))'
    BY OuterParts, PTL
  <2> QED
    BY <2>1, <2>2, OuterParts
<1>2. \A i : AtEnd(i)' <=> AtEnd(i)
  BY DEF AtEnd
<1>3. \A i, stops : ScanOpaqueRegion(i, stops)' = ScanOpaqueRegion(i, stops)
  <2> SUFFICES ASSUME NEW first, NEW stops
               PROVE  ScanOpaqueRegion(first, stops)' = ScanOpaqueRegion(first, stops)
    OBVIOUS
  <2> DEFINE Stops(i) == \/ AtEnd(i)
                         \/ Outer(first, i) /\ Kind(i) \in stops
                         \/ Unmatched(first, i)
  <2>1. \A i : Stops(i)' <=> Stops(i)
    BY <1>1, <1>2, KindsStay
  <2>2. {i \in first..Len(tokens) : Stops(i)}' = {i \in first..Len(tokens) : Stops(i)}
    <3> HIDE DEF Stops
    <3> QED
      BY <2>1
  <2> QED
    BY <2>2 DEF ScanOpaqueRegion
<1>4. \A i : MatchingRightParen(i)' = MatchingRightParen(i)
  <2> SUFFICES ASSUME NEW opening
               PROVE  MatchingRightParen(opening)' = MatchingRightParen(opening)
    OBVIOUS
  <2> DEFINE Closes(i) == Kind(i) = ")" /\ Depth("(", ")", opening, i + 1) = 0
             closes == {i \in opening..Len(tokens) : Closes(i)}
  <2>1. \A i : Closes(i)' <=> Closes(i)
    BY KindsStay
  <2>2. closes' = closes
    <3> HIDE DEF Closes
    <3> QED
      BY <2>1
  <2>3. MatchingRightParen(opening)
          = IF Kind(opening) # "(" \/ closes = {} THEN NotFound ELSE Min(closes)
    BY DEF MatchingRightParen
  <2>4. MatchingRightParen(opening)'
          = IF Kind(opening)' # "(" \/ closes' = {} THEN NotFound' ELSE Min(closes')
    BY DEF MatchingRightParen
  <2>5. NotFound' = NotFound /\ Kind(opening)' = Kind(opening)
    BY KindsStay DEF NotFound
  <2> HIDE DEF closes
  <2> QED
    BY <2>2, <2>3, <2>4, <2>5
<1>5. \A i, j : IsDirectCall(i, j)' <=> IsDirectCall(i, j)
  BY <1>4, KindsStay DEF IsDirectCall
<1> QED
  BY <1>3, <1>4, <1>5

LEMMA TriesStay ==
  ASSUME tokens' = tokens
  PROVE  \A at : TryExpression(at)' = TryExpression(at)
<1> SUFFICES ASSUME NEW at PROVE TryExpression(at)' = TryExpression(at)
  OBVIOUS
<1>1. \A kind, i, j, children : Node(kind, RangeOfTokens(i, j)', children)
                               = Node(kind, RangeOfTokens(i, j), children)
  BY KindsStay
<1> QED
  BY <1>1, KindsStay, ScansStay DEF TryExpression

\* The tree is read alike before and after a step.
LEMMA ChildReadStays ==
  ASSUME tokens' = tokens
  PROVE  /\ \A node : Visited(node)' <=> Visited(node)
         /\ \A node : Unvisited(node)' <=> Unvisited(node)
         /\ \A node : ChildRead(node)' <=> ChildRead(node)
<1>1. \A node, at : ReadAt(node, at)' <=> ReadAt(node, at)
  BY TriesStay, KindsStay DEF ReadAt
<1>2. \A node : Visited(node)' <=> Visited(node)
  BY <1>1, KindsStay DEF Visited
<1>3. \A node : Unvisited(node)' <=> Unvisited(node)
  BY <1>1, KindsStay DEF Unvisited
<1>4. \A node : ChildRead(node)' <=> ChildRead(node)
  BY <1>2, <1>3 DEF ChildRead
<1> QED
  BY <1>2, <1>3, <1>4

LEMMA FunctionReadStays ==
  ASSUME tokens' = tokens
  PROVE  /\ \A nodes : FunctionRead(nodes)' <=> FunctionRead(nodes)
         /\ \A nodes : UnitRead(nodes)' <=> UnitRead(nodes)
<1>1. \A nodes : FunctionRead(nodes)' <=> FunctionRead(nodes)
  BY ChildReadStays DEF FunctionRead, NamedOnce, ConstructsFollow
<1> QED
  BY <1>1 DEF UnitRead

-----------------------------------------------------------------------------
(* The nodes the parser pushes.                                            *)

\* Nodes of a function body.
BodyRead(nodes) ==
  /\ IsList(nodes)
  /\ \A k \in 1..Len(nodes) :
       /\ ChildRead(nodes[k])
       /\ nodes[k].kind \in Demanding \cup {"CxxRegion", "Invalid"}

LEMMA OthersAreRead ==
  ASSUME NEW node, node.kind \notin {"TryExpression", "TryInitialization", "FailStatement"}
  PROVE  ChildRead(node)
BY DEF ChildRead

LEMMA TryIsRead ==
  ASSUME NEW at \in 2..Len(tokens), Kind(at) # "EndOfFile", Kind(at-1) # "fail"
  PROVE  /\ ChildRead(TryExpression(at).node)
         /\ \A declaration : ChildRead(TryInitialization(declaration, at).node)
<1> DEFINE node == TryExpression(at).node
<1>1. Visited(node)
  BY DEF Visited, ReadAt
<1>2. node.kind = "TryExpression"
  BY TryExpressionChecked DEF Checked
<1>3. ASSUME NEW declaration
      PROVE  ChildRead(TryInitialization(declaration, at).node)
  <2> DEFINE whole == TryInitialization(declaration, at).node
             region == CxxRegion(declaration, at - 1)
  <2>1. \E range : whole = Node("TryInitialization", range, <<region, node>>)
    BY DEF TryInitialization, Parsed
  <2> HIDE DEF whole, region, node
  <2>2. whole.kind = "TryInitialization" /\ whole.children = <<region, node>>
    BY <2>1 DEF Node
  <2>3. whole.children[2] = node
    BY <2>2
  <2> QED
    BY <1>1, <2>2, <2>3 DEF ChildRead, whole
<1> HIDE DEF node
<1>4. ChildRead(node)
  BY <1>1, <1>2 DEF ChildRead
<1> QED
  BY <1>3, <1>4 DEF node

LEMMA FailIsRead ==
  ASSUME IsTokenStream(tokens), NEW at \in 1..Len(tokens), Kind(at) = "fail"
  PROVE  ChildRead(FailStatement(at).node)
<1> DEFINE first == at + 1
           end == ScanOpaqueRegion(first, StatementStops)
           payload == IF Kind(first) = "try" /\ Kind(first + 1) # "{"
                      THEN TryExpression(first)
                      ELSE Parsed(CxxRegion(first, end), end, <<>>)
           node == FailStatement(at).node
           children == NoChildIf(payload.next = first, payload.node)
<1>1. \E range : node = Node("FailStatement", range, children)
  BY DEF FailStatement, Parsed
<1>2. first \in 2..Len(tokens) /\ first - 1 = at
  BY NextToken
<1>3. payload.node.kind = "TryExpression" => Unvisited(payload.node)
  <2>1. CASE Kind(first) = "try" /\ Kind(first + 1) # "{"
    <3>1. payload.node = TryExpression(first).node /\ Kind(first) # "EndOfFile"
      BY <2>1
    <3> HIDE DEF payload, first
    <3>2. ReadAt(payload.node, first)
      BY <1>2, <3>1 DEF ReadAt
    <3> QED
      BY <1>2, <3>2 DEF Unvisited
  <2>2. CASE ~(Kind(first) = "try" /\ Kind(first + 1) # "{")
    <3>1. payload.node = CxxRegion(first, end)
      BY <2>2 DEF Parsed
    <3> HIDE DEF payload, first, end
    <3> QED
      BY <3>1, RegionIsNoConstruct
  <2> QED
    BY <2>1, <2>2
<1> HIDE DEF payload, first, end
<1>4. \A k \in 1..Len(children) : children[k] = payload.node
  BY ChildUnless
<1> HIDE DEF node, children
<1>5. node.kind = "FailStatement" /\ node.children = children
  BY <1>1 DEF Node
<1>6. ChildRead(node)
  BY <1>3, <1>4, <1>5 DEF ChildRead
<1> QED
  BY <1>6 DEF node

LEMMA ConstructIsRead ==
  ASSUME IsTokenStream(tokens), NEW at \in 2..Len(tokens), StartsConstruct(at),
         Kind(at) = "try" => Kind(at-1) # "fail"
  PROVE  ChildRead(Construct(at).node)
<1>1. Kind(at) \in {"fail", "fails", "try"}
  BY DEF StartsConstruct
<1>2. at \in 1..Len(tokens)
  BY StreamFacts
<1>3. CASE Kind(at) = "fail"
  BY <1>2, <1>3, FailIsRead DEF Construct
<1>4. CASE Kind(at) = "fails"
  <2>1. FailureSpecification(at).node.kind = "FailureSpecification"
    BY <1>2, <1>4, FailureSpecificationChecked DEF Checked
  <2>2. Construct(at) = FailureSpecification(at)
    BY <1>4 DEF Construct
  <2> QED
    BY <2>1, <2>2, OthersAreRead
<1>5. CASE Kind(at) = "try"
  <2>1. Construct(at) = TryExpression(at)
    BY <1>5 DEF Construct
  <2> QED
    BY <1>5, <2>1, TryIsRead
<1> QED
  BY <1>1, <1>3, <1>4, <1>5

-----------------------------------------------------------------------------
(* The lists they are pushed to.                                           *)

LEMMA FunctionReadExtends ==
  ASSUME NEW s, NEW t, FunctionRead(s), BodyRead(t),
         \A k \in 1..Len(t) : t[k].kind \in Demanding =>
           \/ \E h \in 1..Len(s) : s[h].kind = "FailureSpecification"
           \/ t[k].kind = "FailureSpecification"
  PROVE  FunctionRead(s \o t)
<1> DEFINE both == s \o t
<1>1. /\ IsList(both) /\ Len(s) \in Nat /\ Len(t) \in Nat
      /\ Len(both) = Len(s) + Len(t)
      /\ \A k \in 1..Len(s) : both[k] = s[k]
      /\ \A k \in 1..Len(t) : both[Len(s) + k] = t[k]
  BY ConcatOfLists DEF FunctionRead, BodyRead
<1> HIDE DEF both
<1>2. \A k \in 1..Len(both) :
        \/ k \in 1..Len(s) /\ both[k] = s[k]
        \/ k > Len(s) /\ \E l \in 1..Len(t) : both[k] = t[l]
  <2> SUFFICES ASSUME NEW k \in 1..Len(both), k \notin 1..Len(s)
               PROVE  k > Len(s) /\ \E l \in 1..Len(t) : both[k] = t[l]
    BY <1>1
  <2>1. k - Len(s) \in 1..Len(t) /\ Len(s) + (k - Len(s)) = k /\ k > Len(s)
    BY <1>1
  <2> QED
    BY <1>1, <2>1
<1>3. \A k \in 1..Len(s) : k \in 1..Len(both)
  BY <1>1
<1>4. \A k \in 1..Len(both) : ChildRead(both[k])
  BY <1>2 DEF FunctionRead, BodyRead
<1>5. NamedOnce(both)
  <2>1. ASSUME NEW i \in 1..Len(both), both[i].kind = "FunctionName"
        PROVE  i \in 1..Len(s) /\ s[i].kind = "FunctionName"
    <3>1. ASSUME NEW l \in 1..Len(t) PROVE t[l].kind # "FunctionName"
      BY DEF BodyRead, Demanding
    <3> QED
      BY <1>2, <2>1, <3>1
  <2>2. ASSUME NEW i \in 1..Len(both), NEW j \in 1..Len(both),
               both[i].kind = "FunctionName", both[j].kind = "FunctionName"
        PROVE  /\ i = j
               /\ \E k \in 1..Len(both) : both[k].kind = "FunctionReturnType"
               /\ \E k \in 1..Len(both) : both[k].kind = "FunctionDeclarator"
    <3>1. /\ i \in 1..Len(s) /\ s[i].kind = "FunctionName"
          /\ j \in 1..Len(s) /\ s[j].kind = "FunctionName"
      BY <2>1, <2>2
    <3>2. /\ i = j
          /\ \E k \in 1..Len(s) : s[k].kind = "FunctionReturnType"
          /\ \E k \in 1..Len(s) : s[k].kind = "FunctionDeclarator"
      BY <3>1 DEF FunctionRead, NamedOnce
    <3> QED
      BY <1>1, <1>3, <3>2
  <2> QED
    BY <2>2 DEF NamedOnce
<1>6. ConstructsFollow(both)
  <2>1. ASSUME NEW k \in 1..Len(both), both[k].kind \in Demanding
        PROVE  \E h \in 1..k : both[h].kind = "FailureSpecification"
    <3>1. CASE k \in 1..Len(s)
      <4>1. both[k] = s[k]
        BY <1>1, <3>1
      <4>2. PICK h \in 1..k : s[h].kind = "FailureSpecification"
        BY <2>1, <3>1, <4>1 DEF FunctionRead, ConstructsFollow
      <4>3. h \in 1..Len(s)
        BY <1>1, <3>1, <4>2
      <4>4. both[h] = s[h]
        BY <1>1, <4>3
      <4> QED
        BY <4>2, <4>4
    <3>2. CASE k \notin 1..Len(s)
      <4>1. k > Len(s) /\ \E l \in 1..Len(t) : both[k] = t[l]
        BY <1>2, <3>2
      <4>2. CASE both[k].kind = "FailureSpecification"
        <5>1. k \in 1..k
          BY <1>1
        <5> QED
          BY <4>2, <5>1
      <4>3. CASE both[k].kind # "FailureSpecification"
        <5>1. PICK h \in 1..Len(s) : s[h].kind = "FailureSpecification"
          BY <2>1, <4>1, <4>3
        <5>2. h \in 1..k /\ both[h] = s[h]
          BY <1>1, <4>1, <5>1
        <5> QED
          BY <5>1, <5>2
      <4> QED
        BY <4>2, <4>3
    <3> QED
      BY <3>1, <3>2
  <2> QED
    BY <2>1 DEF ConstructsFollow
<1> QED
  BY <1>1, <1>4, <1>5, <1>6 DEF FunctionRead, both

LEMMA BodyReadConcat ==
  ASSUME NEW s, NEW t, BodyRead(s), BodyRead(t)
  PROVE  BodyRead(s \o t)
<1> DEFINE both == s \o t
<1>1. /\ IsList(both) /\ Len(s) \in Nat /\ Len(t) \in Nat
      /\ Len(both) = Len(s) + Len(t)
      /\ \A k \in 1..Len(s) : both[k] = s[k]
      /\ \A k \in 1..Len(t) : both[Len(s) + k] = t[k]
  BY ConcatOfLists DEF BodyRead
<1> HIDE DEF both
<1>2. ASSUME NEW k \in 1..Len(both)
      PROVE  (\E l \in 1..Len(s) : both[k] = s[l]) \/ (\E l \in 1..Len(t) : both[k] = t[l])
  <2>1. CASE k \in 1..Len(s)
    BY <1>1, <2>1
  <2>2. CASE k \notin 1..Len(s)
    <3>1. k - Len(s) \in 1..Len(t) /\ Len(s) + (k - Len(s)) = k
      BY <1>1, <2>2
    <3> QED
      BY <1>1, <3>1
  <2> QED
    BY <2>1, <2>2
<1>3. \A k \in 1..Len(both) :
        ChildRead(both[k]) /\ both[k].kind \in Demanding \cup {"CxxRegion", "Invalid"}
  BY <1>2 DEF BodyRead
<1> QED
  BY <1>1, <1>3 DEF BodyRead, both

LEMMA BodyReadOne ==
  ASSUME NEW node, ChildRead(node), node.kind \in Demanding \cup {"CxxRegion", "Invalid"}
  PROVE  BodyRead(<<node>>)
BY SingletonList DEF BodyRead

LEMMA OpenRegionIsRead ==
  ASSUME NEW end
  PROVE  BodyRead(OpenRegion(end))
<1> DEFINE region == CxxRegion(function.regionBegin, end)
<1>1. region.kind \in {"CxxRegion", "Invalid"}
  BY RegionIsNoConstruct
<1>2. ChildRead(region)
  BY <1>1, OthersAreRead
<1>3. BodyRead(<<region>>)
  BY <1>1, <1>2, BodyReadOne
<1>4. BodyRead(<<>>)
  BY EmptyList DEF BodyRead
<1> QED
  BY <1>3, <1>4 DEF OpenRegion, NoChildIf

\* The children of a function before its failure specification.
LEMMA HeaderIsRead ==
  ASSUME NEW prefix, prefix.kind = "CxxRegion", NEW at
  PROVE  FunctionRead(Header(prefix, at).children)
<1> DEFINE first == PrefixBegin(prefix, at)
           open == IF first < at THEN MatchingLeftParen(at - 1) ELSE NotFound
           begin == DeclarationBegin(first, open)
           type == Node("FunctionReturnType", RangeOfTokens(begin, open - 1), <<>>)
           name == Node("FunctionName", RangeOfTokens(open - 1, open), <<>>)
           named == NoChildIf(~HasSupportedFunctionName(begin, open), name)
           declarator == Node("FunctionDeclarator", RangeOfTokens(open - 1, at), <<>>)
           nodes == Header(prefix, at).children
<1>1. AllOther(nodes)
  BY HeaderHasNoConstruct
<1>2. NamedOnce(nodes)
  <2>1. CASE open \in {NotFound, first}
    <3>1. nodes = <<prefix>>
      BY <2>1 DEF Header
    <3> HIDE DEF nodes
    <3>2. \A k \in 1..Len(nodes) : nodes[k].kind # "FunctionName"
      BY <3>1, SingletonList
    <3> QED
      BY <3>2 DEF NamedOnce
  <2>2. CASE open \notin {NotFound, first}
    <3>1. nodes = (<<type>> \o named) \o <<declarator>>
      BY <2>2 DEF Header
    <3>2. type.kind = "FunctionReturnType" /\ declarator.kind = "FunctionDeclarator"
      BY DEF Node
    <3>3. named = <<>> \/ named = <<name>>
      BY DEF NoChildIf
    <3> HIDE DEF type, name, declarator, named, nodes
    <3>4. IsList(<<type>>) /\ Len(<<type>>) = 1 /\ <<type>>[1] = type
      BY SingletonList
    <3>5. CASE named = <<>>
      <4>1. <<type>> \o named = <<type>>
        BY <3>4, <3>5, NothingAppended
      <4>2. /\ Len(nodes) = 2 /\ nodes[1] = type /\ nodes[2] = declarator
        BY <3>1, <3>4, <4>1, PushedElement
      <4>3. \A k \in 1..Len(nodes) : nodes[k].kind # "FunctionName"
        <5>1. \A k \in 1..2 : k = 1 \/ k = 2
          OBVIOUS
        <5> QED
          BY <3>2, <4>2, <5>1
      <4> QED
        BY <4>3 DEF NamedOnce
    <3>6. CASE named = <<name>>
      <4> DEFINE two == <<type>> \o <<name>>
      <4>1. IsList(two) /\ Len(two) = 2 /\ two[1] = type /\ two[2] = name
        BY <3>4, PushedElement
      <4>2. nodes = two \o <<declarator>>
        BY <3>1, <3>6
      <4> HIDE DEF two
      <4>3. /\ Len(nodes) = 3 /\ nodes[1] = type /\ nodes[2] = name /\ nodes[3] = declarator
        <5>1. /\ Len(nodes) = Len(two) + 1 /\ nodes[Len(two) + 1] = declarator
              /\ \A k \in 1..Len(two) : nodes[k] = two[k]
          <6>1. IsList(two)
            BY <4>1
          <6> DEFINE three == two \o <<declarator>>
          <6>2. /\ Len(three) = Len(two) + 1 /\ three[Len(two) + 1] = declarator
                /\ \A k \in 1..Len(two) : three[k] = two[k]
            BY <6>1, PushedElement
          <6> HIDE DEF three
          <6>3. nodes = three
            BY <4>2 DEF three
          <6> QED
            BY <6>2, <6>3
        <5>2. 1 \in 1..Len(two) /\ 2 \in 1..Len(two)
          BY <4>1
        <5> QED
          BY <4>1, <5>1, <5>2
      <4>4. \A k \in 1..Len(nodes) : nodes[k].kind = "FunctionName" => k = 2
        <5>1. \A k \in 1..3 : k = 1 \/ k = 2 \/ k = 3
          OBVIOUS
        <5> QED
          BY <3>2, <4>3, <5>1
      <4>5. /\ \E k \in 1..Len(nodes) : nodes[k].kind = "FunctionReturnType"
            /\ \E k \in 1..Len(nodes) : nodes[k].kind = "FunctionDeclarator"
        <5>1. 1 \in 1..Len(nodes) /\ 3 \in 1..Len(nodes)
          BY <4>3
        <5> QED
          BY <3>2, <4>3, <5>1
      <4> QED
        BY <4>4, <4>5 DEF NamedOnce
    <3> QED
      BY <3>3, <3>5, <3>6
  <2> QED
    BY <2>1, <2>2
<1> HIDE DEF nodes
<1>3. \A k \in 1..Len(nodes) : ChildRead(nodes[k])
  BY <1>1, OthersAreRead DEF AllOther, Demanding
<1>4. ConstructsFollow(nodes)
  BY <1>1 DEF AllOther, ConstructsFollow
<1> QED
  BY <1>1, <1>2, <1>3, <1>4 DEF FunctionRead, AllOther, nodes

-----------------------------------------------------------------------------
(* Top-level nodes.                                                        *)

LEMMA UnitReadConcat ==
  ASSUME NEW s, NEW t, UnitRead(s), UnitRead(t)
  PROVE  UnitRead(s \o t)
<1> DEFINE both == s \o t
           Fine(node) == node.kind = "FunctionDeclaration" => FunctionRead(node.children)
<1>1. /\ IsList(both) /\ Len(s) \in Nat /\ Len(t) \in Nat
      /\ Len(both) = Len(s) + Len(t)
      /\ \A k \in 1..Len(s) : both[k] = s[k]
      /\ \A k \in 1..Len(t) : both[Len(s) + k] = t[k]
  BY ConcatOfLists DEF UnitRead
<1>2. (\A k \in 1..Len(s) : Fine(s[k])) /\ (\A k \in 1..Len(t) : Fine(t[k]))
  BY DEF UnitRead
<1> HIDE DEF both, Fine
<1>3. ASSUME NEW k \in 1..Len(both) PROVE Fine(both[k])
  <2>1. CASE k \in 1..Len(s)
    BY <1>1, <1>2, <2>1
  <2>2. CASE k \notin 1..Len(s)
    <3>1. k - Len(s) \in 1..Len(t) /\ Len(s) + (k - Len(s)) = k
      BY <1>1, <2>2
    <3>2. both[k] = t[k - Len(s)]
      BY <1>1, <3>1
    <3> QED
      BY <1>2, <3>1, <3>2
  <2> QED
    BY <2>1, <2>2
<1> QED
  BY <1>1, <1>3 DEF UnitRead, both, Fine

LEMMA UnitReadOne ==
  ASSUME NEW node, node.kind = "FunctionDeclaration" => FunctionRead(node.children)
  PROVE  UnitRead(<<node>>)
BY SingletonList DEF UnitRead

LEMMA NoneRead == UnitRead(<<>>)
BY EmptyList DEF UnitRead

\* The region before a function declaration.
LEMMA BeforeIsRead ==
  ASSUME NEW prefix, NEW at
  PROVE  UnitRead(Header(prefix, at).before)
<1> DEFINE first == PrefixBegin(prefix, at)
           open == IF first < at THEN MatchingLeftParen(at - 1) ELSE NotFound
           region == CxxRegion(first, DeclarationBegin(first, open))
           before == Header(prefix, at).before
<1>1. before = <<>> \/ before = <<region>>
  BY DEF Header, NoChildIf
<1>2. region.kind # "FunctionDeclaration"
  BY RegionIsNoConstruct
<1> HIDE DEF before, region
<1>3. UnitRead(<<region>>)
  BY <1>2, UnitReadOne
<1> QED
  BY <1>1, <1>3, NoneRead DEF before

\* What was read stays read in the next state.
LEMMA ListNow ==
  ASSUME tokens' = tokens
  PROVE  /\ UnitRead(unit') => UnitRead(unit)'
         /\ UnitRead(pending') => UnitRead(pending)'
         /\ UnitRead(unit'.children) => UnitRead(unit.children)'
         /\ FunctionRead(function'.children) => FunctionRead(function.children)'
<1>1. \A x : (UnitRead(x) => UnitRead(x)') /\ (FunctionRead(x) => FunctionRead(x)')
  BY FunctionReadStays
<1>2. ASSUME UnitRead(unit') PROVE UnitRead(unit)'
  <2>1. PICK x : x = unit'
    OBVIOUS
  <2>2. UnitRead(x)'
    BY <1>1, <1>2, <2>1
  <2> QED
    BY <2>1, <2>2 DEF UnitRead
<1>3. ASSUME UnitRead(pending') PROVE UnitRead(pending)'
  <2>1. PICK x : x = pending'
    OBVIOUS
  <2>2. UnitRead(x)'
    BY <1>1, <1>3, <2>1
  <2> QED
    BY <2>1, <2>2 DEF UnitRead
<1>4. ASSUME UnitRead(unit'.children) PROVE UnitRead(unit.children)'
  <2>1. PICK x : x = unit'.children
    OBVIOUS
  <2>2. UnitRead(x)'
    BY <1>1, <1>4, <2>1
  <2> QED
    BY <2>1, <2>2 DEF UnitRead
<1>5. ASSUME FunctionRead(function'.children) PROVE FunctionRead(function.children)'
  <2>1. PICK x : x = function'.children
    OBVIOUS
  <2>2. FunctionRead(x)'
    BY <1>1, <1>5, <2>1
  <2> QED
    BY <2>1, <2>2 DEF FunctionRead
<1> QED
  BY <1>2, <1>3, <1>4, <1>5

-----------------------------------------------------------------------------
(* Every step reads the tries it pushes.                                   *)

LEMMA LeavesNow ==
  ASSUME tokens' = tokens, Leaves(position')
  PROVE  Leaves(position)'
BY DEF Leaves, Kind

LEMMA PushIsRead ==
  ASSUME tokens' = tokens, UnitRead(unit), NEW before, UnitRead(before),
         NEW node, node.kind = "FunctionDeclaration" => FunctionRead(node.children),
         PushTopLevel(before, node)
  PROVE  TriesInv'
<1>1. /\ unit' = unit \o before \o (IF node.kind = "Invalid" THEN <<>> ELSE <<node>>)
      /\ phase' = "unit"
  BY DEF PushTopLevel
<1> DEFINE flushed == unit \o before
           pushed == IF node.kind = "Invalid" THEN <<>> ELSE <<node>>
<1>2. UnitRead(flushed)
  BY UnitReadConcat
<1>3. UnitRead(pushed)
  BY UnitReadOne, NoneRead
<1>4. UnitRead(flushed \o pushed)
  <2> HIDE DEF flushed, pushed
  <2> QED
    BY <1>2, <1>3, UnitReadConcat
<1>5. UnitRead(unit)'
  BY <1>1, <1>4, ListNow
<1> QED
  BY <1>1, <1>5 DEF TriesInv

LEMMA SpecificationInBody ==
  ASSUME TreeInv, phase = "body"
  PROVE  \E h \in 1..Len(function.children) :
           function.children[h].kind = "FailureSpecification"
BY DEF TreeInv, FunctionGood, Ordered, Headed

LEMMA BodyPushIsRead ==
  ASSUME IInv, TreeInv, TriesInv, InBody, NEW end, NEW parsed, ChildRead(parsed.node),
         parsed.node.kind \in Demanding, parsed.next > 1, Leaves(parsed.next),
         PushBodyConstruct(end, parsed)
  PROVE  TriesInv'
<1>1. phase = "body" /\ FunctionIsRecord
  BY DEF IInv, InBody
<1> DEFINE more == OpenRegion(end) \o <<parsed.node>>
           longer == function.children \o more
<1>2. /\ UNCHANGED <<tokens, phase, unit, pending>> /\ position' = parsed.next
      /\ function' = [function EXCEPT !.children = longer, !.regionBegin = parsed.next]
  BY DEF PushBodyConstruct, WithChildren
<1>3. BodyRead(more)
  <2>1. BodyRead(OpenRegion(end)) /\ BodyRead(<<parsed.node>>)
    BY OpenRegionIsRead, BodyReadOne
  <2> QED
    BY <2>1, BodyReadConcat
<1> HIDE DEF more
<1>4. FunctionRead(longer)
  <2>1. FunctionRead(function.children)
    BY <1>1 DEF TriesInv
  <2> QED
    BY <1>1, <1>3, <2>1, SpecificationInBody, FunctionReadExtends
<1> HIDE DEF longer
<1>5. function' = [children |-> longer, range |-> function.range,
                   bodyBegin |-> function.bodyBegin, regionBegin |-> parsed.next,
                   braceDepth |-> function.braceDepth]
  BY <1>1, <1>2 DEF FunctionIsRecord
<1>6. function'.children = longer
  BY <1>5
<1>7. UnitRead(unit)' /\ UnitRead(pending)' /\ FunctionRead(function.children)'
  BY <1>1, <1>2, <1>4, <1>6, ListNow DEF TriesInv
<1>8. position' > 1 /\ Leaves(position)'
  BY <1>2, LeavesNow
<1> QED
  BY <1>1, <1>2, <1>7, <1>8 DEF TriesInv

LEMMA HeaderKeepsTries ==
  ASSUME IInv, TriesInv, ParseFunctionHeader
  PROVE  TriesInv'
<1> DEFINE region == TopLevelRegion(position)
           at == region.next
           header == Header(region.node, at)
           specification == FailureSpecification(at)
           children == Append(header.children, specification.node)
<1>1. /\ phase = "unit" /\ ~AtEnd(position) /\ ~StartsConstruct(position)
      /\ Kind(at) = "fails" /\ tokens' = tokens
      /\ IF Kind(specification.next) = "{" THEN OpenBody(header, specification)
                                           ELSE DeclareOnly(header, specification)
  BY DEF ParseFunctionHeader
<1>2. IsTokenStream(tokens) /\ at \in position+1..Len(tokens) /\ position \in 1..Len(tokens)
  BY <1>1, RegionAdvances DEF IInv, ParserTypeOK
<1>3. region.node.kind = "CxxRegion"
  BY DEF TopLevelRegion, Parsed, Node
<1> HIDE DEF region, at
<1>4. at \in 1..Len(tokens) /\ Kind(at) # "EndOfFile"
  <2>1. Kind(at) # "EndOfFile"
    BY <1>1
  <2>2. Len(tokens) \in Nat
    BY <1>2, StreamFacts
  <2> QED
    BY <1>2, <2>1, <2>2
<1>5. UnitRead(header.before) /\ FunctionRead(header.children)
  BY <1>3, BeforeIsRead, HeaderIsRead
<1>6. specification.node.kind = "FailureSpecification" /\ specification.next \in 1..Len(tokens)
  <2>1. specification.node.kind = "FailureSpecification"
    BY <1>2, <1>4, FailureSpecificationChecked DEF Checked
  <2>2. specification.next \in at+1..Len(tokens)
    BY <1>2, <1>4, FailureSpecificationSpans DEF Spans
  <2> QED
    BY <1>4, <2>1, <2>2
<1> HIDE DEF header, specification
<1>7. FunctionRead(children)
  <2>1. children = header.children \o <<specification.node>>
    BY <1>5, AppendIsConcat DEF FunctionRead, IsList
  <2>2. BodyRead(<<specification.node>>)
    BY <1>6, OthersAreRead, BodyReadOne DEF Demanding
  <2>3. \A k \in 1..Len(<<specification.node>>) :
          <<specification.node>>[k].kind = "FailureSpecification"
    BY <1>6, SingletonList
  <2> QED
    BY <1>5, <2>1, <2>2, <2>3, FunctionReadExtends
<1> HIDE DEF children
<1>8. CASE Kind(specification.next) = "{"
  <2>1. /\ phase' = "body" /\ pending' = header.before /\ unit' = unit
        /\ function'.children = children /\ position' = specification.next + 1
    <3>1. OpenBody(header, specification)
      BY <1>1, <1>8
    <3>2. /\ phase' = "body" /\ pending' = header.before /\ unit' = unit
          /\ position' = specification.next + 1
          /\ \E x, y, z : function' = [children |-> children, range |-> header.range,
                                     bodyBegin |-> x, regionBegin |-> y, braceDepth |-> z]
      BY <3>1 DEF OpenBody, children
    <3> QED
      BY <3>2
  <2>2. UnitRead(unit)' /\ UnitRead(pending)' /\ FunctionRead(function.children)'
    BY <1>1, <1>5, <1>7, <2>1, ListNow DEF TriesInv
  <2>3. position' > 1 /\ position' - 1 = specification.next
    BY <1>6, <2>1
  <2>4. Kind(position' - 1) # "fail"
    BY <1>8, <2>3
  <2>5. Leaves(position)'
    BY <1>1, <2>4, LeavesNow DEF Leaves
  <2> QED
    BY <2>1, <2>2, <2>3, <2>5 DEF TriesInv
<1>9. CASE Kind(specification.next) # "{"
  <2>1. PICK range : PushTopLevel(header.before, Node("FunctionDeclaration", range, children))
    BY <1>1, <1>9 DEF DeclareOnly, children
  <2>2. Node("FunctionDeclaration", range, children).children = children
    BY DEF Node
  <2> QED
    BY <1>1, <1>5, <1>7, <2>1, <2>2, PushIsRead DEF TriesInv
<1> QED
  BY <1>8, <1>9

LEMMA ScanKeepsTries ==
  ASSUME IInv, TriesInv, ScanBodyToken
  PROVE  TriesInv'
<1>1. /\ phase = "body" /\ UNCHANGED <<tokens, phase, unit, pending>>
      /\ position' = position + 1 /\ ~StartsConstruct(position)
      /\ \E depth : function' = [function EXCEPT !.braceDepth = depth]
  BY DEF ScanBodyToken, InBody
<1>2. PICK depth : function' = [function EXCEPT !.braceDepth = depth]
  BY <1>1
<1>3. FunctionIsRecord
  BY DEF IInv
<1>4. function' = [children |-> function.children, range |-> function.range,
                   bodyBegin |-> function.bodyBegin, regionBegin |-> function.regionBegin,
                   braceDepth |-> depth]
  BY <1>2, <1>3 DEF FunctionIsRecord
<1>5. function'.children = function.children
  BY <1>4
<1>6. UnitRead(unit)' /\ UnitRead(pending)' /\ FunctionRead(function.children)'
  BY <1>1, <1>5, ListNow DEF TriesInv
<1>7. position \in Nat /\ position > 1
  BY <1>1 DEF TriesInv, IInv, ParserTypeOK
<1>8. position' > 1 /\ position' - 1 = position
  BY <1>1, <1>7
<1>9. Kind(position' - 1) # "fail"
  BY <1>1, <1>8 DEF StartsConstruct
<1>10. Leaves(position)'
  BY <1>1, <1>9, LeavesNow DEF Leaves
<1> QED
  BY <1>1, <1>6, <1>8, <1>10 DEF TriesInv

LEMMA TriesAreKept == IInv /\ TreeInv /\ TriesInv /\ ParserStep => TriesInv'
<1> SUFFICES ASSUME IInv, TreeInv, TriesInv, ParserStep PROVE TriesInv'
  OBVIOUS
<1>1. CASE ParseTopLevelConstruct
  <2>1. /\ phase = "unit" /\ StartsConstruct(position) /\ tokens' = tokens
        /\ PushTopLevel(<<>>, Construct(position).node)
    BY <1>1 DEF ParseTopLevelConstruct
  <2>2. Construct(position).node.kind # "FunctionDeclaration"
    BY <2>1, ConstructChecked DEF Demanding, IInv, ParserTypeOK
  <2> QED
    BY <2>1, <2>2, NoneRead, PushIsRead DEF TriesInv
<1>2. CASE ParseTopLevelRegion
  <2> DEFINE node == TopLevelRegion(position).node
  <2>1. phase = "unit" /\ PushTopLevel(<<>>, node) /\ tokens' = tokens
    BY <1>2 DEF ParseTopLevelRegion
  <2>2. node.kind = "CxxRegion"
    BY DEF TopLevelRegion, Parsed, Node
  <2> HIDE DEF node
  <2> QED
    BY <2>1, <2>2, NoneRead, PushIsRead DEF TriesInv
<1>3. CASE ParseFunctionHeader
  BY <1>3, HeaderKeepsTries
<1>4. CASE FinishUnit
  <2>1. phase = "unit" /\ phase' = "done" /\ unit'.children = unit /\ tokens' = tokens
    BY <1>4 DEF FinishUnit, Node
  <2>2. UnitRead(unit.children)'
    BY <2>1, ListNow DEF TriesInv
  <2> QED
    BY <2>1, <2>2 DEF TriesInv
<1>5. CASE ScanBodyToken
  BY <1>5, ScanKeepsTries
<1>6. ASSUME InBody
      PROVE  /\ IsTokenStream(tokens) /\ position \in 1..Len(tokens) /\ position \in 2..Len(tokens)
             /\ Len(tokens) \in Nat /\ Kind(position) # "EndOfFile" /\ Leaves(position)
  <2>1. /\ IsTokenStream(tokens) /\ position \in 1..Len(tokens)
        /\ Len(tokens) \in Nat /\ Kind(position) # "EndOfFile" /\ phase = "body"
    BY <1>6, BodyFacts
  <2>2. position > 1 /\ Leaves(position)
    BY <2>1 DEF TriesInv
  <2> QED
    BY <2>1, <2>2
<1>7. ASSUME InBody, NEW parsed, NEW start, Spans(parsed, start, position)
      PROVE  parsed.next > 1
  <2>1. position \in 1..Len(tokens) /\ Len(tokens) \in Nat
    BY <1>6, <1>7
  <2>2. parsed.next \in position+1..Len(tokens)
    BY <1>7 DEF Spans
  <2> QED
    BY <2>1, <2>2
<1>8. CASE ParseBodyReturn
  <2> DEFINE parsed == ReturnStatement(position)
  <2>1. InBody /\ PushBodyConstruct(position, parsed)
    BY <1>8 DEF ParseBodyReturn
  <2>2. Spans(parsed, position, position) /\ Leaves(parsed.next)
        /\ parsed.node.kind = "ReturnStatement"
    BY <1>6, <2>1, ReturnStatementSpans, ConstructLeaves, ReturnStatementChecked DEF Checked
  <2>3. ChildRead(parsed.node) /\ parsed.node.kind \in Demanding
    BY <2>2, OthersAreRead DEF Demanding
  <2> HIDE DEF parsed
  <2> QED
    BY <1>7, <2>1, <2>2, <2>3, BodyPushIsRead
<1>9. CASE ParseBodyTryInitialization
  <2> DEFINE declaration == TryInitializationBegin(position, function.regionBegin)
             parsed == TryInitialization(declaration, position)
  <2>1. InBody /\ PushBodyConstruct(declaration, parsed) /\ Kind(position) = "try"
    BY <1>9 DEF ParseBodyTryInitialization
  <2>2. Spans(parsed, declaration, position) /\ Leaves(parsed.next)
    BY <1>6, <2>1, TryInitializationSpans, ConstructLeaves
  <2>3. ChildRead(parsed.node)
    BY <1>6, <2>1, TryIsRead DEF Leaves
  <2>4. parsed.node.kind \in Demanding
    BY DEF TryInitialization, Parsed, Node, Demanding
  <2> HIDE DEF parsed, declaration
  <2> QED
    BY <1>7, <2>1, <2>2, <2>3, <2>4, BodyPushIsRead
<1>10. CASE ParseBodyConstruct
  <2> DEFINE parsed == Construct(position)
  <2>1. InBody /\ StartsConstruct(position) /\ PushBodyConstruct(position, parsed)
    BY <1>10 DEF ParseBodyConstruct
  <2>2. Spans(parsed, position, position) /\ parsed.node.kind \in Demanding
    BY <1>6, <2>1, ConstructSpans, ConstructChecked
  <2>3. Leaves(parsed.next)
    <3>1. Kind(position) \in {"fail", "fails", "try"}
      BY <2>1 DEF StartsConstruct
    <3>2. parsed \in {FailStatement(position), FailureSpecification(position), TryExpression(position)}
      BY <3>1 DEF Construct
    <3> QED
      BY <1>6, <2>1, <3>2, ConstructLeaves
  <2>4. ChildRead(parsed.node)
    BY <1>6, <2>1, ConstructIsRead DEF Leaves
  <2> HIDE DEF parsed
  <2> QED
    BY <1>7, <2>1, <2>2, <2>3, <2>4, BodyPushIsRead
<1>11. ASSUME phase = "body", NEW range, NEW end, tokens' = tokens,
              PushTopLevel(pending, Node("FunctionDeclaration", range,
                                         function.children \o OpenRegion(end)))
       PROVE  TriesInv'
  <2> DEFINE children == function.children \o OpenRegion(end)
  <2>1. FunctionRead(function.children) /\ UnitRead(unit) /\ UnitRead(pending)
    BY <1>11 DEF TriesInv
  <2>2. FunctionRead(children)
    BY <1>11, <2>1, OpenRegionIsRead, SpecificationInBody, FunctionReadExtends
  <2>3. Node("FunctionDeclaration", range, children).children = children
    BY DEF Node
  <2> HIDE DEF children
  <2>4. PushTopLevel(pending, Node("FunctionDeclaration", range, children))
    BY <1>11 DEF children
  <2> QED
    BY <1>11, <2>1, <2>2, <2>3, <2>4, PushIsRead
<1>12. CASE CloseBody
  <2>1. /\ InBody /\ tokens' = tokens
        /\ PushTopLevel(pending,
             Node("FunctionDeclaration",
                  ExtendedTo(function.range, RangeOfTokens(function.bodyBegin, position + 1)),
                  function.children \o OpenRegion(position + 1)))
    BY <1>12 DEF CloseBody
  <2>2. phase = "body"
    BY <2>1 DEF InBody
  <2> QED
    BY <1>11, <2>1, <2>2
<1>13. CASE EndOfFileInBody
  <2>1. /\ phase = "body" /\ tokens' = tokens
        /\ PushTopLevel(pending, Node("FunctionDeclaration", function.range,
                                      function.children \o OpenRegion(position)))
    BY <1>13 DEF EndOfFileInBody
  <2> QED
    BY <1>11, <2>1
<1> QED
  BY <1>1, <1>2, <1>3, <1>4, <1>5, <1>8, <1>9, <1>10, <1>12, <1>13 DEF ParserStep

LEMMA InitIsRead == ParserInit => TriesInv
BY NoneRead DEF ParserInit, TriesInv

LEMMA TriesStayRead == TriesInv /\ UNCHANGED parsingVars => TriesInv'
<1> SUFFICES ASSUME TriesInv, UNCHANGED parsingVars PROVE TriesInv'
  OBVIOUS
<1>1. UNCHANGED parsingVars
  OBVIOUS
<1>2. /\ UnitRead(unit) => UnitRead(unit)'
      /\ UnitRead(pending) => UnitRead(pending)'
      /\ UnitRead(unit.children) => UnitRead(unit.children)'
      /\ FunctionRead(function.children) => FunctionRead(function.children)'
  BY <1>1, ListNow DEF parsingVars
<1>3. Leaves(position) => Leaves(position)'
  BY <1>1, LeavesNow DEF parsingVars
<1> QED
  BY <1>1, <1>2, <1>3 DEF TriesInv, parsingVars

-----------------------------------------------------------------------------
(* The ranges the backend copies: where nodes are cut out of the source.   *)

\* The token begins in the range.
BeginsIn(stream, index, range) ==
  range.begin <= stream[index].begin /\ stream[index].begin < range.end

\* The range holds the whole token.
Holds(stream, range, index) ==
  Within([begin |-> stream[index].begin, end |-> stream[index].end], range)

\* The range ends between two tokens: no token is cut by its end.
Aligned(stream, range) ==
  \A i \in 1..Len(stream)-1 : BeginsIn(stream, i, range) => Holds(stream, range, i)

\* What the backend copies of a construct lies in it, and the construct is
\* longer than what it copies.
CutConstruct(node) ==
  /\ node.kind \in {"ReturnStatement", "FailStatement"} =>
       LET operand == node.children[1].range
       IN  /\ node.range.begin < operand.begin /\ operand.begin < operand.end
           /\ operand.end < node.range.end
  /\ node.kind = "TryInitialization" =>
       LET declaration == node.children[1].range
           operand == node.children[2].children[1].range
       IN  /\ node.range.begin <= declaration.begin /\ declaration.begin <= declaration.end
           /\ declaration.end <= operand.begin /\ node.range.begin + 4 <= operand.begin
           /\ operand.begin < operand.end /\ operand.end <= node.range.end

CutNode(stream, node) == Aligned(stream, node.range) /\ CutConstruct(node)

\* Where the body of a function is headed.
HeadsBody(nodes, h) ==
  /\ nodes[h].kind = "FailureSpecification"
  /\ \A k \in 1..h-1 : nodes[k].kind # "FailureSpecification"

\* The success type, the declarator and the failure specification of a function.
HeaderAt(nodes, r, d, h) ==
  /\ HeadsBody(nodes, h) /\ r < h /\ d < h
  /\ nodes[r].kind = "FunctionReturnType" /\ nodes[d].kind = "FunctionDeclarator"

\* The header in source order; it holds every token from offset "begin" to
\* token "to".
HeaderCut(stream, nodes, begin, to) ==
  \A r, d, h \in 1..Len(nodes) :
    HeaderAt(nodes, r, d, h) =>
      /\ nodes[r].range.end <= nodes[d].range.begin
      /\ nodes[d].range.end <= nodes[h].range.begin
      /\ 0 <= begin =>
           /\ begin <= nodes[r].range.begin /\ begin <= nodes[h].range.begin
           /\ \A i \in 1..to-1 : begin <= stream[i].begin =>
                \E k \in {r, d, h} : Holds(stream, nodes[k].range, i)

\* The failure specification and the body in source order, up to token "to";
\* they hold the tokens from token "from" on.
BodyCut(stream, nodes, from, to) ==
  \A h \in 1..Len(nodes) :
    HeadsBody(nodes, h) =>
      /\ \A k \in h..Len(nodes) :
           /\ ValidRange(nodes[k].range) /\ nodes[k].range.end <= stream[to-1].end
           /\ CutNode(stream, nodes[k])
           /\ \A l \in h..k-1 : nodes[l].range.end <= nodes[k].range.begin
      /\ \A i \in from..to-1 : \E k \in h..Len(nodes) : Holds(stream, nodes[k].range, i)

\* A function declaration with a body that it reaches the end of.
Reached(node, h) ==
  /\ 0 <= node.range.begin
  /\ h < Len(node.children) /\ Last(node.children).range.end <= node.range.end

\* The parts of such a function follow one another in the source, and each
\* token of the function is in one of them.
FunctionCut(stream, node) ==
  LET nodes == node.children
  IN  \A r, d, h \in 1..Len(nodes) :
        HeaderAt(nodes, r, d, h) /\ Reached(node, h) =>
          /\ Complete(node)
          /\ node.range.begin <= nodes[r].range.begin
          /\ nodes[r].range.end <= nodes[d].range.begin
          /\ nodes[d].range.end <= nodes[h].range.begin
          /\ \A k \in h..Len(nodes) :
               /\ ValidRange(nodes[k].range) /\ nodes[k].range.end <= node.range.end
               /\ CutNode(stream, nodes[k])
               /\ \A l \in h..k-1 : nodes[l].range.end <= nodes[k].range.begin
          /\ \A i \in 1..Len(stream)-1 : Holds(stream, node.range, i) =>
               \E k \in {r, d} \cup (h..Len(nodes)) : Holds(stream, nodes[k].range, i)

\* A top-level node that is not cut short ends between two tokens.
UnitCut(stream, node) ==
  /\ Complete(node) => Aligned(stream, node.range)
  /\ node.kind = "FunctionDeclaration" => FunctionCut(stream, node)

AllCut(stream, nodes) == IsList(nodes) /\ \A k \in 1..Len(nodes) : UnitCut(stream, nodes[k])

CutsInv ==
  Clean =>
    /\ phase # "done" => AllCut(tokens, unit)
    /\ phase = "body" =>
         /\ AllCut(tokens, pending)
         /\ HeaderCut(tokens, function.children, function.range.begin, function.bodyBegin)
         /\ BodyCut(tokens, function.children, function.bodyBegin, function.regionBegin)
    /\ phase = "done" => AllCut(tokens, unit.children)

\* A range that ends with a token is aligned, and so is one that ends where a
\* token begins.
LEMMA EndAligns ==
  ASSUME IsTokenStream(tokens), NEW range, range.begin \in Nat, NEW e \in 1..Len(tokens),
         range.end \in {tokens[e].begin, tokens[e].end}
  PROVE  Aligned(tokens, range)
<1> SUFFICES ASSUME NEW i \in 1..Len(tokens)-1, BeginsIn(tokens, i, range)
             PROVE  Holds(tokens, range, i)
  BY DEF Aligned
<1>1. i \in 1..Len(tokens) /\ i < Len(tokens)
  BY StreamFacts
<1>2. PICK begin, end, b, x, y \in Nat :
        /\ begin = tokens[i].begin /\ end = tokens[i].end /\ b = range.begin
        /\ x = tokens[e].begin /\ y = tokens[e].end
  BY <1>1, StreamFacts
<1>3. begin < end /\ x <= y
  BY <1>1, <1>2, StreamFacts
<1>4. PICK z \in {x, y} : z = range.end /\ b <= begin /\ begin < z
  BY <1>2 DEF BeginsIn
<1>5. end <= z
  <2>1. CASE e < i
    <3>1. y <= begin
      BY <1>1, <1>2, <2>1, StreamFacts
    <3> QED
      BY <1>3, <1>4, <3>1
  <2>2. CASE e = i
    BY <1>2, <1>3, <1>4, <2>2
  <2>3. CASE i < e
    <3>1. end <= x
      BY <1>1, <1>2, <2>3, StreamFacts
    <3> QED
      BY <1>3, <1>4, <3>1
  <2> QED
    BY <2>1, <2>2, <2>3, <1>1
<1>6. z \in Nat /\ b <= z
  <2>1. z \in Nat
    BY <1>4
  <2> QED
    BY <1>4, <2>1
<1>7. Holds(tokens, range, i) <=> Within([begin |-> begin, end |-> end], range)
  BY <1>2 DEF Holds
<1> QED
  BY <1>2, <1>3, <1>4, <1>5, <1>6, <1>7 DEF Within, ValidRange

LEMMA TokensAreAligned ==
  ASSUME IsTokenStream(tokens), NEW first \in Int, NEW end \in Int
  PROVE  Aligned(tokens, RangeOfTokens(first, end))
<1>1. CASE 1 <= first /\ first < end /\ end <= Len(tokens) + 1
  <2>1. first \in 1..Len(tokens) /\ end - 1 \in 1..Len(tokens)
    BY <1>1, StreamFacts
  <2>2. /\ RangeOfTokens(first, end).begin = tokens[first].begin
        /\ RangeOfTokens(first, end).end = tokens[end-1].end
    BY <1>1 DEF RangeOfTokens
  <2> QED
    BY <2>1, <2>2, StreamFacts, EndAligns
<1>2. CASE ~(1 <= first /\ first < end /\ end <= Len(tokens) + 1)
  <2>1. RangeOfTokens(first, end) = NoRange
    BY <1>2 DEF RangeOfTokens
  <2>2. ASSUME NEW i \in 1..Len(tokens)-1 PROVE ~BeginsIn(tokens, i, NoRange)
    <3>1. tokens[i].begin \in Nat
      BY StreamFacts
    <3> QED
      BY <3>1 DEF BeginsIn, NoRange, Invalid
  <2> QED
    BY <2>1, <2>2 DEF Aligned
<1> QED
  BY <1>1, <1>2

\* The endpoints of ranges between tokens of one stream.
LEMMA TokensAreCut ==
  ASSUME IsTokenStream(tokens), NEW a \in 1..Len(tokens), NEW b \in a+1..Len(tokens)+1
  PROVE  /\ RangeOfTokens(a, b).begin = tokens[a].begin
         /\ RangeOfTokens(a, b).end = tokens[b-1].end
         /\ RangeOfTokens(a, b).begin \in Nat /\ RangeOfTokens(a, b).end \in Nat
         /\ RangeOfTokens(a, b).begin <= RangeOfTokens(a, b).end
         /\ b < Len(tokens) + 1 => RangeOfTokens(a, b).begin < RangeOfTokens(a, b).end
<1>1. RangeOfTokens(a, b) = [begin |-> tokens[a].begin, end |-> tokens[b-1].end]
  BY StreamFacts DEF RangeOfTokens
<1>2. a \in 1..Len(tokens) /\ b - 1 \in 1..Len(tokens) /\ a <= b - 1
  BY StreamFacts
<1>3. PICK x, y, z \in Nat : x = tokens[a].begin /\ y = tokens[b-1].end /\ z = tokens[b-1].begin
  BY <1>2, StreamFacts
<1>4. x <= z /\ z <= y /\ (b < Len(tokens) + 1 => z < y)
  <2>1. tokens[a].begin <= tokens[b-1].begin
    BY <1>2, TokensAdvance
  <2>2. tokens[b-1].begin <= tokens[b-1].end
    BY <1>2, StreamFacts
  <2>3. b < Len(tokens) + 1 => tokens[b-1].begin < tokens[b-1].end
    BY <1>2, StreamFacts
  <2> QED
    BY <1>3, <2>1, <2>2, <2>3
<1> QED
  BY <1>1, <1>3, <1>4

\* Of two tokens, the second begins behind the first.
LEMMA NextIsLater ==
  ASSUME IsTokenStream(tokens), NEW i \in 1..Len(tokens), i + 1 \in 1..Len(tokens)
  PROVE  /\ tokens[i].begin \in Nat /\ tokens[i+1].begin \in Nat
         /\ tokens[i].begin + 1 <= tokens[i+1].begin
<1>1. i < i + 1 /\ i < Len(tokens) /\ i + 1 \in 1..Len(tokens)
  BY StreamFacts
<1>2. tokens[i].end <= tokens[i+1].begin /\ tokens[i].begin < tokens[i].end
  BY <1>1, StreamFacts
<1>3. tokens[i].begin \in Nat /\ tokens[i].end \in Nat /\ tokens[i+1].begin \in Nat
  BY <1>1, StreamFacts
<1> QED
  BY <1>2, <1>3

LEMMA FourTokensAreLong ==
  ASSUME IsTokenStream(tokens), NEW i \in 1..Len(tokens), i + 4 \in 1..Len(tokens)
  PROVE  /\ tokens[i].begin \in Nat /\ tokens[i+4].begin \in Nat
         /\ tokens[i].begin + 4 <= tokens[i+4].begin
<1>1. /\ i + 1 \in 1..Len(tokens) /\ i + 2 \in 1..Len(tokens) /\ i + 3 \in 1..Len(tokens)
      /\ (i + 1) + 1 = i + 2 /\ (i + 2) + 1 = i + 3 /\ (i + 3) + 1 = i + 4
  BY StreamFacts
<1>2. PICK a, b, c, d, e \in Nat :
        /\ a = tokens[i].begin /\ b = tokens[i+1].begin /\ c = tokens[i+2].begin
        /\ d = tokens[i+3].begin /\ e = tokens[i+4].begin
  BY <1>1, StreamFacts
<1>3. a + 1 <= b
  BY <1>1, <1>2, NextIsLater
<1>4. b + 1 <= c
  <2>1. tokens[i+1].begin + 1 <= tokens[(i+1)+1].begin
    BY <1>1, NextIsLater
  <2> QED
    BY <1>1, <1>2, <2>1
<1>5. c + 1 <= d
  <2>1. tokens[i+2].begin + 1 <= tokens[(i+2)+1].begin
    BY <1>1, NextIsLater
  <2> QED
    BY <1>1, <1>2, <2>1
<1>6. d + 1 <= e
  <2>1. tokens[i+3].begin + 1 <= tokens[(i+3)+1].begin
    BY <1>1, NextIsLater
  <2> QED
    BY <1>1, <1>2, <2>1
<1>7. a + 4 <= e
  BY <1>3, <1>4, <1>5, <1>6
<1> QED
  BY <1>2, <1>7

\* A parsed construct that reports nothing.
ParsedCut(parsed) == parsed.errors = <<>> => CutNode(tokens, parsed.node)

\* A region of one token or more.
LEMMA RegionIsCut ==
  ASSUME IsTokenStream(tokens), NEW a \in 1..Len(tokens), NEW b \in a+1..Len(tokens)
  PROVE  CxxRegion(a, b).range = RangeOfTokens(a, b)
BY StreamFacts DEF CxxRegion, Node

\* The operand of tokens a..b-1 in a statement that starts before it and ends
\* behind it.
LEMMA OperandIsCut ==
  ASSUME IsTokenStream(tokens), NEW at \in 1..Len(tokens), NEW end \in at+2..Len(tokens),
         end + 1 <= Len(tokens)
  PROVE  LET node == RangeOfTokens(at, end + 1)
             operand == RangeOfTokens(at + 1, end)
         IN  /\ node.begin < operand.begin /\ operand.begin < operand.end
             /\ operand.end < node.end
<1>1. /\ at + 1 \in 1..Len(tokens) /\ end \in (at+1)+1..Len(tokens)+1
      /\ end + 1 \in at+1..Len(tokens)+1 /\ end < Len(tokens) + 1 /\ (end + 1) - 1 = end
      /\ end \in 1..Len(tokens) /\ end - 1 \in 1..Len(tokens) /\ end - 1 < end
  BY StreamFacts
<1>2. /\ RangeOfTokens(at, end + 1).begin = tokens[at].begin
      /\ RangeOfTokens(at, end + 1).end = tokens[end].end
  <2>1. /\ RangeOfTokens(at, end + 1).begin = tokens[at].begin
        /\ RangeOfTokens(at, end + 1).end = tokens[(end + 1) - 1].end
    BY <1>1, TokensAreCut
  <2> QED
    BY <1>1, <2>1
<1>3. /\ RangeOfTokens(at + 1, end).begin = tokens[at+1].begin
      /\ RangeOfTokens(at + 1, end).end = tokens[end-1].end
      /\ RangeOfTokens(at + 1, end).begin < RangeOfTokens(at + 1, end).end
  BY <1>1, TokensAreCut
<1>4. tokens[at].begin < tokens[at+1].begin
  <2>1. /\ tokens[at].begin \in Nat /\ tokens[at+1].begin \in Nat
        /\ tokens[at].begin + 1 <= tokens[at+1].begin
    BY <1>1, NextIsLater
  <2> QED
    BY <2>1
<1>5. tokens[end-1].end < tokens[end].end
  <2>1. tokens[end-1].end <= tokens[end].begin
    BY <1>1, StreamFacts
  <2>2. end < Len(tokens)
    BY <1>1, StreamFacts
  <2>3. tokens[end].begin < tokens[end].end
    BY <1>1, <2>2, StreamFacts
  <2>4. tokens[end-1].end \in Nat /\ tokens[end].begin \in Nat /\ tokens[end].end \in Nat
    BY <1>1, StreamFacts
  <2> QED
    BY <2>1, <2>3, <2>4
<1> QED
  BY <1>2, <1>3, <1>4, <1>5

\* A statement with an operand and a `;`.
LEMMA StatementIsCut ==
  ASSUME IsTokenStream(tokens), NEW at \in 1..Len(tokens), NEW end \in at+1..Len(tokens),
         end # at + 1, AfterSemicolon(end) # end, AfterSemicolon(end) \in end..Len(tokens),
         NEW node, node.kind \in {"ReturnStatement", "FailStatement"},
         node.range = RangeOfTokens(at, AfterSemicolon(end)),
         node.children[1].range = RangeOfTokens(at + 1, end)
  PROVE  CutNode(tokens, node)
<1>1. AfterSemicolon(end) = end + 1
  BY DEF AfterSemicolon
<1>2. end \in at+2..Len(tokens) /\ end + 1 <= Len(tokens)
  BY <1>1, StreamFacts
<1>3. CutConstruct(node)
  <2>1. node.kind # "TryInitialization"
    OBVIOUS
  <2> QED
    BY <1>1, <1>2, <2>1, OperandIsCut DEF CutConstruct
<1>4. Aligned(tokens, node.range)
  BY <1>1, <1>2, TokensAreAligned
<1> QED
  BY <1>3, <1>4 DEF CutNode

LEMMA ReturnStatementCut ==
  ASSUME IsTokenStream(tokens), NEW at \in 1..Len(tokens), Kind(at) # "EndOfFile"
  PROVE  ParsedCut(ReturnStatement(at))
<1> SUFFICES ASSUME ReturnStatement(at).errors = <<>> PROVE CutNode(tokens, ReturnStatement(at).node)
  BY DEF ParsedCut
<1> DEFINE first == at + 1
           end == ScanOpaqueRegion(first, StatementStops)
           next == AfterSemicolon(end)
           children == NoChildIf(end = first, CxxRegion(first, end))
           noOperand == ErrorIf(end = first, "VIXC1005", RangeOfTokens(at, first))
           noEnd == ErrorIf(next = end, "VIXC1006", RangeOfTokens(at, next))
           node == ReturnStatement(at).node
<1>1. /\ ReturnStatement(at).errors = noOperand \o noEnd
      /\ node.kind = "ReturnStatement" /\ node.children = children
      /\ node.range = RangeOfTokens(at, next)
  BY DEF ReturnStatement, Parsed, Node
<1>2. /\ IsList(noOperand) /\ (noOperand = <<>> => end # first)
      /\ IsList(noEnd) /\ (noEnd = <<>> => next # end)
  BY ErrorIfReports
<1>3. first \in 1..Len(tokens) /\ end \in first..Len(tokens)
  BY NextToken, ScansStop
<1>4. /\ end # first => Len(children) = 1
      /\ \A k \in 1..Len(children) : children[k] = CxxRegion(first, end)
  BY ChildUnless
<1> HIDE DEF noOperand, noEnd, children, end, node
<1>5. end # first /\ next # end
  BY <1>1, <1>2, NothingReported
<1>6. next \in end..Len(tokens)
  <2>1. end \in 1..Len(tokens)
    BY <1>3
  <2> QED
    BY <2>1, SemicolonStep
<1>7. node.children[1].range = RangeOfTokens(first, end)
  <2>1. first \in 1..Len(tokens) /\ end \in first+1..Len(tokens)
    BY <1>3, <1>5
  <2>2. CxxRegion(first, end).range = RangeOfTokens(first, end)
    BY <2>1, RegionIsCut
  <2>3. children[1] = CxxRegion(first, end)
    <3>1. 1 \in 1..Len(children)
      BY <1>4, <1>5
    <3> QED
      BY <1>4, <3>1
  <2> QED
    BY <1>1, <2>2, <2>3
<1>8. end \in at+1..Len(tokens)
  BY <1>3
<1> QED
  BY <1>1, <1>5, <1>6, <1>7, <1>8, StatementIsCut DEF node

\* What a `try` spans: the keyword and its operand.
LEMMA TryOperand ==
  ASSUME IsTokenStream(tokens), NEW at \in 1..Len(tokens), Kind(at) # "EndOfFile",
         TryExpression(at).errors = <<>>
  PROVE  /\ TryExpression(at).next \in at+2..Len(tokens)
         /\ TryExpression(at).node.range = RangeOfTokens(at, TryExpression(at).next)
         /\ TryExpression(at).node.children[1].range
              = RangeOfTokens(at + 1, TryExpression(at).next)
<1> DEFINE first == at + 1
           end == ScanOpaqueRegion(first, OperandStops)
           call == Node("DirectCallExpression", RangeOfTokens(first, end),
                        <<CxxRegion(first, first + 1)>>)
           operand == IF IsDirectCall(first, end) THEN call ELSE CxxRegion(first, end)
           error == Error("VIXC1004", RangeOfTokens(at, first))
<1>1. first \in 1..Len(tokens) /\ end \in first..Len(tokens)
  BY NextToken, ScansStop
<1>2. end # first
  <2>1. ASSUME end = first PROVE TryExpression(at).errors = <<error>>
    BY <2>1 DEF TryExpression, Parsed
  <2> HIDE DEF error
  <2> QED
    BY <2>1, OneIsNotNone
<1>3. /\ TryExpression(at).node.children = <<operand>>
      /\ TryExpression(at).node.range = RangeOfTokens(at, end)
      /\ TryExpression(at).next = end
  BY <1>2 DEF TryExpression, Parsed, Node
<1>4. end \in first+1..Len(tokens) /\ end \in at+2..Len(tokens)
  <2> HIDE DEF end
  <2> QED
    BY <1>1, <1>2
<1>5. call.range = RangeOfTokens(first, end) /\ CxxRegion(first, end).range = RangeOfTokens(first, end)
  BY <1>1, <1>4, RegionIsCut DEF Node
<1>6. operand.range = RangeOfTokens(first, end)
  <2> HIDE DEF call, end, first
  <2> QED
    BY <1>5
<1> HIDE DEF operand, end
<1> QED
  BY <1>3, <1>4, <1>6

LEMMA FailStatementCut ==
  ASSUME IsTokenStream(tokens), NEW at \in 1..Len(tokens), Kind(at) # "EndOfFile"
  PROVE  ParsedCut(FailStatement(at))
<1> SUFFICES ASSUME FailStatement(at).errors = <<>> PROVE CutNode(tokens, FailStatement(at).node)
  BY DEF ParsedCut
<1> DEFINE first == at + 1
           end == ScanOpaqueRegion(first, StatementStops)
           payload == IF Kind(first) = "try" /\ Kind(first + 1) # "{"
                      THEN TryExpression(first)
                      ELSE Parsed(CxxRegion(first, end), end, <<>>)
           next == AfterSemicolon(payload.next)
           children == NoChildIf(payload.next = first, payload.node)
           noOperand == ErrorIf(payload.next = first, "VIXC1001", RangeOfTokens(at, first))
           noEnd == ErrorIf(next = payload.next, "VIXC1002", RangeOfTokens(at, next))
           node == FailStatement(at).node
<1>1. /\ FailStatement(at).errors = (payload.errors \o noOperand) \o noEnd
      /\ node.kind = "FailStatement" /\ node.children = children
      /\ node.range = RangeOfTokens(at, next)
  BY DEF FailStatement, Parsed, Node
<1>2. first \in 1..Len(tokens) /\ end \in first..Len(tokens)
  BY NextToken, ScansStop
<1>3. /\ IsList(payload.errors)
      /\ payload.next \in first..Len(tokens)
      /\ payload.errors = <<>> /\ payload.next # first =>
           payload.node.range = RangeOfTokens(first, payload.next)
  <2>1. CASE Kind(first) = "try" /\ Kind(first + 1) # "{"
    <3>1. payload = TryExpression(first) /\ Kind(first) # "EndOfFile"
      BY <2>1
    <3> HIDE DEF payload, first, end
    <3>2. Spans(TryExpression(first), first, first)
      BY <1>2, <3>1, TryExpressionSpans
    <3>3. Checked(TryExpression(first), "TryExpression")
      BY TryExpressionChecked
    <3>4. payload.next \in first..Len(tokens)
      BY <1>2, <3>1, <3>2, StreamFacts DEF Spans
    <3> QED
      BY <3>1, <3>2, <3>3, <3>4 DEF Checked, Spans
  <2>2. CASE ~(Kind(first) = "try" /\ Kind(first + 1) # "{")
    <3>1. /\ payload.errors = <<>> /\ payload.node = CxxRegion(first, end)
          /\ payload.next = end
      BY <2>2 DEF Parsed
    <3> HIDE DEF payload, first, end
    <3>2. end # first => end \in first+1..Len(tokens)
      BY <1>2
    <3>3. end # first => CxxRegion(first, end).range = RangeOfTokens(first, end)
      BY <1>2, <3>2, RegionIsCut
    <3> QED
      BY <1>2, <3>1, <3>3, EmptyList
  <2> QED
    BY <2>1, <2>2
<1> HIDE DEF payload, end
<1>4. /\ IsList(noOperand) /\ (noOperand = <<>> => payload.next # first)
      /\ IsList(noEnd) /\ (noEnd = <<>> => next # payload.next)
  BY ErrorIfReports
<1>5. /\ payload.next # first => Len(children) = 1
      /\ \A k \in 1..Len(children) : children[k] = payload.node
  BY ChildUnless
<1> HIDE DEF noOperand, noEnd, children, node
<1>6. payload.next \in at+1..Len(tokens)
  BY <1>3
<1>7. next \in payload.next..Len(tokens)
  <2>1. payload.next \in 1..Len(tokens)
    BY <1>6
  <2> QED
    BY <2>1, SemicolonStep
<1>8. payload.errors = <<>> /\ payload.next # first /\ next # payload.next
  <2>1. IsList(payload.errors \o noOperand)
    BY <1>3, <1>4, ConcatOfLists
  <2>2. payload.errors \o noOperand = <<>> /\ noEnd = <<>>
    BY <1>1, <1>4, <2>1, NothingReported
  <2>3. payload.errors = <<>> /\ noOperand = <<>>
    BY <1>3, <1>4, <2>2, NothingReported
  <2> QED
    BY <1>4, <2>2, <2>3
<1>9. node.children[1].range = RangeOfTokens(first, payload.next)
  <2>0. Len(children) = 1
    BY <1>5, <1>8
  <2>1. 1 \in 1..Len(children)
    BY <2>0
  <2>2. children[1] = payload.node
    BY <1>5, <2>1
  <2> QED
    BY <1>1, <1>3, <1>8, <2>2
<1> HIDE DEF next
<1>10. next = AfterSemicolon(payload.next)
  BY DEF next
<1> QED
  <2> DEFINE after == payload.next
  <2>1. /\ after \in at+1..Len(tokens) /\ after # at + 1
        /\ AfterSemicolon(after) # after /\ AfterSemicolon(after) \in after..Len(tokens)
        /\ node.range = RangeOfTokens(at, AfterSemicolon(after))
        /\ node.children[1].range = RangeOfTokens(at + 1, after)
    BY <1>1, <1>6, <1>7, <1>8, <1>9, <1>10
  <2> HIDE DEF after
  <2>2. CutNode(tokens, node)
    BY <1>1, <2>1, StatementIsCut
  <2> QED
    BY <2>2 DEF node

LEMMA TryInitializationCut ==
  ASSUME IsTokenStream(tokens), NEW at \in 4..Len(tokens), Kind(at) # "EndOfFile"
  PROVE  ParsedCut(TryInitialization(at - 3, at))
<1> SUFFICES ASSUME TryInitialization(at - 3, at).errors = <<>>
             PROVE  CutNode(tokens, TryInitialization(at - 3, at).node)
  BY DEF ParsedCut
<1> DEFINE a == at - 3
           operand == TryExpression(at)
           next == AfterSemicolon(operand.next)
           region == CxxRegion(a, at - 1)
           noEnd == ErrorIf(next = operand.next, "VIXC1007", RangeOfTokens(a, next))
           node == TryInitialization(a, at).node
<1>1. /\ TryInitialization(a, at).errors = operand.errors \o noEnd
      /\ node.kind = "TryInitialization" /\ node.children = <<region, operand.node>>
      /\ node.range = RangeOfTokens(a, next)
  BY DEF TryInitialization, Parsed, Node
<1>2. IsList(noEnd) /\ IsList(operand.errors)
  BY ErrorIfReports, TryExpressionChecked DEF Checked
<1>3. operand.errors = <<>>
  <2> HIDE DEF operand, noEnd
  <2> QED
    BY <1>1, <1>2, NothingReported
<1>4. at \in 1..Len(tokens)
  BY StreamFacts
<1>5. /\ operand.next \in at+2..Len(tokens)
      /\ operand.node.children[1].range = RangeOfTokens(at + 1, operand.next)
  BY <1>3, <1>4, TryOperand
<1> DEFINE end == operand.next
           inner == operand.node.children[1].range
<1>6. next \in end..Len(tokens)
  <2> HIDE DEF operand
  <2>1. end \in 1..Len(tokens)
    BY <1>4, <1>5
  <2> QED
    BY <2>1, SemicolonStep
<1> HIDE DEF operand, next, noEnd
<1>7. /\ a \in 1..Len(tokens) /\ at - 1 \in a+1..Len(tokens) /\ at + 1 \in 1..Len(tokens)
      /\ at + 1 = a + 4 /\ (at - 1) - 1 \in 1..Len(tokens) /\ (at - 1) - 1 < at + 1
      /\ next \in a+1..Len(tokens) /\ next \in at+2..Len(tokens)
      /\ end \in (at+1)+1..Len(tokens) /\ end \in at+2..Len(tokens)
      /\ end - 1 \in 1..Len(tokens) /\ next - 1 \in 1..Len(tokens) /\ end - 1 <= next - 1
  BY <1>4, <1>5, <1>6, StreamFacts
<1>8. /\ node.children[1] = region /\ node.children[2] = operand.node
  BY <1>1
<1>9. /\ region.range = RangeOfTokens(a, at - 1)
      /\ region.range.begin = tokens[a].begin /\ region.range.end = tokens[(at-1)-1].end
      /\ region.range.begin <= region.range.end
  <2>1. at - 1 \in a+1..Len(tokens)+1
    BY <1>7, StreamFacts
  <2> QED
    BY <1>7, <2>1, RegionIsCut, TokensAreCut
<1>10. /\ inner.begin = tokens[at+1].begin /\ inner.end = tokens[end-1].end
       /\ inner.begin < inner.end
  <2>0. Len(tokens) \in Nat
    BY StreamFacts
  <2>1. end \in (at+1)+1..Len(tokens)+1 /\ end < Len(tokens) + 1
    <3> HIDE DEF end
    <3> QED
      BY <1>7, <2>0
  <2>2. inner = RangeOfTokens(at + 1, end)
    BY <1>5
  <2> QED
    BY <1>7, <2>1, <2>2, TokensAreCut
<1>11. node.range.begin = tokens[a].begin /\ node.range.end = tokens[next-1].end
  <2>1. next \in a+1..Len(tokens)+1
    BY <1>7, StreamFacts
  <2> QED
    BY <1>1, <1>7, <2>1, TokensAreCut
<1>12. tokens[(at-1)-1].end <= tokens[at+1].begin
  BY <1>7, StreamFacts
<1>13. tokens[a].begin \in Nat /\ tokens[a].begin + 4 <= tokens[at+1].begin
  BY <1>7, FourTokensAreLong
<1>14. tokens[end-1].end <= tokens[next-1].end
  BY <1>7, TokensAdvance
<1> HIDE DEF region, a, node
<1>15. CutConstruct(node)
  <2>1. /\ node.children[1].range.begin = tokens[a].begin
        /\ node.children[1].range.end = tokens[(at-1)-1].end
        /\ node.children[1].range.begin <= node.children[1].range.end
        /\ node.children[2].children[1].range = inner
    BY <1>8, <1>9
  <2>2. tokens[a].begin <= tokens[a].begin
    BY <1>13
  <2>3. node.kind = "TryInitialization"
    BY <1>1
  <2> QED
    BY <1>10, <1>11, <1>12, <1>13, <1>14, <2>1, <2>2, <2>3 DEF CutConstruct
<1>16. Aligned(tokens, node.range)
  <2>1. a \in Int /\ next \in Int
    BY <1>7
  <2> QED
    BY <1>1, <2>1, TokensAreAligned
<1> QED
  BY <1>15, <1>16 DEF CutNode, node, a

LEMMA ConstructCut ==
  ASSUME IsTokenStream(tokens), NEW at \in 1..Len(tokens), StartsConstruct(at)
  PROVE  ParsedCut(Construct(at))
<1>1. Kind(at) \in {"fail", "fails", "try"} /\ Kind(at) # "EndOfFile"
  BY DEF StartsConstruct
<1>2. CASE Kind(at) = "fail"
  <2>1. Construct(at) = FailStatement(at)
    BY <1>2 DEF Construct
  <2> QED
    BY <1>1, <2>1, FailStatementCut
<1>3. CASE Kind(at) # "fail"
  <2>1. \/ Construct(at) = FailureSpecification(at)
        \/ Construct(at) = TryExpression(at)
    BY <1>1, <1>3 DEF Construct
  <2>2. Spans(Construct(at), at, at)
    BY ConstructSpans
  <2>3. Construct(at).node.kind \in {"FailureSpecification", "TryExpression"}
    BY <2>1, FailureSpecificationChecked, TryExpressionChecked DEF Checked
  <2>4. CutConstruct(Construct(at).node)
    BY <2>3 DEF CutConstruct
  <2>5. Construct(at).next \in Int /\ at \in Int
    BY <2>2 DEF Spans
  <2>6. Aligned(tokens, Construct(at).node.range)
    BY <2>2, <2>5, TokensAreAligned DEF Spans
  <2> QED
    BY <2>4, <2>6 DEF ParsedCut, CutNode
<1> QED
  BY <1>2, <1>3

LEMMA NothingAligned == ASSUME IsTokenStream(tokens) PROVE Aligned(tokens, NoRange)
<1>1. RangeOfTokens(0, 0) = NoRange
  BY DEF RangeOfTokens
<1> QED
  BY <1>1, TokensAreAligned

LEMMA OpaqueIsCut ==
  ASSUME IsTokenStream(tokens), NEW first \in Int, NEW end \in Int
  PROVE  /\ Aligned(tokens, CxxRegion(first, end).range)
         /\ UnitCut(tokens, CxxRegion(first, end)) /\ CutNode(tokens, CxxRegion(first, end))
<1>1. CxxRegion(first, end).range \in {RangeOfTokens(first, end), NoRange}
  BY DEF CxxRegion, InvalidNode, Node
<1>2. CxxRegion(first, end).kind \in {"CxxRegion", "Invalid"}
  BY RegionIsNoConstruct
<1>3. Aligned(tokens, CxxRegion(first, end).range)
  BY <1>1, TokensAreAligned, NothingAligned
<1> QED
  BY <1>2, <1>3 DEF UnitCut, CutNode, CutConstruct

LEMMA CutConcat ==
  ASSUME NEW s, NEW t, AllCut(tokens, s), AllCut(tokens, t)
  PROVE  AllCut(tokens, s \o t)
<1>1. IsList(s) /\ IsList(t)
  BY DEF AllCut
<1>2. /\ IsList(s \o t) /\ Len(s) \in Nat /\ Len(t) \in Nat
      /\ Len(s \o t) = Len(s) + Len(t)
      /\ \A k \in 1..Len(s) : (s \o t)[k] = s[k]
      /\ \A k \in 1..Len(t) : (s \o t)[Len(s) + k] = t[k]
  BY <1>1, ConcatOfLists
<1>3. ASSUME NEW k \in 1..Len(s \o t) PROVE UnitCut(tokens, (s \o t)[k])
  <2>1. CASE k <= Len(s)
    <3>1. k \in 1..Len(s)
      BY <1>2, <2>1
    <3> QED
      BY <1>2, <3>1 DEF AllCut
  <2>2. CASE ~(k <= Len(s))
    <3>1. k - Len(s) \in 1..Len(t) /\ Len(s) + (k - Len(s)) = k
      BY <1>2, <2>2
    <3>2. (s \o t)[k] = t[k - Len(s)]
      BY <1>2, <3>1
    <3> QED
      BY <3>1, <3>2 DEF AllCut
  <2> QED
    BY <2>1, <2>2
<1> QED
  BY <1>2, <1>3 DEF AllCut

LEMMA CutOne ==
  ASSUME NEW node, UnitCut(tokens, node)
  PROVE  AllCut(tokens, <<node>>)
<1>1. IsList(<<node>>) /\ Len(<<node>>) = 1 /\ <<node>>[1] = node
  BY SingletonList
<1> QED
  BY <1>1 DEF AllCut

LEMMA NoneCut == AllCut(tokens, <<>>)
BY EmptyList DEF AllCut

LEMMA PushIsCut ==
  ASSUME AllCut(tokens, unit), NEW before, AllCut(tokens, before), NEW node, UnitCut(tokens, node), UNCHANGED tokens,
         PushTopLevel(before, node)
  PROVE  CutsInv'
<1>1. /\ unit' = unit \o before \o (IF node.kind = "Invalid" THEN <<>> ELSE <<node>>)
      /\ phase' = "unit"
  BY DEF PushTopLevel
<1>2. AllCut(tokens, unit \o before)
  BY CutConcat
<1>3. AllCut(tokens, IF node.kind = "Invalid" THEN <<>> ELSE <<node>>)
  BY CutOne, NoneCut
<1> DEFINE flushed == unit \o before
           pushed == IF node.kind = "Invalid" THEN <<>> ELSE <<node>>
<1>4. AllCut(tokens, flushed \o pushed)
  <2> HIDE DEF flushed, pushed
  <2> QED
    BY <1>2, <1>3, CutConcat DEF flushed, pushed
<1>5. AllCut(tokens, unit')
  BY <1>1, <1>4
<1> QED
  BY <1>1, <1>5 DEF CutsInv

-----------------------------------------------------------------------------
(* The header of a function in source order.                               *)

\* The nodes hold one header, with these parts.
OneHeader(nodes, type, declarator, specification) ==
  \A r, d, h \in 1..Len(nodes) :
    HeaderAt(nodes, r, d, h) =>
      nodes[r] = type /\ nodes[d] = declarator /\ nodes[h] = specification

\* A header pushed with its failure specification: a success type, a name if
\* it has one the parser does not support, a declarator and the specification.
LEMMA HeaderKinds ==
  ASSUME NEW type, NEW name, NEW declarator, NEW specification, NEW supported \in BOOLEAN,
         type.kind = "FunctionReturnType", name.kind = "FunctionName",
         declarator.kind = "FunctionDeclarator", specification.kind = "FailureSpecification"
  PROVE  OneHeader(Append(<<type>> \o NoChildIf(supported, name) \o <<declarator>>, specification),
                   type, declarator, specification)
<1> DEFINE front == <<type>> \o NoChildIf(supported, name)
           header == front \o <<declarator>>
           nodes == Append(header, specification)
<1>1. /\ IsList(<<type>>) /\ Len(<<type>>) = 1 /\ <<type>>[1] = type
      /\ <<type>> \o <<>> = <<type>>
  BY SingletonList, NothingAppended
<1>2. \/ front = <<type>>
      \/ front = <<type>> \o <<name>>
  BY <1>1 DEF NoChildIf
<1>3. /\ IsList(front) /\ front[1] = type
      /\ Len(front) = 1 \/ (Len(front) = 2 /\ front[2] = name)
  <2>1. /\ IsList(<<type>> \o <<name>>) /\ Len(<<type>> \o <<name>>) = 2
        /\ (<<type>> \o <<name>>)[1] = type /\ (<<type>> \o <<name>>)[2] = name
    BY <1>1, PushedElement
  <2> HIDE DEF front
  <2> QED
    BY <1>1, <1>2, <2>1
<1> HIDE DEF front
<1>4. /\ IsList(header) /\ Len(header) = Len(front) + 1
      /\ \A k \in 1..Len(front) : header[k] = front[k]
      /\ header[Len(front) + 1] = declarator
  BY <1>3, PushedElement
<1> HIDE DEF header
<1>5. nodes = header \o <<specification>>
  BY <1>4, AppendIsConcat DEF IsList
<1>6. /\ Len(nodes) = Len(header) + 1
      /\ \A k \in 1..Len(header) : nodes[k] = header[k]
      /\ nodes[Len(header) + 1] = specification
  BY <1>4, <1>5, PushedElement
<1> HIDE DEF nodes
<1>7. CASE Len(front) = 1
  <2>1. Len(header) = 2 /\ header[1] = type /\ header[2] = declarator
    BY <1>3, <1>4, <1>7
  <2>2. Len(nodes) = 3 /\ nodes[1] = type /\ nodes[2] = declarator /\ nodes[3] = specification
    BY <1>6, <2>1
  <2>3. \A r, d, h \in 1..Len(nodes) :
          HeaderAt(nodes, r, d, h) =>
            nodes[r] = type /\ nodes[d] = declarator /\ nodes[h] = specification
    BY <2>2 DEF HeaderAt, HeadsBody
  <2> QED
    BY <2>3 DEF OneHeader, nodes, header, front
<1>8. CASE Len(front) = 2
  <2>1. Len(header) = 3 /\ header[1] = type /\ header[2] = name /\ header[3] = declarator
    BY <1>3, <1>4, <1>8
  <2>2. /\ Len(nodes) = 4 /\ nodes[1] = type /\ nodes[2] = name /\ nodes[3] = declarator
        /\ nodes[4] = specification
    BY <1>6, <2>1
  <2>3. \A r, d, h \in 1..Len(nodes) :
          HeaderAt(nodes, r, d, h) =>
            nodes[r] = type /\ nodes[d] = declarator /\ nodes[h] = specification
    BY <2>2 DEF HeaderAt, HeadsBody
  <2> QED
    BY <2>3 DEF OneHeader, nodes, header, front
<1> QED
  BY <1>3, <1>7, <1>8

\* The tokens of consecutive ranges, from an offset on.
LEMMA RangesHoldTheirTokens ==
  ASSUME IsTokenStream(tokens), NEW b \in 1..Len(tokens), NEW c \in b+1..Len(tokens),
         NEW at \in c+1..Len(tokens), NEW next \in at+1..Len(tokens),
         NEW i \in 1..next-1, tokens[b].begin <= tokens[i].begin
  PROVE  \/ Holds(tokens, RangeOfTokens(b, c), i) \/ Holds(tokens, RangeOfTokens(c, at), i)
         \/ Holds(tokens, RangeOfTokens(at, next), i)
<1>0. /\ Len(tokens) \in Nat
      /\ i \in 1..Len(tokens)-1 /\ i \in 1..Len(tokens) /\ i < next
      /\ c \in 1..Len(tokens) /\ at \in 1..Len(tokens)
      /\ c \in b+1..Len(tokens)+1 /\ at \in c+1..Len(tokens)+1 /\ next \in at+1..Len(tokens)+1
  BY StreamFacts
<1>1. b <= i
  <2>1. ASSUME i < b PROVE FALSE
    <3>1. tokens[i].end <= tokens[b].begin /\ tokens[i].begin < tokens[i].end
      BY <1>0, <2>1, StreamFacts
    <3>2. tokens[i].begin \in Nat /\ tokens[i].end \in Nat /\ tokens[b].begin \in Nat
      BY <1>0, StreamFacts
    <3>3. \A x, y, z \in Nat : ~(x < y /\ y <= z /\ z <= x)
      OBVIOUS
    <3> QED
      BY <3>1, <3>2, <3>3, Zenon
  <2> QED
    BY <1>0, <2>1
<1>2. ASSUME NEW x \in 1..Len(tokens), NEW y \in x+1..Len(tokens)+1, x <= i, i < y
      PROVE  Holds(tokens, RangeOfTokens(x, y), i)
  <2> DEFINE node == Node("", RangeOfTokens(x, y), <<>>)
  <2>1. node.range = RangeOfTokens(x, y)
    BY DEF Node
  <2> HIDE DEF node
  <2>2. Owns(node, i)
    BY <1>0, <1>2, <2>1, RangeOwnsItsTokens
  <2> QED
    BY <2>1, <2>2 DEF Owns, Holds
<1>3. CASE i < c
  BY <1>0, <1>1, <1>2, <1>3
<1>4. CASE c <= i /\ i < at
  BY <1>0, <1>2, <1>4
<1>5. CASE at <= i
  BY <1>0, <1>2, <1>5
<1> QED
  BY <1>0, <1>3, <1>4, <1>5

\* What a function starts with, when its failure specification is at token "at".
LEMMA SpecificationIsCut ==
  ASSUME IsTokenStream(tokens), NEW first \in 1..Len(tokens), NEW at \in first+1..Len(tokens),
         Kind(at) = "fails", NEW prefix, prefix.kind = "CxxRegion",
         StartsRegion(prefix.range, first)
  PROVE  LET header == Header(prefix, at)
             next == FailureSpecification(at).next
         IN  /\ HeaderCut(tokens, Append(header.children, FailureSpecification(at).node),
                          header.range.begin, next)
             /\ AllCut(tokens, header.before)
<1> DEFINE header == Header(prefix, at)
           spec == FailureSpecification(at)
           next == spec.next
           open == IF first < at THEN MatchingLeftParen(at - 1) ELSE NotFound
           begin == DeclarationBegin(first, open)
           successType == RangeOfTokens(begin, open - 1)
           type == Node("FunctionReturnType", successType, <<>>)
           name == Node("FunctionName", RangeOfTokens(open - 1, open), <<>>)
           declarator == Node("FunctionDeclarator", RangeOfTokens(open - 1, at), <<>>)
           children == Append(header.children, spec.node)
<1>1. PrefixBegin(prefix, at) = first
  BY PrefixBeginIsFirst
<1>2. /\ Len(tokens) \in Nat /\ first < at /\ at < Len(tokens)
      /\ at \in 1..Len(tokens) /\ at - 1 \in 1..Len(tokens) /\ first \in 1..at-1
  <2>1. at \in 1..Len(tokens) /\ Kind(at) # "EndOfFile"
    BY StreamFacts
  <2> QED
    BY <2>1, NextToken, StreamFacts
<1>3. spec.node.kind = "FailureSpecification"
  BY FailureSpecificationChecked DEF Checked
<1>4. next \in at+1..Len(tokens) /\ spec.node.range = RangeOfTokens(at, next)
  <2>1. Kind(at) # "EndOfFile"
    OBVIOUS
  <2> QED
    BY <1>2, <2>1, FailureSpecificationSpans DEF Spans
<1>5. CASE open \in {NotFound, first}
  <2>1. header.before = <<>> /\ header.children = <<prefix>>
    BY <1>1, <1>5 DEF Header
  <2>2. Len(children) = 2 /\ children[1] = prefix /\ children[2] = spec.node
    <3> DEFINE one == <<prefix>>
               more == spec.node
    <3>1. IsList(one) /\ Len(one) = 1 /\ one[1] = prefix
      BY SingletonList
    <3>2. children = Append(one, more)
      BY <2>1
    <3> HIDE DEF one, children, more
    <3>3. children = one \o <<more>>
      BY <3>1, <3>2, AppendIsConcat DEF IsList
    <3>4. /\ Len(children) = Len(one) + 1 /\ children[Len(one) + 1] = more
          /\ \A k \in 1..Len(one) : children[k] = one[k]
      <4>1. IsList(one)
        BY <3>1
      <4> QED
        BY <3>3, <4>1, PushedElement
    <3> QED
      BY <3>1, <3>4 DEF more
  <2> HIDE DEF spec, children, header
  <2>3. \A r, d, h \in 1..Len(children) : ~HeaderAt(children, r, d, h)
    BY <1>3, <2>2 DEF HeaderAt, HeadsBody
  <2>4. HeaderCut(tokens, children, header.range.begin, next)
    BY <2>3 DEF HeaderCut
  <2> QED
    BY <2>1, <2>4, NoneCut DEF header, spec, children
<1>6. CASE open \notin {NotFound, first}
  <2>1. /\ header.before = NoChildIf(begin <= first, CxxRegion(first, begin))
        /\ header.range = successType
        /\ header.children = <<type>> \o NoChildIf(~HasSupportedFunctionName(begin, open), name)
                             \o <<declarator>>
    BY <1>1, <1>6 DEF Header
  <2>2. open \in 1..at-1
    <3>1. open = MatchingLeftParen(at - 1) /\ MatchingLeftParen(at - 1) # NotFound
      BY <1>2, <1>6
    <3> HIDE DEF open
    <3> QED
      BY <1>2, <3>1, LeftParenBefore
  <2> HIDE DEF header, open, spec
  <2>3. begin \in Nat /\ first <= begin
    <3>1. first \in 1..Len(tokens)+1 /\ open \in 1..Len(tokens)
      BY <1>2, <2>2
    <3> QED
      BY <3>1, DeclarationBeginIsNatural
  <2>4. AllCut(tokens, header.before)
    <3> HIDE DEF begin
    <3>1. UnitCut(tokens, CxxRegion(first, begin))
      BY <2>3, OpaqueIsCut
    <3> QED
      BY <2>1, <3>1, CutOne, NoneCut DEF NoChildIf
  <2>5. \A r, d, h \in 1..Len(children) :
          HeaderAt(children, r, d, h) =>
            children[r] = type /\ children[d] = declarator /\ children[h] = spec.node
    <3>1. PICK supported \in BOOLEAN :
            header.children = <<type>> \o NoChildIf(supported, name) \o <<declarator>>
      <4> HIDE DEF type, name, declarator, begin
      <4>1. (~HasSupportedFunctionName(begin, open)) \in BOOLEAN
        OBVIOUS
      <4> QED
        BY <2>1, <4>1
    <3>2. /\ type.kind = "FunctionReturnType" /\ name.kind = "FunctionName"
          /\ declarator.kind = "FunctionDeclarator"
      BY DEF Node
    <3> DEFINE last == spec.node
    <3>3. last.kind = "FailureSpecification" /\ children = Append(header.children, last)
      BY <1>3
    <3> HIDE DEF type, name, declarator, last, children
    <3>4. children = Append(<<type>> \o NoChildIf(supported, name) \o <<declarator>>, last)
      BY <3>1, <3>3
    <3>5. OneHeader(Append(<<type>> \o NoChildIf(supported, name) \o <<declarator>>, last),
                    type, declarator, last)
      <4>1. last.kind = "FailureSpecification"
        BY <3>3
      <4> QED
        BY <3>2, <4>1, HeaderKinds
    <3>6. \A r, d, h \in 1..Len(children) :
            HeaderAt(children, r, d, h) =>
              children[r] = type /\ children[d] = declarator /\ children[h] = last
      BY <3>4, <3>5 DEF OneHeader
    <3> QED
      BY <3>6 DEF last
  <2>6. /\ type.range = successType /\ declarator.range = RangeOfTokens(open - 1, at)
    BY DEF Node
  <2> HIDE DEF type, declarator, begin, children, next
  <2> DEFINE parameters == RangeOfTokens(open - 1, at)
             contract == RangeOfTokens(at, next)
  <2>7. contract.begin = tokens[at].begin /\ tokens[at].begin \in Nat
    <3>1. next \in at+1..Len(tokens)+1
      BY <1>2, <1>4
    <3> QED
      BY <1>2, <3>1, TokensAreCut
  <2>8. /\ successType.end <= parameters.begin /\ parameters.end <= contract.begin
        /\ 0 <= successType.begin =>
             /\ successType.begin <= contract.begin
             /\ \A i \in 1..next-1 : successType.begin <= tokens[i].begin =>
                  \/ Holds(tokens, successType, i) \/ Holds(tokens, parameters, i)
                  \/ Holds(tokens, contract, i)
    <3>1. CASE begin < open - 1
      <4>1. /\ begin \in 1..Len(tokens) /\ open - 1 \in begin+1..Len(tokens)
            /\ open - 1 \in begin+1..Len(tokens)+1 /\ open - 1 \in 1..Len(tokens)
            /\ at \in (open-1)+1..Len(tokens) /\ at \in (open-1)+1..Len(tokens)+1
            /\ (open-1)-1 \in 1..Len(tokens) /\ (open-1)-1 < open-1 /\ at-1 < at
        BY <1>2, <2>2, <2>3, <3>1
      <4>2. successType.begin = tokens[begin].begin /\ successType.end = tokens[(open-1)-1].end
        BY <4>1, TokensAreCut
      <4>3. parameters.begin = tokens[open-1].begin /\ parameters.end = tokens[at-1].end
        BY <4>1, TokensAreCut
      <4>4. /\ tokens[(open-1)-1].end <= tokens[open-1].begin
            /\ tokens[at-1].end <= tokens[at].begin
        BY <1>2, <4>1, StreamFacts
      <4>5. ASSUME NEW i \in 1..next-1, successType.begin <= tokens[i].begin
            PROVE  \/ Holds(tokens, successType, i) \/ Holds(tokens, parameters, i)
                   \/ Holds(tokens, contract, i)
        <5>1. tokens[begin].begin <= tokens[i].begin
          BY <4>2, <4>5
        <5> QED
          BY <1>4, <4>1, <5>1, RangesHoldTheirTokens
      <4>6. tokens[begin].begin <= tokens[at].begin
        <5>1. begin <= at
          BY <4>1
        <5> QED
          BY <1>2, <4>1, <5>1, TokensAdvance
      <4> QED
        BY <2>7, <4>2, <4>3, <4>4, <4>5, <4>6
    <3>2. CASE ~(begin < open - 1)
      <4>1. successType = NoRange
        BY <3>2 DEF RangeOfTokens
      <4>2. successType.begin = -1 /\ successType.end = -1
        BY <4>1 DEF NoRange, Invalid
      <4>3. -1 <= parameters.begin /\ parameters.end <= tokens[at].begin
        <5>1. CASE open = 1
          <6>1. parameters = NoRange
            BY <5>1 DEF RangeOfTokens
          <6> QED
            BY <2>7, <6>1 DEF NoRange, Invalid
        <5>2. CASE open # 1
          <6>1. open - 1 \in 1..Len(tokens) /\ at \in (open-1)+1..Len(tokens)+1 /\ at - 1 < at
            BY <1>2, <2>2, <5>2
          <6>2. parameters.begin \in Nat /\ parameters.end = tokens[at-1].end
            BY <6>1, TokensAreCut
          <6>3. tokens[at-1].end <= tokens[at].begin
            BY <1>2, <6>1, StreamFacts
          <6> QED
            BY <6>2, <6>3
        <5> QED
          BY <5>1, <5>2
      <4> HIDE DEF successType, parameters
      <4>4. ~(0 <= successType.begin)
        BY <4>2
      <4> QED
        BY <2>7, <4>2, <4>3, <4>4
    <3> QED
      BY <3>1, <3>2
  <2>9. successType.begin <= successType.begin
    <3>1. successType.begin \in Int
      BY <2>3, <2>2, TokensRanged DEF IsRange
    <3> QED
      BY <3>1
  <2>10. HeaderCut(tokens, children, header.range.begin, next)
    <3> SUFFICES ASSUME NEW r \in 1..Len(children), NEW d \in 1..Len(children),
                        NEW h \in 1..Len(children), HeaderAt(children, r, d, h)
                 PROVE  /\ children[r].range.end <= children[d].range.begin
                        /\ children[d].range.end <= children[h].range.begin
                        /\ 0 <= header.range.begin =>
                             /\ header.range.begin <= children[r].range.begin
                             /\ header.range.begin <= children[h].range.begin
                             /\ \A i \in 1..next-1 : header.range.begin <= tokens[i].begin =>
                                  \E k \in {r, d, h} : Holds(tokens, children[k].range, i)
      BY DEF HeaderCut
    <3>1. /\ children[r].range = successType /\ children[d].range = parameters
          /\ children[h].range = contract
      BY <1>4, <2>5, <2>6
    <3> HIDE DEF successType, parameters, contract
    <3>2. header.range.begin = successType.begin
      BY <2>1
    <3> QED
      BY <2>8, <2>9, <3>1, <3>2
  <2> QED
    BY <2>4, <2>10 DEF header, spec, children, next
<1> QED
  BY <1>5, <1>6

-----------------------------------------------------------------------------
(* The body of a function in source order.                                 *)

\* Pushed behind its header, the failure specification starts the body.
LEMMA SpecificationStartsBody ==
  ASSUME IsTokenStream(tokens), NEW at \in 1..Len(tokens), Kind(at) = "fails",
         NEW prefix, prefix.kind = "CxxRegion"
  PROVE  LET children == Append(Header(prefix, at).children, FailureSpecification(at).node)
             next == FailureSpecification(at).next
         IN  /\ BodyCut(tokens, children, next, next)
             /\ \A h \in 1..Len(children) : HeadsBody(children, h) => h = Len(children)
<1> DEFINE header == Header(prefix, at).children
           node == FailureSpecification(at).node
           next == FailureSpecification(at).next
           children == Append(header, node)
<1>1. AllOther(header)
  BY HeaderHasNoConstruct
<1>2. node.kind = "FailureSpecification"
  BY FailureSpecificationChecked DEF Checked
<1>3. next \in at+1..Len(tokens) /\ node.range = RangeOfTokens(at, next)
  <2>1. Kind(at) # "EndOfFile"
    OBVIOUS
  <2> QED
    BY <2>1, FailureSpecificationSpans DEF Spans
<1> HIDE DEF header, node, next
<1>4. /\ Len(children) = Len(header) + 1 /\ Len(header) \in Nat
      /\ children[Len(header) + 1] = node
      /\ \A k \in 1..Len(header) : children[k] = header[k]
  <2>1. IsList(header) /\ children = header \o <<node>>
    BY <1>1, AppendIsConcat DEF AllOther, IsList
  <2> HIDE DEF children
  <2> QED
    BY <2>1, PushedElement
<1> HIDE DEF children
<1>5. \A k \in 1..Len(header) : children[k].kind # "FailureSpecification"
  BY <1>1, <1>4 DEF AllOther, Demanding
<1>6. \A h \in 1..Len(children) : HeadsBody(children, h) => h = Len(children)
  BY <1>4, <1>5 DEF HeadsBody
<1>7. ValidRange(node.range) /\ node.range.end = tokens[next-1].end /\ node.range.end \in Nat
  <2>1. next \in at+1..Len(tokens)+1
    BY <1>3, StreamFacts
  <2> QED
    BY <1>3, <2>1, TokensAreCut DEF ValidRange
<1>8. CutNode(tokens, node)
  <2>1. next \in Int /\ at \in Int
    BY <1>3
  <2>2. Aligned(tokens, node.range)
    BY <1>3, <2>1, TokensAreAligned
  <2> QED
    BY <1>2, <2>2 DEF CutNode, CutConstruct
<1>9. BodyCut(tokens, children, next, next)
  <2>1. SUFFICES ASSUME NEW h \in 1..Len(children), HeadsBody(children, h)
                 PROVE  /\ \A k \in h..Len(children) :
                             /\ ValidRange(children[k].range)
                             /\ children[k].range.end <= tokens[next-1].end
                             /\ CutNode(tokens, children[k])
                             /\ \A l \in h..k-1 : children[l].range.end <= children[k].range.begin
                        /\ \A i \in next..next-1 : FALSE
    BY DEF BodyCut
  <2>2. h = Len(children)
    BY <1>6, <2>1
  <2>3. \A k \in h..Len(children) : k = Len(children) /\ \A l \in h..k-1 : FALSE
    BY <1>4, <2>2
  <2>4. children[Len(children)] = node
    BY <1>4
  <2>5. \A i \in next..next-1 : FALSE
    BY <1>3
  <2> QED
    BY <1>7, <1>8, <2>3, <2>4, <2>5
<1> QED
  BY <1>6, <1>9 DEF children, header, node, next

\* The body stays where it is headed when a node is pushed.
LEMMA HeadStays ==
  ASSUME NEW nodes, IsList(nodes), Headed(nodes), NEW node,
         NEW h \in 1..Len(nodes \o <<node>>), HeadsBody(nodes \o <<node>>, h)
  PROVE  h \in 1..Len(nodes) /\ HeadsBody(nodes, h)
<1> DEFINE longer == nodes \o <<node>>
<1>1. /\ Len(nodes) \in Nat /\ Len(longer) = Len(nodes) + 1
      /\ \A k \in 1..Len(nodes) : longer[k] = nodes[k]
  BY PushedElement
<1>2. PICK g \in 1..Len(nodes) : nodes[g].kind = "FailureSpecification"
  BY DEF Headed
<1>3. h \in 1..Len(longer) /\ HeadsBody(longer, h)
  OBVIOUS
<1> HIDE DEF longer
<1>4. h \in 1..Len(nodes)
  BY <1>1, <1>2, <1>3 DEF HeadsBody
<1> QED
  BY <1>1, <1>3, <1>4 DEF HeadsBody

LEMMA HeaderCutExtends ==
  ASSUME NEW nodes, IsList(nodes), Headed(nodes), NEW node, NEW begin, NEW to,
         HeaderCut(tokens, nodes, begin, to)
  PROVE  HeaderCut(tokens, nodes \o <<node>>, begin, to)
<1> DEFINE longer == nodes \o <<node>>
<1>1. /\ Len(nodes) \in Nat /\ Len(longer) = Len(nodes) + 1
      /\ \A k \in 1..Len(nodes) : longer[k] = nodes[k]
  BY PushedElement
<1>2. ASSUME NEW r \in 1..Len(longer), NEW d \in 1..Len(longer), NEW h \in 1..Len(longer),
             HeaderAt(longer, r, d, h)
      PROVE  /\ HeaderAt(nodes, r, d, h)
             /\ r \in 1..Len(nodes) /\ d \in 1..Len(nodes) /\ h \in 1..Len(nodes)
             /\ longer[r] = nodes[r] /\ longer[d] = nodes[d] /\ longer[h] = nodes[h]
  <2>1. h \in 1..Len(nodes) /\ HeadsBody(nodes, h)
    BY <1>2, HeadStays DEF HeaderAt
  <2>2. r \in 1..Len(nodes) /\ d \in 1..Len(nodes)
    BY <1>1, <1>2, <2>1 DEF HeaderAt
  <2> QED
    BY <1>1, <1>2, <2>1, <2>2 DEF HeaderAt
<1> HIDE DEF longer
<1>3. HeaderCut(tokens, longer, begin, to)
  <2> SUFFICES ASSUME NEW r \in 1..Len(longer), NEW d \in 1..Len(longer),
                      NEW h \in 1..Len(longer), HeaderAt(longer, r, d, h)
               PROVE  /\ longer[r].range.end <= longer[d].range.begin
                      /\ longer[d].range.end <= longer[h].range.begin
                      /\ 0 <= begin =>
                           /\ begin <= longer[r].range.begin /\ begin <= longer[h].range.begin
                           /\ \A i \in 1..to-1 : begin <= tokens[i].begin =>
                                \E k \in {r, d, h} : Holds(tokens, longer[k].range, i)
    BY DEF HeaderCut
  <2>1. /\ HeaderAt(nodes, r, d, h)
        /\ r \in 1..Len(nodes) /\ d \in 1..Len(nodes) /\ h \in 1..Len(nodes)
        /\ longer[r] = nodes[r] /\ longer[d] = nodes[d] /\ longer[h] = nodes[h]
    BY <1>2
  <2> QED
    BY <2>1 DEF HeaderCut
<1> QED
  BY <1>3 DEF longer

\* A node pushed where the body ends extends it.
LEMMA BodyCutExtends ==
  ASSUME IsTokenStream(tokens), NEW from \in 1..Len(tokens), NEW to \in 2..Len(tokens), from <= to,
         NEW next \in to+1..Len(tokens),
         NEW nodes, AllRanged(nodes), Headed(nodes), BodyCut(tokens, nodes, from, to),
         NEW node, node.range = RangeOfTokens(to, next), CutNode(tokens, node)
  PROVE  BodyCut(tokens, nodes \o <<node>>, from, next)
<1> DEFINE longer == nodes \o <<node>>
           n == Len(nodes)
<1>1. /\ n \in Nat /\ Len(longer) = n + 1 /\ longer[n + 1] = node
      /\ \A k \in 1..n : longer[k] = nodes[k]
  BY PushedElement DEF AllRanged
<1>2. ASSUME NEW h \in 1..Len(longer), HeadsBody(longer, h)
      PROVE  h \in 1..n /\ HeadsBody(nodes, h)
  BY <1>2, HeadStays DEF AllRanged
<1>3. /\ Len(tokens) \in Nat /\ to - 1 \in 1..Len(tokens) /\ to \in 1..Len(tokens)
      /\ next - 1 \in 1..Len(tokens) /\ to - 1 < to /\ to - 1 <= next - 1
      /\ next \in to+1..Len(tokens)+1
  BY StreamFacts
<1>4. PICK x, y, z \in Nat :
        x = tokens[to-1].end /\ y = tokens[to].begin /\ z = tokens[next-1].end
  BY <1>3, StreamFacts
<1>5. x <= y /\ x <= z
  BY <1>3, <1>4, StreamFacts, TokensAdvance
<1>6. /\ ValidRange(node.range) /\ node.range.end = z /\ node.range.begin = y
  BY <1>3, <1>4, TokensAreCut DEF ValidRange
<1>7. \A k \in 1..n : nodes[k].range.end \in Int
  BY DEF AllRanged, RangedTwice, Ranged, IsRange
<1> HIDE DEF longer
<1>8. ASSUME NEW h \in 1..Len(longer), HeadsBody(longer, h), NEW k \in h..Len(longer)
      PROVE  /\ ValidRange(longer[k].range) /\ longer[k].range.end <= tokens[next-1].end
             /\ CutNode(tokens, longer[k])
             /\ \A l \in h..k-1 : longer[l].range.end <= longer[k].range.begin
  <2>1. h \in 1..n /\ HeadsBody(nodes, h)
    BY <1>2, <1>8
  <2>2. \A l \in h..n : /\ ValidRange(nodes[l].range) /\ nodes[l].range.end <= x
                        /\ CutNode(tokens, nodes[l])
                        /\ \A m \in h..l-1 : nodes[m].range.end <= nodes[l].range.begin
    BY <1>4, <2>1 DEF BodyCut
  <2>3. CASE k = n + 1
    <3>1. \A l \in h..k-1 : longer[l].range.end <= longer[k].range.begin
      <4> SUFFICES ASSUME NEW l \in h..k-1
                   PROVE  longer[l].range.end <= longer[k].range.begin
        OBVIOUS
      <4>1. l \in h..n /\ l \in 1..n
        BY <1>1, <2>1, <2>3
      <4>2. longer[l] = nodes[l] /\ longer[k] = node
        BY <1>1, <2>3, <4>1
      <4>3. nodes[l].range.end <= x /\ nodes[l].range.end \in Int
        BY <1>7, <2>2, <4>1
      <4> QED
        BY <1>5, <1>6, <4>2, <4>3
    <3>2. longer[k] = node
      BY <1>1, <2>3
    <3>3. z <= tokens[next-1].end
      BY <1>4
    <3> QED
      BY <1>6, <3>1, <3>2, <3>3
  <2>4. CASE k # n + 1
    <3>1. k \in h..n /\ k \in 1..n
      BY <1>1, <1>8, <2>1, <2>4
    <3>2. longer[k] = nodes[k] /\ nodes[k].range.end \in Int /\ nodes[k].range.end <= x
      BY <1>1, <1>7, <2>2, <3>1
    <3>3. longer[k].range.end <= tokens[next-1].end
      <4>1. nodes[k].range.end <= z
        BY <1>5, <3>2
      <4> QED
        BY <1>4, <3>2, <4>1
    <3>4. \A l \in h..k-1 : longer[l] = nodes[l]
      BY <1>1, <2>1, <3>1
    <3> QED
      BY <2>2, <3>1, <3>2, <3>3, <3>4
  <2> QED
    BY <2>3, <2>4
<1>9. ASSUME NEW h \in 1..Len(longer), HeadsBody(longer, h), NEW i \in from..next-1
      PROVE  \E k \in h..Len(longer) : Holds(tokens, longer[k].range, i)
  <2>1. h \in 1..n /\ HeadsBody(nodes, h)
    BY <1>2, <1>9
  <2>2. CASE i < to
    <3>1. i \in from..to-1
      BY <1>3, <2>2
    <3>2. PICK k \in h..n : Holds(tokens, nodes[k].range, i)
      BY <2>1, <3>1 DEF BodyCut
    <3>3. k \in h..Len(longer) /\ longer[k] = nodes[k]
      BY <1>1, <2>1
    <3> QED
      BY <3>2, <3>3
  <2>3. CASE ~(i < to)
    <3>1. i \in 1..Len(tokens)-1 /\ to <= i /\ i < next
      BY <1>3, <2>3
    <3>2. Owns(node, i)
      BY <1>3, <3>1, RangeOwnsItsTokens
    <3>3. n + 1 \in h..Len(longer) /\ longer[n + 1] = node
      BY <1>1, <2>1
    <3>4. Holds(tokens, node.range, i)
      BY <3>2 DEF Owns, Holds
    <3> QED
      BY <3>3, <3>4
  <2> QED
    BY <2>2, <2>3
<1>10. BodyCut(tokens, longer, from, next)
  <2> SUFFICES ASSUME NEW h \in 1..Len(longer), HeadsBody(longer, h)
               PROVE  /\ \A k \in h..Len(longer) :
                           /\ ValidRange(longer[k].range)
                           /\ longer[k].range.end <= tokens[next-1].end
                           /\ CutNode(tokens, longer[k])
                           /\ \A l \in h..k-1 : longer[l].range.end <= longer[k].range.begin
                      /\ \A i \in from..next-1 :
                           \E k \in h..Len(longer) : Holds(tokens, longer[k].range, i)
    BY DEF BodyCut
  <2> QED
    BY <1>8, <1>9
<1> QED
  BY <1>10 DEF longer

\* The function under construction, up to token "to".
BodyIsCut(stream, nodes, begin, from, to) ==
  HeaderCut(stream, nodes, begin, from) /\ BodyCut(stream, nodes, from, to)

\* So does the open region, if it is not empty.
LEMMA RegionCutExtends ==
  ASSUME IsTokenStream(tokens), NEW from \in 1..Len(tokens), NEW to \in 2..Len(tokens), from <= to,
         NEW end \in to..Len(tokens), function.regionBegin = to, NEW begin,
         AllRanged(function.children), Ordered(function.children, to),
         BodyIsCut(tokens, function.children, begin, from, to)
  PROVE  /\ AllRanged(function.children \o OpenRegion(end))
         /\ Ordered(function.children \o OpenRegion(end), end)
         /\ BodyIsCut(tokens, function.children \o OpenRegion(end), begin, from, end)
<1>1. Ordered(function.children \o OpenRegion(end), end) /\ IsList(function.children)
  BY RegionOrdered DEF Ordered
<1>2. AllRanged(function.children \o OpenRegion(end))
  <2>1. end \in Int /\ function.regionBegin \in Int
    OBVIOUS
  <2>2. AllRanged(OpenRegion(end))
    BY <2>1, OpenRegionRanged
  <2> QED
    BY <2>2, RangedConcat
<1>3. CASE end = to
  <2>1. OpenRegion(end) = <<>>
    BY <1>3 DEF OpenRegion, NoChildIf
  <2>2. function.children \o OpenRegion(end) = function.children
    BY <1>1, <2>1, NothingAppended
  <2> QED
    BY <1>1, <1>2, <1>3, <2>2
<1>4. CASE end # to
  <2> DEFINE region == CxxRegion(to, end)
  <2>1. end \in to+1..Len(tokens) /\ to < end /\ to <= Len(tokens) /\ ~(end <= to)
        /\ to \in Int /\ end \in Int
    BY <1>4, StreamFacts
  <2>2. OpenRegion(end) = <<region>> /\ region.range = RangeOfTokens(to, end)
    BY <2>1 DEF OpenRegion, NoChildIf, CxxRegion, Node
  <2>3. CutNode(tokens, region)
    BY <2>1, OpaqueIsCut
  <2> HIDE DEF region
  <2>4. Headed(function.children)
    BY DEF Ordered
  <2>5. HeaderCut(tokens, function.children \o <<region>>, begin, from)
    BY <1>1, <2>4, HeaderCutExtends DEF BodyIsCut
  <2>6. BodyCut(tokens, function.children \o <<region>>, from, end)
    BY <2>1, <2>2, <2>3, <2>4, BodyCutExtends DEF BodyIsCut
  <2> QED
    BY <1>1, <1>2, <2>2, <2>5, <2>6 DEF BodyIsCut
<1> QED
  BY <1>3, <1>4

\* A construct pushed behind the open region.
LEMMA BodyPushIsCut ==
  ASSUME IInv, TreeInv, RangesInv, CutsInv, phase = "body",
         NEW regionEnd \in function.regionBegin..position,
         NEW parsed, Spans(parsed, regionEnd, position), IsList(parsed.errors),
         ParsedCut(parsed), PushBodyConstruct(regionEnd, parsed)
  PROVE  CutsInv'
<1> DEFINE node == parsed.node
           next == parsed.next
           before == OpenRegion(regionEnd)
           longer == function.children \o (before \o <<node>>)
           to == function.regionBegin
           from == function.bodyBegin
           begin == function.range.begin
<1>1. /\ IsTokenStream(tokens) /\ Len(tokens) \in Nat /\ position \in 1..Len(tokens)
      /\ to \in 2..Len(tokens) /\ from \in 2..Len(tokens) /\ to \in from..position
      /\ FunctionIsRecord /\ IsList(syntaxErrors)
      /\ Ordered(function.children, to) /\ IsList(function.children)
  BY BodyTreeFacts
<1>2. /\ UNCHANGED <<tokens, phase, unit, pending>>
      /\ syntaxErrors' = syntaxErrors \o parsed.errors
      /\ function' = [function EXCEPT !.children = longer, !.regionBegin = next]
  BY DEF PushBodyConstruct, WithChildren
<1>3. next \in position+1..Len(tokens) /\ node.range = RangeOfTokens(regionEnd, next)
  BY DEF Spans
<1>4. /\ regionEnd \in to..Len(tokens) /\ regionEnd \in 2..Len(tokens)
      /\ next \in regionEnd+1..Len(tokens) /\ from <= to /\ from <= regionEnd
      /\ from \in 1..Len(tokens)
  BY <1>1, <1>3
<1>5. IsList(syntaxErrors') /\ (Clean' => Clean /\ parsed.errors = <<>>)
  BY <1>1, <1>2, ErrorsGrow
<1>6. IsList(before)
  BY <1>1, <1>4, RegionOrdered
<1> HIDE DEF node, next, before
<1>7. longer = (function.children \o before) \o <<node>>
  <2>1. IsList(<<node>>)
    BY SingletonList
  <2>2. function.children \o (before \o <<node>>) = (function.children \o before) \o <<node>>
    <3>1. IsList(function.children) /\ IsList(before)
      BY <1>1, <1>6
    <3>2. \A s : IsList(s) => s \o (before \o <<node>>) = (s \o before) \o <<node>>
      BY <2>1, <3>1, ListsAssociate
    <3> QED
      BY <3>1, <3>2
  <2> QED
    BY <2>2 DEF longer, before, node
<1> HIDE DEF longer, to, from, begin
<1>8. function' = [children |-> longer, range |-> function.range,
                   bodyBegin |-> function.bodyBegin,
                   regionBegin |-> next, braceDepth |-> function.braceDepth]
  BY <1>1, <1>2 DEF FunctionIsRecord, node, next, before
<1>9. /\ function'.children = longer /\ function'.range.begin = begin
      /\ function'.bodyBegin = from /\ function'.regionBegin = next
  BY <1>8 DEF begin, from
<1>10. ASSUME Clean'
       PROVE  /\ HeaderCut(tokens, longer, begin, from) /\ BodyCut(tokens, longer, from, next)
              /\ AllCut(tokens, unit) /\ AllCut(tokens, pending)
  <2>1. /\ AllCut(tokens, unit) /\ AllCut(tokens, pending)
        /\ BodyIsCut(tokens, function.children, begin, from, to)
    BY <1>5, <1>10 DEF CutsInv, BodyIsCut, begin, from, to
  <2>2. AllRanged(function.children)
    BY DEF RangesInv
  <2> DEFINE s == function.children \o before
  <2>3. AllRanged(s) /\ Ordered(s, regionEnd) /\ BodyIsCut(tokens, s, begin, from, regionEnd)
    BY <1>1, <1>4, <2>1, <2>2, RegionCutExtends DEF before, to
  <2>4. CutNode(tokens, node)
    BY <1>5, <1>10 DEF ParsedCut, node
  <2> HIDE DEF s
  <2>5. HeaderCut(tokens, s \o <<node>>, begin, from)
    BY <2>3, HeaderCutExtends DEF BodyIsCut, Ordered
  <2>6. BodyCut(tokens, s \o <<node>>, from, next)
    BY <1>1, <1>3, <1>4, <2>3, <2>4, BodyCutExtends DEF BodyIsCut, Ordered
  <2> QED
    BY <1>7, <2>1, <2>5, <2>6 DEF s
<1> QED
  BY <1>2, <1>9, <1>10 DEF CutsInv

\* A declaration with the body between its braces.
LEMMA ClosedFunctionCut ==
  ASSUME IInv, TreeInv, RangesInv, CutsInv, Clean, phase = "body",
         NEW end \in function.regionBegin..Len(tokens), end > 1,
         NEW node, node.children = function.children \o OpenRegion(end),
         node.range.begin = function.range.begin, node.range.end = tokens[end-1].end
  PROVE  FunctionCut(tokens, node)
<1> DEFINE nodes == node.children
           from == function.bodyBegin
           begin == function.range.begin
<1>1. /\ IsTokenStream(tokens) /\ Len(tokens) \in Nat
      /\ function.regionBegin \in 2..Len(tokens) /\ from \in 2..Len(tokens)
      /\ from \in 1..Len(tokens) /\ from <= function.regionBegin
      /\ Ordered(function.children, function.regionBegin)
      /\ begin \in Int
  BY BodyTreeFacts DEF FunctionGood
<1>2. /\ AllRanged(nodes) /\ Ordered(nodes, end) /\ BodyIsCut(tokens, nodes, begin, from, end)
  <2>1. BodyIsCut(tokens, function.children, begin, from, function.regionBegin)
    BY DEF CutsInv, BodyIsCut
  <2>2. AllRanged(function.children)
    BY DEF RangesInv
  <2> QED
    BY <1>1, <2>1, <2>2, RegionCutExtends
<1>3. end - 1 \in 1..Len(tokens) /\ end - 1 < end
  BY <1>1
<1>4. PICK z \in Nat : z = tokens[end-1].end
  BY <1>1, <1>3, StreamFacts
<1>5. node.range.end = z /\ node.range.begin = begin /\ Last(nodes).range.end = z
  BY <1>2, <1>4 DEF Ordered, Last
<1>6. \A k \in 1..Len(nodes) : nodes[k].range.begin \in Int /\ nodes[k].range.end \in Int
  BY <1>2 DEF AllRanged, RangedTwice, Ranged, IsRange
<1> SUFFICES ASSUME NEW r \in 1..Len(nodes), NEW d \in 1..Len(nodes), NEW h \in 1..Len(nodes),
                    HeaderAt(nodes, r, d, h), Reached(node, h)
             PROVE  /\ Complete(node)
                    /\ node.range.begin <= nodes[r].range.begin
                    /\ nodes[r].range.end <= nodes[d].range.begin
                    /\ nodes[d].range.end <= nodes[h].range.begin
                    /\ \A k \in h..Len(nodes) :
                         /\ ValidRange(nodes[k].range) /\ nodes[k].range.end <= node.range.end
                         /\ CutNode(tokens, nodes[k])
                         /\ \A l \in h..k-1 : nodes[l].range.end <= nodes[k].range.begin
                    /\ \A i \in 1..Len(tokens)-1 : Holds(tokens, node.range, i) =>
                         \E k \in {r, d} \cup (h..Len(nodes)) : Holds(tokens, nodes[k].range, i)
  BY DEF FunctionCut
<1> HIDE DEF nodes, from, begin
<1>7. 0 <= begin
  BY <1>5 DEF Reached
<1>8. /\ nodes[r].range.end <= nodes[d].range.begin
      /\ nodes[d].range.end <= nodes[h].range.begin
      /\ begin <= nodes[r].range.begin /\ begin <= nodes[h].range.begin
      /\ \A i \in 1..from-1 : begin <= tokens[i].begin =>
           \E k \in {r, d, h} : Holds(tokens, nodes[k].range, i)
  BY <1>2, <1>7 DEF BodyIsCut, HeaderCut
<1>9. /\ \A k \in h..Len(nodes) :
           /\ ValidRange(nodes[k].range) /\ nodes[k].range.end <= z
           /\ CutNode(tokens, nodes[k])
           /\ \A l \in h..k-1 : nodes[l].range.end <= nodes[k].range.begin
      /\ \A i \in from..end-1 : \E k \in h..Len(nodes) : Holds(tokens, nodes[k].range, i)
  BY <1>2, <1>4 DEF BodyIsCut, BodyCut, HeaderAt
<1>10. h \in h..Len(nodes) /\ {r, d, h} \subseteq {r, d} \cup (h..Len(nodes))
  <2>1. Len(nodes) \in Int
    OBVIOUS
  <2> QED
    BY <2>1
<1>11. Complete(node)
  <2>1. begin <= nodes[h].range.begin /\ nodes[h].range.begin <= nodes[h].range.end
        /\ nodes[h].range.end <= z
    BY <1>8, <1>9, <1>10 DEF ValidRange
  <2>2. begin <= z
    BY <1>1, <1>6, <2>1
  <2> QED
    BY <1>5, <1>7, <2>2 DEF Complete, ValidRange, nodes
<1>12. ASSUME NEW i \in 1..Len(tokens)-1, Holds(tokens, node.range, i)
       PROVE  \E k \in {r, d} \cup (h..Len(nodes)) : Holds(tokens, nodes[k].range, i)
  <2>1. begin <= tokens[i].begin /\ tokens[i].end <= z
    BY <1>5, <1>12 DEF Holds, Within
  <2>2. i < end
    <3>1. SUFFICES ASSUME ~(i < end) PROVE FALSE
      OBVIOUS
    <3>2. i \in 1..Len(tokens) /\ i < Len(tokens) /\ end - 1 < i
      BY <1>1, <3>1
    <3>3. /\ tokens[end-1].end <= tokens[i].begin /\ tokens[i].begin < tokens[i].end
          /\ tokens[i].begin \in Nat /\ tokens[i].end \in Nat
      BY <1>1, <1>3, <3>2, StreamFacts
    <3> QED
      BY <1>4, <2>1, <3>3
  <2>3. CASE i < from
    <3>1. i \in 1..from-1
      BY <1>1, <2>3
    <3>2. \E k \in {r, d, h} : Holds(tokens, nodes[k].range, i)
      BY <1>8, <2>1, <3>1
    <3> QED
      BY <1>10, <3>2
  <2>4. CASE ~(i < from)
    <3>1. i \in from..end-1
      BY <1>1, <2>2, <2>4
    <3>2. \E k \in h..Len(nodes) : Holds(tokens, nodes[k].range, i)
      BY <1>9, <3>1
    <3> QED
      BY <3>2
  <2> QED
    BY <2>3, <2>4
<1> QED
  BY <1>5, <1>8, <1>9, <1>11, <1>12 DEF nodes

\* A declaration that is not cut short ends with its last token.
LEMMA DeclarationIsAligned ==
  ASSUME IsTokenStream(tokens), NEW to \in 2..Len(tokens), NEW node,
         node.kind = "FunctionDeclaration", IsRange(node.range), Ordered(node.children, to)
  PROVE  Complete(node) => Aligned(tokens, node.range)
<1> SUFFICES ASSUME Complete(node) PROVE Aligned(tokens, node.range)
  OBVIOUS
<1>1. ValidRange(node.range) /\ node.range.end = tokens[to-1].end
  BY DEF Complete, Ordered, Last
<1>2. node.range.begin \in Nat
  BY <1>1 DEF ValidRange, IsRange
<1>3. to - 1 \in 1..Len(tokens)
  BY StreamFacts
<1> QED
  BY <1>1, <1>2, <1>3, EndAligns

\* What was pushed counts only while nothing is reported.
LEMMA PushIfCleanIsCut ==
  ASSUME CutsInv, phase # "done", UNCHANGED tokens, NEW before, NEW node, Clean' => Clean,
         Clean' => AllCut(tokens, before) /\ UnitCut(tokens, node), PushTopLevel(before, node)
  PROVE  CutsInv'
<1>1. CASE Clean'
  <2>1. AllCut(tokens, unit) /\ AllCut(tokens, before) /\ UnitCut(tokens, node)
    BY <1>1 DEF CutsInv
  <2> QED
    BY <2>1, PushIsCut
<1>2. CASE ~Clean'
  BY <1>2 DEF CutsInv
<1> QED
  BY <1>1, <1>2

LEMMA TopLevelConstructIsCut == IInv /\ TreeInv /\ CutsInv /\ ParseTopLevelConstruct => CutsInv'
<1> SUFFICES ASSUME IInv, TreeInv, CutsInv, ParseTopLevelConstruct PROVE CutsInv'
  OBVIOUS
<1> DEFINE parsed == Construct(position)
<1>1. /\ phase = "unit" /\ StartsConstruct(position) /\ UNCHANGED tokens
      /\ PushTopLevel(<<>>, parsed.node)
      /\ syntaxErrors' = syntaxErrors \o parsed.errors
  BY DEF ParseTopLevelConstruct
<1>2. /\ IsTokenStream(tokens) /\ position \in 1..Len(tokens) /\ IsList(syntaxErrors)
  BY TreeFacts
<1>3. parsed.node.kind \in Demanding /\ IsList(parsed.errors)
  BY <1>1, <1>2, ConstructChecked DEF Checked
<1>4. ParsedCut(parsed)
  BY <1>1, <1>2, ConstructCut
<1> HIDE DEF parsed
<1>5. Clean' => Clean /\ parsed.errors = <<>>
  BY <1>1, <1>2, <1>3, ErrorsGrow
<1>6. Clean' => AllCut(tokens, <<>>) /\ UnitCut(tokens, parsed.node)
  BY <1>3, <1>4, <1>5, NoneCut DEF ParsedCut, CutNode, UnitCut, Demanding
<1> QED
  BY <1>1, <1>5, <1>6, PushIfCleanIsCut

LEMMA TopLevelRegionIsCut == IInv /\ TreeInv /\ CutsInv /\ ParseTopLevelRegion => CutsInv'
<1> SUFFICES ASSUME IInv, TreeInv, CutsInv, ParseTopLevelRegion PROVE CutsInv'
  OBVIOUS
<1> DEFINE region == TopLevelRegion(position)
           node == region.node
           next == region.next
<1>1. /\ phase = "unit" /\ ~AtEnd(position) /\ ~StartsConstruct(position)
      /\ UNCHANGED <<tokens, syntaxErrors>> /\ PushTopLevel(<<>>, node)
  BY DEF ParseTopLevelRegion
<1>2. /\ IsTokenStream(tokens) /\ position \in 1..Len(tokens) /\ Len(tokens) \in Nat
  BY TreeFacts
<1>3. next \in position+1..Len(tokens) /\ node.range.end = tokens[next].begin
  BY <1>1, RegionAdvances
<1>4. node.kind = "CxxRegion" /\ StartsRegion(node.range, position)
  BY <1>1, RegionSpans
<1> HIDE DEF region, node, next
<1>5. node.range.begin \in Nat
  BY <1>2, <1>4, RegionStarts
<1>6. next \in 1..Len(tokens)
  BY <1>2, <1>3
<1>7. Aligned(tokens, node.range)
  BY <1>2, <1>3, <1>5, <1>6, EndAligns
<1>8. UnitCut(tokens, node)
  BY <1>4, <1>7 DEF UnitCut
<1>9. Clean' => Clean
  BY <1>1 DEF Clean
<1> QED
  BY <1>1, <1>8, <1>9, NoneCut, PushIfCleanIsCut

LEMMA HeaderIsCut == IInv /\ TreeInv /\ CutsInv /\ ParseFunctionHeader => CutsInv'
<1> SUFFICES ASSUME IInv, TreeInv, CutsInv, ParseFunctionHeader PROVE CutsInv'
  OBVIOUS
<1> DEFINE region == TopLevelRegion(position)
           at == region.next
           prefix == region.node
           header == Header(prefix, at)
           specification == FailureSpecification(at)
           next == specification.next
           children == Append(header.children, specification.node)
<1>1. /\ phase = "unit" /\ ~AtEnd(position) /\ ~StartsConstruct(position)
      /\ Kind(at) = "fails" /\ UNCHANGED tokens
      /\ syntaxErrors' = syntaxErrors \o specification.errors
      /\ IF Kind(next) = "{" THEN OpenBody(header, specification)
                             ELSE DeclareOnly(header, specification)
  BY DEF ParseFunctionHeader
<1>2. /\ IsTokenStream(tokens) /\ position \in 1..Len(tokens) /\ Len(tokens) \in Nat
      /\ IsList(syntaxErrors)
  BY TreeFacts
<1>3. at \in position+1..Len(tokens)
  BY <1>1, RegionAdvances
<1>4. RangedTwice(prefix) /\ prefix.kind = "CxxRegion" /\ StartsRegion(prefix.range, position)
  BY <1>1, RegionRanged, RegionSpans
<1> HIDE DEF region, at, prefix
<1>5. at \in 2..Len(tokens) /\ at \in 1..Len(tokens) /\ Kind(at) # "EndOfFile"
  <2>1. Kind(at) # "EndOfFile"
    BY <1>1
  <2> QED
    BY <1>2, <1>3, <2>1
<1>6. next \in at+1..Len(tokens) /\ IsList(specification.errors)
  BY <1>2, <1>5, FailureSpecificationSpans, FailureSpecificationChecked DEF Spans, Checked
<1>7. Clean' => Clean
  BY <1>1, <1>2, <1>6, ErrorsGrow
<1>8. HeaderCut(tokens, children, header.range.begin, next) /\ AllCut(tokens, header.before)
  BY <1>1, <1>2, <1>3, <1>4, SpecificationIsCut
<1>9. /\ BodyCut(tokens, children, next, next)
      /\ \A h \in 1..Len(children) : HeadsBody(children, h) => h = Len(children)
  BY <1>1, <1>2, <1>4, <1>5, SpecificationStartsBody
<1>10. Ordered(children, next)
  BY <1>1, <1>2, <1>4, <1>5, SpecificationPushed
<1>11. IsRange(header.range) /\ IsRange(ExtendedTo(header.range, specification.node.range))
  <2>1. IsRange(header.range)
    BY <1>2, <1>4, <1>5, HeaderRanged
  <2>2. RangedTwice(specification.node)
    BY <1>2, <1>5, FailureSpecificationRanged
  <2> QED
    BY <2>1, <2>2 DEF ExtendedTo, IsRange, RangedTwice, Ranged
<1>12. next \in 2..Len(tokens)
  BY <1>5, <1>6
<1> HIDE DEF header, specification, children, next
<1>13. CASE Kind(next) # "{"
  <2>1. PICK range : /\ range \in {ExtendedTo(header.range, specification.node.range), header.range}
                     /\ PushTopLevel(header.before, Node("FunctionDeclaration", range, children))
    BY <1>1, <1>13 DEF DeclareOnly, children
  <2> DEFINE node == Node("FunctionDeclaration", range, children)
  <2>2. /\ node.kind = "FunctionDeclaration" /\ node.range = range /\ node.children = children
    BY DEF Node
  <2>3. PushTopLevel(header.before, node)
    BY <2>1
  <2> HIDE DEF node
  <2>4. IsRange(node.range)
    BY <1>11, <2>1, <2>2
  <2>5. Complete(node) => Aligned(tokens, node.range)
    BY <1>2, <1>10, <1>12, <2>2, <2>4, DeclarationIsAligned
  <2>6. FunctionCut(tokens, node)
    BY <1>9, <2>2 DEF FunctionCut, HeaderAt, Reached
  <2>7. UnitCut(tokens, node)
    BY <2>5, <2>6 DEF UnitCut
  <2> QED
    BY <1>1, <1>7, <1>8, <2>3, <2>7, PushIfCleanIsCut
<1>14. CASE Kind(next) = "{"
  <2>1. /\ phase' = "body" /\ unit' = unit /\ pending' = header.before
        /\ function' = [children |-> children, range |-> header.range,
                        bodyBegin |-> next, regionBegin |-> next, braceDepth |-> 1]
    BY <1>1, <1>14 DEF OpenBody, children, next
  <2>2. /\ function'.children = children /\ function'.range.begin = header.range.begin
        /\ function'.bodyBegin = next /\ function'.regionBegin = next
    BY <2>1
  <2> QED
    BY <1>1, <1>7, <1>8, <1>9, <2>1, <2>2 DEF CutsInv
<1> QED
  BY <1>13, <1>14

LEMMA BodyReturnIsCut == IInv /\ TreeInv /\ RangesInv /\ CutsInv /\ ParseBodyReturn => CutsInv'
<1> SUFFICES ASSUME IInv, TreeInv, RangesInv, CutsInv, ParseBodyReturn PROVE CutsInv'
  OBVIOUS
<1> DEFINE parsed == ReturnStatement(position)
<1>1. InBody /\ PushBodyConstruct(position, parsed)
  BY DEF ParseBodyReturn
<1>2. /\ Spans(parsed, position, position) /\ IsList(parsed.errors) /\ ParsedCut(parsed)
  BY <1>1, BodyFacts, ReturnStatementSpans, ReturnStatementChecked, ReturnStatementCut DEF Checked
<1>3. phase = "body" /\ position \in function.regionBegin..position
  BY <1>1, BodyFacts
<1> HIDE DEF parsed
<1> QED
  BY <1>1, <1>2, <1>3, BodyPushIsCut

LEMMA BodyTryInitializationIsCut ==
  IInv /\ TreeInv /\ RangesInv /\ CutsInv /\ ParseBodyTryInitialization => CutsInv'
<1> SUFFICES ASSUME IInv, TreeInv, RangesInv, CutsInv, ParseBodyTryInitialization PROVE CutsInv'
  OBVIOUS
<1> DEFINE declaration == TryInitializationBegin(position, function.regionBegin)
           parsed == TryInitialization(declaration, position)
<1>1. InBody /\ declaration # NotFound /\ PushBodyConstruct(declaration, parsed)
  BY DEF ParseBodyTryInitialization
<1>2. declaration = position - 3 /\ position >= function.regionBegin + 3
  BY <1>1 DEF TryInitializationBegin
<1> HIDE DEF declaration
<1>3. /\ phase = "body" /\ declaration \in function.regionBegin..position
      /\ declaration \in 1..position /\ position \in 4..Len(tokens)
  BY <1>1, <1>2, BodyFacts
<1>4. Spans(parsed, declaration, position) /\ IsList(parsed.errors)
  BY <1>1, <1>3, BodyFacts, TryInitializationSpans, TryInitializationChecked DEF Checked
<1>5. ParsedCut(parsed)
  <2>1. ParsedCut(TryInitialization(position - 3, position))
    BY <1>1, <1>3, BodyFacts, TryInitializationCut
  <2> QED
    BY <1>2, <2>1
<1> HIDE DEF parsed
<1> QED
  BY <1>1, <1>3, <1>4, <1>5, BodyPushIsCut

LEMMA BodyOtherConstructIsCut ==
  IInv /\ TreeInv /\ RangesInv /\ CutsInv /\ ParseBodyConstruct => CutsInv'
<1> SUFFICES ASSUME IInv, TreeInv, RangesInv, CutsInv, ParseBodyConstruct PROVE CutsInv'
  OBVIOUS
<1> DEFINE parsed == Construct(position)
<1>1. InBody /\ StartsConstruct(position) /\ PushBodyConstruct(position, parsed)
  BY DEF ParseBodyConstruct
<1>2. Spans(parsed, position, position) /\ IsList(parsed.errors) /\ ParsedCut(parsed)
  BY <1>1, BodyFacts, ConstructSpans, ConstructChecked, ConstructCut DEF Checked
<1>3. phase = "body" /\ position \in function.regionBegin..position
  BY <1>1, BodyFacts
<1> HIDE DEF parsed
<1> QED
  BY <1>1, <1>2, <1>3, BodyPushIsCut

LEMMA CloseBodyIsCut == IInv /\ TreeInv /\ RangesInv /\ CutsInv /\ CloseBody => CutsInv'
<1> SUFFICES ASSUME IInv, TreeInv, RangesInv, CutsInv, CloseBody PROVE CutsInv'
  OBVIOUS
<1> DEFINE end == position + 1
           body == RangeOfTokens(function.bodyBegin, end)
           node == Node("FunctionDeclaration", ExtendedTo(function.range, body),
                        function.children \o OpenRegion(end))
<1>1. /\ InBody /\ UNCHANGED <<tokens, syntaxErrors>> /\ PushTopLevel(pending, node)
  BY DEF CloseBody
<1>2. /\ IsTokenStream(tokens) /\ Len(tokens) \in Nat /\ phase = "body"
      /\ function.bodyBegin \in 2..Len(tokens)
      /\ function.regionBegin \in function.bodyBegin..position
      /\ position \in 1..Len(tokens) /\ position < Len(tokens)
      /\ function.range.begin \in Int
  BY <1>1, BodyFacts, BodyTreeFacts DEF InBody, FunctionGood
<1>3. /\ end \in function.regionBegin..Len(tokens) /\ end \in 2..Len(tokens) /\ end > 1
      /\ end - 1 = position /\ position \in 1..Len(tokens)
      /\ end \in function.bodyBegin+1..Len(tokens)+1 /\ function.bodyBegin \in 1..Len(tokens)
  BY <1>2
<1>4. body.end = tokens[end-1].end /\ tokens[end-1].end \in Nat
  <2>1. body.end = tokens[end-1].end
    BY <1>2, <1>3, TokensAreCut
  <2>2. tokens[position].end \in Nat
    BY <1>2, StreamFacts
  <2> QED
    BY <1>3, <2>1, <2>2
<1>5. /\ node.kind = "FunctionDeclaration"
      /\ node.children = function.children \o OpenRegion(end)
      /\ node.range.begin = function.range.begin /\ node.range.end = tokens[end-1].end
  BY <1>4 DEF Node, ExtendedTo
<1> HIDE DEF end, node
<1>6. Clean' <=> Clean
  BY <1>1 DEF Clean
<1>7. ASSUME Clean PROVE FunctionCut(tokens, node)
  BY <1>2, <1>3, <1>5, <1>7, ClosedFunctionCut
<1>8. Complete(node) => Aligned(tokens, node.range)
  <2>1. Ordered(node.children, end)
    BY <1>2, <1>3, <1>5, DeclarationOfBodyIsGood
  <2>2. IsRange(node.range)
    BY <1>2, <1>4, <1>5 DEF IsRange
  <2> QED
    BY <1>2, <1>3, <1>5, <2>1, <2>2, DeclarationIsAligned
<1>9. ASSUME Clean' PROVE AllCut(tokens, pending) /\ UnitCut(tokens, node)
  BY <1>2, <1>6, <1>7, <1>8, <1>9 DEF CutsInv, UnitCut
<1> QED
  BY <1>1, <1>2, <1>6, <1>9, PushIfCleanIsCut

LEMMA EndOfFileIsCut == IInv /\ TreeInv /\ RangesInv /\ CutsInv /\ EndOfFileInBody => CutsInv'
<1> SUFFICES ASSUME IInv, TreeInv, RangesInv, CutsInv, EndOfFileInBody PROVE CutsInv'
  OBVIOUS
<1> DEFINE node == Node("FunctionDeclaration", function.range,
                        function.children \o OpenRegion(position))
<1>1. /\ phase = "body" /\ UNCHANGED <<tokens, syntaxErrors>> /\ PushTopLevel(pending, node)
  BY DEF EndOfFileInBody
<1>2. /\ IsTokenStream(tokens) /\ Len(tokens) \in Nat
      /\ function.bodyBegin \in 2..Len(tokens)
      /\ function.regionBegin \in function.bodyBegin..position
      /\ position \in 1..Len(tokens)
      /\ FunctionGood(function, pending, unit, Clean)
  BY <1>1, BodyTreeFacts
<1>3. position \in function.regionBegin..Len(tokens)
  BY <1>2
<1>4. /\ node.kind = "FunctionDeclaration" /\ node.range = function.range
      /\ node.children = function.children \o OpenRegion(position)
  BY DEF Node
<1> HIDE DEF node
<1>5. Ordered(node.children, position) /\ (Clean' <=> Clean)
  BY <1>1, <1>2, <1>3, <1>4, DeclarationOfBodyIsGood DEF Clean
<1>6. ~(Last(node.children).range.end <= node.range.end)
  <2>1. Last(node.children).range.end = tokens[position-1].end
    BY <1>5 DEF Ordered, Last
  <2>2. /\ node.range.end \in Int /\ node.range.end < tokens[function.bodyBegin-1].end
    BY <1>2, <1>4 DEF FunctionGood
  <2>3. /\ function.bodyBegin-1 \in 1..Len(tokens) /\ position-1 \in 1..Len(tokens)
        /\ function.bodyBegin-1 <= position-1
    BY <1>2
  <2>4. /\ tokens[function.bodyBegin-1].end <= tokens[position-1].end
        /\ tokens[function.bodyBegin-1].end \in Nat /\ tokens[position-1].end \in Nat
    BY <1>2, <2>3, TokensAdvance, StreamFacts
  <2> QED
    BY <2>1, <2>2, <2>4
<1>7. FunctionCut(tokens, node)
  BY <1>6 DEF FunctionCut, Reached
<1>8. Complete(node) => Aligned(tokens, node.range)
  <2>1. IsRange(node.range) /\ position \in 2..Len(tokens)
    BY <1>2, <1>4 DEF FunctionGood, IsRange
  <2> QED
    BY <1>2, <1>4, <1>5, <2>1, DeclarationIsAligned
<1>9. ASSUME Clean' PROVE AllCut(tokens, pending) /\ UnitCut(tokens, node)
  BY <1>1, <1>5, <1>7, <1>8, <1>9 DEF CutsInv, UnitCut
<1> QED
  BY <1>1, <1>5, <1>9, PushIfCleanIsCut

LEMMA ScanIsCut == IInv /\ CutsInv /\ ScanBodyToken => CutsInv'
<1> SUFFICES ASSUME IInv, CutsInv, ScanBodyToken PROVE CutsInv'
  OBVIOUS
<1>1. /\ phase = "body" /\ UNCHANGED <<tokens, phase, unit, pending, syntaxErrors>>
      /\ \E depth : function' = [function EXCEPT !.braceDepth = depth]
  BY DEF ScanBodyToken, InBody
<1>2. PICK depth : function' = [function EXCEPT !.braceDepth = depth]
  BY <1>1
<1>3. FunctionIsRecord
  BY DEF IInv
<1>4. function' = [children |-> function.children, range |-> function.range,
                   bodyBegin |-> function.bodyBegin, regionBegin |-> function.regionBegin,
                   braceDepth |-> depth]
  BY <1>2, <1>3 DEF FunctionIsRecord
<1>5. /\ function'.children = function.children /\ function'.range = function.range
      /\ function'.bodyBegin = function.bodyBegin /\ function'.regionBegin = function.regionBegin
  BY <1>4
<1>6. Clean' <=> Clean
  BY <1>1 DEF Clean
<1> QED
  BY <1>1, <1>5, <1>6 DEF CutsInv

LEMMA FinishIsCut == CutsInv /\ FinishUnit => CutsInv'
<1> SUFFICES ASSUME CutsInv, FinishUnit PROVE CutsInv'
  OBVIOUS
<1>1. /\ phase = "unit" /\ phase' = "done" /\ unit'.children = unit
      /\ UNCHANGED <<tokens, syntaxErrors>>
  BY DEF FinishUnit, Node
<1>2. Clean' <=> Clean
  BY <1>1 DEF Clean
<1> QED
  BY <1>1, <1>2 DEF CutsInv

LEMMA CutsAreKept == IInv /\ TreeInv /\ RangesInv /\ CutsInv /\ ParserStep => CutsInv'
BY TopLevelConstructIsCut, TopLevelRegionIsCut, HeaderIsCut, FinishIsCut, ScanIsCut,
   BodyReturnIsCut, BodyTryInitializationIsCut, BodyOtherConstructIsCut, CloseBodyIsCut,
   EndOfFileIsCut DEF ParserStep

LEMMA InitIsCut == ParserInit => CutsInv
BY NoneCut DEF ParserInit, CutsInv

LEMMA CutsStay == CutsInv /\ UNCHANGED parsingVars => CutsInv'
<1> SUFFICES ASSUME CutsInv, UNCHANGED parsingVars PROVE CutsInv'
  OBVIOUS
<1>1. UNCHANGED <<tokens, phase, unit, pending, function, syntaxErrors>>
  BY DEF parsingVars
<1> QED
  BY <1>1 DEF CutsInv, Clean

=============================================================================
