----------------------------- MODULE SyntaxTree -----------------------------
(***************************************************************************)
(* The values every stage of vixc exchanges: source ranges, tokens and     *)
(* syntax nodes (include/vixc/SourceRange.hpp, src/syntax/Token.hpp and    *)
(* src/syntax/SyntaxNode.hpp).                                             *)
(*                                                                         *)
(* One compilation has one source, so a location is its byte offset; an    *)
(* endpoint of -1 stands for a default-constructed (invalid) location.     *)
(* Token kinds are spelled like the tokens they classify: "fail" is        *)
(* TokenKind::KeywordFail, "(" is TokenKind::LeftParen; every other word   *)
(* is an "Identifier" whose text is kept beside it.                        *)
(***************************************************************************)
EXTENDS Integers, Sequences, SequencesExt, FiniteSetsExt

Invalid == -1

\* SourceRange{}: neither endpoint is valid.
NoRange == [begin |-> Invalid, end |-> Invalid]

\* SourceRange::valid: two valid endpoints in order (the empty range is valid).
ValidRange(range) == 0 <= range.begin /\ range.begin <= range.end

\* Both ranges are valid and inner covers no byte outside outer.
Within(inner, outer) ==
  /\ ValidRange(inner) /\ ValidRange(outer)
  /\ outer.begin <= inner.begin /\ inner.end <= outer.end

-----------------------------------------------------------------------------
(***************************************************************************)
(* Tokens.  The lexer delivers non-empty tokens at increasing offsets and  *)
(* one empty end-of-file token after the last trivia of the source.        *)
(***************************************************************************)
Keywords == {"fail", "fails", "try", "return"}
Punctuation == {"(", ")", "[", "]", "{", "}", ";", ",", "=", "::", "+"}

\* What the lexer makes of one word of the source (identifier_kind and
\* lex_punctuation on the words the properties tell apart).
KindOf(text) == IF text \in Keywords \cup Punctuation THEN text ELSE "Identifier"

TokensInOrder(tokens) ==
  /\ \A i \in 1..Len(tokens) : (tokens[i].kind = "EndOfFile") <=> (i = Len(tokens))
  /\ \A i \in 1..Len(tokens)-1 : tokens[i].begin < tokens[i].end
  /\ tokens[Len(tokens)].begin = tokens[Len(tokens)].end
  /\ \A i, j \in 1..Len(tokens) : i < j => tokens[i].end <= tokens[j].begin

IsTokenStream(tokens) ==
  /\ tokens \in Seq([kind : STRING, text : STRING, begin : Nat, end : Nat])
  /\ tokens # <<>>
  /\ TokensInOrder(tokens)

\* The token stream of a source whose words are separated, preceded and
\* followed by "gap" bytes of trivia, each word being one byte wide.
Lexed(words, gap) ==
  [i \in 1..Len(words) |->
     [kind |-> KindOf(words[i]), text |-> words[i],
      begin |-> gap + (i-1) * (gap+1), end |-> i * (gap+1)]]
  \o <<[kind |-> "EndOfFile", text |-> "",
        begin |-> gap + Len(words) * (gap+1), end |-> gap + Len(words) * (gap+1)]>>

-----------------------------------------------------------------------------
(***************************************************************************)
(* Nodes.  SyntaxNode{} is the Invalid node, which owns no source.         *)
(***************************************************************************)
Node(kind, range, children) == [kind |-> kind, range |-> range, children |-> children]

InvalidNode == Node("Invalid", NoRange, <<>>)

\* The children of one kind.
ChildrenOfKind(node, kind) == {child \in ToSet(node.children) : child.kind = kind}

\* Where the last child of one kind is; zero when there is none.
LastOfKind(node, kind) == SelectLastInSeq(node.children, LAMBDA child : child.kind = kind)

\* Where the first child of one kind is; zero when there is none.
FirstOfKind(node, kind) == SelectInSeq(node.children, LAMBDA child : child.kind = kind)

\* The tokens a range covers, the end of file apart.
Covered(tokens, range) ==
  {i \in 1..Len(tokens) : /\ tokens[i].kind # "EndOfFile"
                          /\ Within([begin |-> tokens[i].begin, end |-> tokens[i].end], range)}

\* source_text, up to trivia: the texts of the tokens a range covers, which are
\* neighbours.
Spelling(tokens, range) ==
  LET covered == Covered(tokens, range)
      first == Min(covered)
  IN  [i \in 1..Cardinality(covered) |-> tokens[first + i - 1].text]

=============================================================================
