------------------------------- MODULE Parser -------------------------------
(***************************************************************************)
(* The structural parser of vixc (src/syntax/Parser.cpp).                  *)
(*                                                                         *)
(* The parser keeps ordinary C++ as opaque CxxRegion nodes and builds a    *)
(* tree around the failure constructs.  Its two loops are the state        *)
(* machine: "unit" is the loop of parse_translation_unit, "body" the loop  *)
(* of parse_failure_aware_function_declaration.  One step is one iteration *)
(* of a loop, with every helper it calls; the scanning loops of the        *)
(* helpers are written as the least token index at which they stop.        *)
(*                                                                         *)
(* Token indices are one-based; tokens[Len(tokens)] is the end of file.    *)
(***************************************************************************)
EXTENDS SyntaxTree, FiniteSetsExt

CONSTANT Streams  \* the token streams the lexer may deliver

ASSUME StreamsAssumption == \A stream \in Streams : IsTokenStream(stream)

VARIABLES
  tokens,       \* tokens_, fixed for the whole parse
  position,     \* position_
  phase,        \* the loop the parser is in: "unit", "body" or "done"
  unit,         \* children of the TranslationUnit root, then the root itself
  pending,      \* pending_top_level_region_: <<>> or <<region>>
  function,     \* the function declaration whose body is being parsed
  syntaxErrors  \* diagnostics emitted by the parser

parserVars == <<position, phase, pending, function, syntaxErrors>>
parsingVars == <<tokens, position, phase, unit, pending, function, syntaxErrors>>

-----------------------------------------------------------------------------
(* Token access.                                                           *)

\* current().kind(), peek().kind(): an index past the vector reads the
\* default token, which is Invalid.
Kind(index) == IF index \in 1..Len(tokens) THEN tokens[index].kind ELSE "Invalid"

Text(index) == IF index \in 1..Len(tokens) THEN tokens[index].text ELSE ""

AtEnd(index) == index >= Len(tokens)

\* tokens_.size(), the "not found" index of the search helpers.
NotFound == Len(tokens) + 1

\* How many tokens of one kind lie in [first, end).
CountOf(kind, first, end) == Cardinality({i \in first..end-1 : Kind(i) = kind})

\* The nesting counter a scan holds at "end" after starting at "first".
Depth(opener, closer, first, end) == CountOf(opener, first, end) - CountOf(closer, first, end)

\* range_from_tokens: from the first byte of "first" to the last of end-1.
RangeOfTokens(first, end) ==
  IF 1 <= first /\ first < end /\ end <= Len(tokens) + 1
  THEN [begin |-> tokens[first].begin, end |-> tokens[end-1].end]
  ELSE NoRange

\* make_cxx_region.
CxxRegion(first, end) ==
  IF first < end /\ first <= Len(tokens)
  THEN Node("CxxRegion", RangeOfTokens(first, end), <<>>)
  ELSE InvalidNode

\* starts_vixc_construct: `try {` is native C++ exception syntax.
StartsConstruct(index) ==
  \/ Kind(index) \in {"fail", "fails"}
  \/ Kind(index) = "try" /\ Kind(index + 1) # "{"

-----------------------------------------------------------------------------
(* Scans.                                                                  *)

Brackets == {<<"(", ")">>, <<"[", "]">>, <<"{", "}">>}

\* Every bracket counter of a scan that started at "first" is zero at index.
Outer(first, index) == \A b \in Brackets : Depth(b[1], b[2], first, index) = 0

\* A closing bracket whose own counter is zero: the scan returns there.
Unmatched(first, index) ==
  \E b \in Brackets : Kind(index) = b[2] /\ Depth(b[1], b[2], first, index) = 0

\* scan_opaque_region: where a scan from "first" stops.
ScanOpaqueRegion(first, stops) ==
  Min({i \in first..Len(tokens) : \/ AtEnd(i)
                                  \/ Outer(first, i) /\ Kind(i) \in stops
                                  \/ Unmatched(first, i)})

StatementStops == {";", "}"}
OperandStops == {";", ",", ")", "]", "}"}

\* The type scan of parse_failure_specification.
FailureTypeEnd(first) ==
  LET parens(i) == Depth("(", ")", first, i)
      squares(i) == Depth("[", "]", first, i)
  IN  Min({i \in first..Len(tokens) :
             \/ AtEnd(i)
             \/ Kind(i) \in {"{", ";"} /\ parens(i) = 0 /\ squares(i) = 0
             \/ Kind(i) = ")" /\ parens(i) = 0
             \/ Kind(i) = "]" /\ squares(i) = 0})

\* The scan of parse_cxx_region.
RegionEnd(first) == Min({i \in first..Len(tokens) : AtEnd(i) \/ StartsConstruct(i)})

\* matching_left_paren of the ")" at "closing", over the whole token vector.
MatchingLeftParen(closing) ==
  LET opens == {i \in 1..closing : /\ Kind(i) = "("
                                   /\ Depth("(", ")", i, closing + 1) = 0}
  IN  IF Kind(closing) # ")" \/ opens = {} THEN NotFound ELSE Max(opens)

\* matching_right_paren of the "(" at "opening".
MatchingRightParen(opening) ==
  LET closes == {i \in opening..Len(tokens) : /\ Kind(i) = ")"
                                              /\ Depth("(", ")", opening, i + 1) = 0}
  IN  IF Kind(opening) # "(" \/ closes = {} THEN NotFound ELSE Min(closes)

\* is_direct_call_expression: `name ( ... )` and nothing after it.
IsDirectCall(first, end) ==
  /\ first + 2 <= end
  /\ Kind(first) = "Identifier"
  /\ Kind(first + 1) = "("
  /\ MatchingRightParen(first + 1) = end - 1

\* The brace counter of declaration_begin never goes below zero: it is zero
\* exactly where no earlier point was nested less deeply.
AtOuterBrace(first, index) ==
  \A i \in first..index : Depth("{", "}", first, index) <= Depth("{", "}", first, i)

\* declaration_begin: after the last ";" or "}" outside braces in [first, end).
DeclarationBegin(first, end) ==
  Max({first} \cup {i + 1 : i \in {j \in first..end-1 :
                                     \/ Kind(j) = ";" /\ AtOuterBrace(first, j)
                                     \/ Kind(j) = "}" /\ AtOuterBrace(first, j + 1)}})

\* has_supported_function_name.
HasSupportedFunctionName(first, parameterOpen) ==
  /\ Kind(parameterOpen - 1) = "Identifier"
  /\ Kind(parameterOpen - 2) # "::"
  /\ \A i \in first..parameterOpen-1 :
       Kind(i) \notin {"{", "}", ";"} /\ Text(i) \notin {"template", "operator"}

\* try_initialization_begin: the index of `auto` in `auto name = try`.
TryInitializationBegin(at, regionBegin) ==
  IF /\ at >= regionBegin + 3
     /\ Kind(at - 1) = "=" /\ Kind(at - 2) = "Identifier" /\ Text(at - 3) = "auto"
  THEN at - 3
  ELSE NotFound

-----------------------------------------------------------------------------
(* Constructs.  A parse function returns the node, the position after it   *)
(* and the errors it reported.                                             *)

Parsed(node, next, errors) == [node |-> node, next |-> next, errors |-> errors]

Error(code, range) == [code |-> code, range |-> range]

ErrorIf(condition, code, range) == IF condition THEN <<Error(code, range)>> ELSE <<>>

NoChildIf(empty, child) == IF empty THEN <<>> ELSE <<child>>

\* match(Semicolon).
AfterSemicolon(index) == IF Kind(index) = ";" THEN index + 1 ELSE index

\* parse_try_expression.
TryExpression(at) ==
  LET first == at + 1
      end == ScanOpaqueRegion(first, OperandStops)
      operand ==
        IF IsDirectCall(first, end)
        THEN Node("DirectCallExpression", RangeOfTokens(first, end),
                  <<CxxRegion(first, first + 1)>>)
        ELSE CxxRegion(first, end)
  IN  IF end = first
      THEN Parsed(Node("TryExpression", RangeOfTokens(at, first), <<>>), first,
                  <<Error("VIXC1004", RangeOfTokens(at, first))>>)
      ELSE Parsed(Node("TryExpression", RangeOfTokens(at, end), <<operand>>), end, <<>>)

\* parse_fail_statement.
FailStatement(at) ==
  LET first == at + 1
      end == ScanOpaqueRegion(first, StatementStops)
      payload ==
        IF Kind(first) = "try" /\ Kind(first + 1) # "{"
        THEN TryExpression(first)
        ELSE Parsed(CxxRegion(first, end), end, <<>>)
      next == AfterSemicolon(payload.next)
  IN  Parsed(Node("FailStatement", RangeOfTokens(at, next),
                  NoChildIf(payload.next = first, payload.node)),
             next,
             payload.errors
             \o ErrorIf(payload.next = first, "VIXC1001", RangeOfTokens(at, first))
             \o ErrorIf(next = payload.next, "VIXC1002", RangeOfTokens(at, next)))

\* Mutated form: a missing operand is not reported.
ReturnStatementUnchecked(at) ==
  LET first == at + 1
      end == ScanOpaqueRegion(first, StatementStops)
      next == AfterSemicolon(end)
  IN  Parsed(Node("ReturnStatement", RangeOfTokens(at, next),
                  NoChildIf(end = first, CxxRegion(first, end))),
             next,
             ErrorIf(next = end, "VIXC1006", RangeOfTokens(at, next)))

\* parse_return_statement, called only inside a failure-aware body.
ReturnStatement(at) ==
  LET first == at + 1
      end == ScanOpaqueRegion(first, StatementStops)
      next == AfterSemicolon(end)
  IN  Parsed(Node("ReturnStatement", RangeOfTokens(at, next),
                  NoChildIf(end = first, CxxRegion(first, end))),
             next,
             ErrorIf(end = first, "VIXC1005", RangeOfTokens(at, first))
             \o ErrorIf(next = end, "VIXC1006", RangeOfTokens(at, next)))

\* parse_try_initialization of `auto name = try operand ;`.
TryInitialization(declaration, at) ==
  LET operand == TryExpression(at)
      next == AfterSemicolon(operand.next)
  IN  Parsed(Node("TryInitialization", RangeOfTokens(declaration, next),
                  <<CxxRegion(declaration, at - 1), operand.node>>),
             next,
             operand.errors
             \o ErrorIf(next = operand.next, "VIXC1007", RangeOfTokens(declaration, next)))

\* parse_failure_specification.
FailureSpecification(at) ==
  LET first == at + 1
      end == FailureTypeEnd(first)
  IN  Parsed(Node("FailureSpecification", RangeOfTokens(at, end),
                  NoChildIf(end = first, CxxRegion(first, end))),
             end,
             ErrorIf(end = first, "VIXC1003", RangeOfTokens(at, first)))

\* parse_next at a token that starts a VixC construct.
Construct(at) ==
  CASE Kind(at) = "fail"  -> FailStatement(at)
    [] Kind(at) = "fails" -> FailureSpecification(at)
    [] Kind(at) = "try"   -> TryExpression(at)

\* parse_cxx_region: a region owns the trivia up to its neighbours.
TopLevelRegion(first) ==
  LET end == RegionEnd(first)
  IN  Parsed(Node("CxxRegion",
                  [begin |-> IF first > 1 THEN tokens[first-1].end ELSE tokens[first].begin,
                   end   |-> tokens[end].begin],
                  <<>>),
             end, <<>>)

-----------------------------------------------------------------------------
(* Function declarations.                                                  *)

\* The first token of a declaration prefix, searched by offset.
PrefixBegin(prefix, end) ==
  LET from == {i \in 1..end-1 : tokens[i].begin >= prefix.range.begin}
  IN  IF from = {} THEN NotFound ELSE Min(from)

\* What parse_failure_aware_function_declaration makes of the region that ends
\* at a `fails` token: the top-level region before the declaration, the header
\* children, and the range the declaration starts from.
Header(prefix, end) ==
  LET first == PrefixBegin(prefix, end)
      open == IF first < end THEN MatchingLeftParen(end - 1) ELSE NotFound
      begin == DeclarationBegin(first, open)
      successType == RangeOfTokens(begin, open - 1)
  IN  IF open \in {NotFound, first}
      THEN [before |-> <<>>, children |-> <<prefix>>, range |-> prefix.range]
      ELSE [before |-> NoChildIf(begin <= first, CxxRegion(first, begin)),
            children |->
              <<Node("FunctionReturnType", successType, <<>>)>>
              \o NoChildIf(~HasSupportedFunctionName(begin, open),
                           Node("FunctionName", RangeOfTokens(open - 1, open), <<>>))
              \o <<Node("FunctionDeclarator", RangeOfTokens(open - 1, end), <<>>)>>,
            range |-> successType]

\* The range of a declaration that ends where "last" ends.
ExtendedTo(range, last) == [begin |-> range.begin, end |-> last.end]

NoFunction == [children |-> <<>>, range |-> NoRange, bodyBegin |-> 0,
               regionBegin |-> 0, braceDepth |-> 0]

\* The body children once "more" has been pushed and parsing resumes at next.
WithChildren(more, next) ==
  [function EXCEPT !.children = @ \o more, !.regionBegin = next]

\* Mutated form: the region runs up to the current token, the declaration of a
\* try initialization included.
OpenRegionToCurrentToken(end) ==
  NoChildIf(end <= function.regionBegin, CxxRegion(function.regionBegin, position))

\* The C++ region the body has accumulated since its last construct.
OpenRegion(end) ==
  NoChildIf(end <= function.regionBegin, CxxRegion(function.regionBegin, end))

-----------------------------------------------------------------------------
(* The loop of parse_translation_unit.                                     *)

ParserInit ==
  /\ tokens \in Streams
  /\ position = 1
  /\ phase = "unit"
  /\ unit = <<>>
  /\ pending = <<>>
  /\ function = NoFunction
  /\ syntaxErrors = <<>>

\* Mutated form: the pending region is not reset once flushed.
PushTopLevelKeepingPending(before, node) ==
  /\ unit' = unit \o before \o (IF node.kind = "Invalid" THEN <<>> ELSE <<node>>)
  /\ pending' = pending
  /\ function' = NoFunction
  /\ phase' = "unit"

\* Mutated form: the pending region is never flushed.
PushTopLevelDroppingPending(before, node) ==
  /\ unit' = unit \o (IF node.kind = "Invalid" THEN <<>> ELSE <<node>>)
  /\ pending' = <<>>
  /\ function' = NoFunction
  /\ phase' = "unit"

\* An iteration that ends outside a function body: flush the pending region,
\* then push the node.
PushTopLevel(before, node) ==
  /\ unit' = unit \o before \o (IF node.kind = "Invalid" THEN <<>> ELSE <<node>>)
  /\ pending' = <<>>
  /\ function' = NoFunction
  /\ phase' = "unit"

\* A fail, fails or try at top level.
ParseTopLevelConstruct ==
  /\ phase = "unit" /\ ~AtEnd(position)
  /\ StartsConstruct(position)
  /\ \E parsed \in {Construct(position)} :
       /\ PushTopLevel(<<>>, parsed.node)
       /\ position' = parsed.next
       /\ syntaxErrors' = syntaxErrors \o parsed.errors
  /\ UNCHANGED tokens

\* Ordinary C++ that no `fails` follows.
ParseTopLevelRegion ==
  /\ phase = "unit" /\ ~AtEnd(position)
  /\ ~StartsConstruct(position)
  /\ \E region \in {TopLevelRegion(position)} :
       /\ Kind(region.next) # "fails"
       /\ PushTopLevel(<<>>, region.node)
       /\ position' = region.next
  /\ UNCHANGED <<tokens, syntaxErrors>>

\* No body follows the failure specification.
DeclareOnly(header, specification) ==
  /\ PushTopLevel(header.before,
       Node("FunctionDeclaration",
            IF ValidRange(header.range)
            THEN ExtendedTo(header.range, specification.node.range)
            ELSE header.range,
            Append(header.children, specification.node)))
  /\ position' = specification.next

\* A `{` follows: its region starts with the brace.
OpenBody(header, specification) ==
  /\ phase' = "body"
  /\ pending' = header.before
  /\ function' = [children |-> Append(header.children, specification.node),
                  range |-> header.range,
                  bodyBegin |-> specification.next,
                  regionBegin |-> specification.next,
                  braceDepth |-> 1]
  /\ position' = specification.next + 1
  /\ UNCHANGED unit

\* Ordinary C++ followed by `fails`: a failure-aware function declaration,
\* with a body when a `{` follows its failure specification.
ParseFunctionHeader ==
  /\ phase = "unit" /\ ~AtEnd(position)
  /\ ~StartsConstruct(position)
  /\ \E region \in {TopLevelRegion(position)} :
       /\ Kind(region.next) = "fails"
       /\ \E header \in {Header(region.node, region.next)} :
          \E specification \in {FailureSpecification(region.next)} :
            /\ syntaxErrors' = syntaxErrors \o specification.errors
            /\ IF Kind(specification.next) = "{"
               THEN OpenBody(header, specification)
               ELSE DeclareOnly(header, specification)
  /\ UNCHANGED tokens

\* parse_translation_unit after its loop: the range of the whole unit.
FinishUnit ==
  /\ phase = "unit" /\ AtEnd(position)
  /\ LET end == Len(tokens)
         range == IF end > 1 THEN RangeOfTokens(1, end) ELSE RangeOfTokens(end, end + 1)
     IN  unit' = Node("TranslationUnit", range, unit)
  /\ phase' = "done"
  /\ UNCHANGED <<tokens, position, pending, function, syntaxErrors>>

-----------------------------------------------------------------------------
(* The body loop of parse_failure_aware_function_declaration.              *)

InBody == phase = "body" /\ ~AtEnd(position)

\* One token of an opaque region; braces are counted.
ScanBodyToken ==
  /\ InBody
  /\ ~StartsConstruct(position)
  /\ Kind(position) # "return"
  /\ ~(Kind(position) = "}" /\ function.braceDepth = 1)
  /\ TryInitializationBegin(position, function.regionBegin) = NotFound \/ Kind(position) # "try"
  /\ function' = [function EXCEPT !.braceDepth =
                    @ + (CASE Kind(position) = "{" -> 1
                           [] Kind(position) = "}" -> -1
                           [] OTHER -> 0)]
  /\ position' = position + 1
  /\ UNCHANGED <<tokens, phase, unit, pending, syntaxErrors>>

\* Mutated form: the construct is pushed before the region it follows.
PushBodyConstructFirst(regionEnd, parsed) ==
  /\ function' = WithChildren(<<parsed.node>> \o OpenRegion(regionEnd), parsed.next)
  /\ position' = parsed.next
  /\ syntaxErrors' = syntaxErrors \o parsed.errors
  /\ UNCHANGED <<tokens, phase, unit, pending>>

\* Push the C++ region before a construct, then the construct.
PushBodyConstruct(regionEnd, parsed) ==
  /\ function' = WithChildren(OpenRegion(regionEnd) \o <<parsed.node>>, parsed.next)
  /\ position' = parsed.next
  /\ syntaxErrors' = syntaxErrors \o parsed.errors
  /\ UNCHANGED <<tokens, phase, unit, pending>>

ParseBodyReturn ==
  /\ InBody
  /\ Kind(position) = "return"
  /\ \E parsed \in {ReturnStatement(position)} : PushBodyConstruct(position, parsed)

ParseBodyTryInitialization ==
  /\ InBody
  /\ Kind(position) = "try"
  /\ LET declaration == TryInitializationBegin(position, function.regionBegin)
     IN  /\ declaration # NotFound
         /\ \E parsed \in {TryInitialization(declaration, position)} :
              PushBodyConstruct(declaration, parsed)

\* Mutated form: a malformed construct is left in place for recovery.
ParseBodyConstructInPlace ==
  /\ InBody
  /\ StartsConstruct(position)
  /\ Kind(position) = "try" =>
       TryInitializationBegin(position, function.regionBegin) = NotFound
  /\ \E parsed \in {Construct(position)} :
       PushBodyConstruct(position,
         IF parsed.errors = <<>> THEN parsed ELSE [parsed EXCEPT !.next = position])

ParseBodyConstruct ==
  /\ InBody
  /\ StartsConstruct(position)
  /\ Kind(position) = "try" =>
       TryInitializationBegin(position, function.regionBegin) = NotFound
  /\ \E parsed \in {Construct(position)} : PushBodyConstruct(position, parsed)

\* The `}` that matches the body's `{`.
CloseBody ==
  /\ InBody
  /\ Kind(position) = "}" /\ function.braceDepth = 1
  /\ LET end == position + 1
         body == RangeOfTokens(function.bodyBegin, end)
     IN  /\ PushTopLevel(pending,
              Node("FunctionDeclaration", ExtendedTo(function.range, body),
                   function.children \o OpenRegion(end)))
         /\ position' = end
  /\ UNCHANGED <<tokens, syntaxErrors>>

\* Mutated form: the body loop waits for its `}` past the end of the file.
EndOfFileInBodyIgnored ==
  /\ phase = "body" /\ AtEnd(position)
  /\ UNCHANGED parsingVars

\* The source ends inside the body: no error is reported.
EndOfFileInBody ==
  /\ phase = "body" /\ AtEnd(position)
  /\ PushTopLevel(pending,
       Node("FunctionDeclaration", function.range,
            function.children \o OpenRegion(position)))
  /\ UNCHANGED <<tokens, position, syntaxErrors>>

-----------------------------------------------------------------------------
ParserStep ==
  \/ ParseTopLevelConstruct \/ ParseTopLevelRegion \/ ParseFunctionHeader \/ FinishUnit
  \/ ScanBodyToken \/ ParseBodyReturn \/ ParseBodyTryInitialization
  \/ ParseBodyConstruct \/ CloseBody \/ EndOfFileInBody

\* The parser stops for good when the unit is built.
Done == phase = "done" /\ UNCHANGED parsingVars

ParserNext == ParserStep \/ Done

\* parse() is a straight call: it runs to the end.
ParserSpec == ParserInit /\ [][ParserNext]_parsingVars /\ WF_parsingVars(ParserStep)

-----------------------------------------------------------------------------
(* Properties.                                                             *)

(***************************************************************************)
(* The state of the parser and of the function under construction: inside  *)
(* a body the accumulated region starts within the body and not after the  *)
(* current token, and at least the body's own brace is open.               *)
(***************************************************************************)
ParserTypeOK ==
  /\ IsTokenStream(tokens)
  /\ position \in 1..Len(tokens)
  /\ phase \in {"unit", "body", "done"}
  /\ phase = "unit" => pending = <<>>
  /\ phase = "body" =>
       /\ function.bodyBegin \in 1..Len(tokens)
       /\ function.regionBegin \in function.bodyBegin..position
       /\ function.braceDepth \in Nat \ {0}
       /\ function.children \in Seq(ToSet(function.children))

\* The node owns the whole token.
Owns(node, index) ==
  Within([begin |-> tokens[index].begin, end |-> tokens[index].end], node.range)

OwnedOnce(nodes, index) ==
  \E k \in 1..Len(nodes) : \A l \in 1..Len(nodes) : Owns(nodes[l], index) <=> l = k

(***************************************************************************)
(* While a function body is parsed, every token between its `{` and the    *)
(* start of the open region belongs to exactly one child pushed so far:    *)
(* nothing of the body is dropped or emitted twice by a later stage,       *)
(* whatever constructs, recoveries and nested braces came before.          *)
(***************************************************************************)
BodyTokensOwnedOnce ==
  phase = "body" =>
    \A i \in function.bodyBegin..function.regionBegin-1 : OwnedOnce(function.children, i)

\* A function declaration whose range reaches the end of its last child; the
\* other ones were cut short by the end of the file or have no success type.
Complete(node) ==
  \/ node.kind # "FunctionDeclaration"
  \/ ValidRange(node.range) /\ node.range.end = Last(node.children).range.end

(***************************************************************************)
(* The finished translation unit owns every token of the source in exactly *)
(* one top-level node, unless a function declaration was left incomplete.  *)
(***************************************************************************)
UnitTokensOwnedOnce ==
  phase = "done" /\ (\A k \in 1..Len(unit.children) : Complete(unit.children[k])) =>
    \A i \in 1..Len(tokens)-1 : OwnedOnce(unit.children, i)

\* Nodes that follow one another in the source without overlapping.
InSourceOrder(nodes) ==
  \A k \in 1..Len(nodes)-1 : nodes[k].range.end <= nodes[k+1].range.begin

\* The children a failure-aware function has after its header.
BodyOf(node) ==
  LET header == Min({k \in 1..Len(node.children) :
                       node.children[k].kind = "FailureSpecification"})
  IN  SubSeq(node.children, header, Len(node.children))

(***************************************************************************)
(* The lowering and the C++ backend copy the body of a function child by   *)
(* child: the failure specification and the body children of every parsed  *)
(* function follow one another in source order.                            *)
(***************************************************************************)
BodiesInSourceOrder ==
  phase = "done" =>
    \A k \in 1..Len(unit.children) :
      unit.children[k].kind = "FunctionDeclaration" => InSourceOrder(BodyOf(unit.children[k]))

\* The shape the semantic analyzer and the IR builder index into.
CompleteConstruct(node) ==
  LET endsWithSemicolon ==
        \E i \in 1..Len(tokens) : Kind(i) = ";" /\ tokens[i].end = node.range.end
  IN  CASE node.kind = "FailStatement" ->
             Len(node.children) = 1 /\ endsWithSemicolon
        [] node.kind = "ReturnStatement" ->
             Len(node.children) = 1 /\ endsWithSemicolon
        [] node.kind = "TryInitialization" ->
             /\ Len(node.children) = 2 /\ endsWithSemicolon
             /\ node.children[2].kind = "TryExpression"
             /\ Len(node.children[2].children) = 1
        [] node.kind \in {"TryExpression", "FailureSpecification"} ->
             Len(node.children) = 1
        [] OTHER -> TRUE

(***************************************************************************)
(* Recovery never hides an incomplete construct: when the parser reported  *)
(* no error, every construct of the tree has its operand and terminator.   *)
(***************************************************************************)
IncompleteConstructsReported ==
  phase = "done" /\ syntaxErrors = <<>> =>
    \A k \in 1..Len(unit.children) :
      /\ CompleteConstruct(unit.children[k])
      /\ \A l \in 1..Len(unit.children[k].children) :
           CompleteConstruct(unit.children[k].children[l])

(***************************************************************************)
(* docs/architecture.md:173: "CxxRegion should not become a mechanism for  *)
(* hiding VixC semantics from the frontend."  In an accepted source no     *)
(* opaque region of a function body holds a token that would have started  *)
(* a VixC construct there.  The operand scans of return, fail and try do   *)
(* not look for constructs, so the code does not keep to it.               *)
(***************************************************************************)
NoConstructInRegion(node) ==
  node.kind = "CxxRegion" =>
    \A i \in 1..Len(tokens) : Owns(node, i) => ~StartsConstruct(i)

ConstructsAreVisible ==
  phase = "done" /\ syntaxErrors = <<>> =>
    \A k \in 1..Len(unit.children) :
      \A child \in ToSet(unit.children[k].children) :
        /\ NoConstructInRegion(child)
        /\ \A operand \in ToSet(child.children) : NoConstructInRegion(operand)

(***************************************************************************)
(* SyntaxNode.hpp:274: the range of a node is the "original source region  *)
(* represented by this node".  A function declaration whose body the end   *)
(* of the file cuts short keeps the range of its success type, outside     *)
(* which its own body children lie; no error is reported either.           *)
(***************************************************************************)
FunctionsCoverTheirBodies ==
  phase = "done" /\ syntaxErrors = <<>> =>
    \A k \in 1..Len(unit.children) :
      LET node == unit.children[k]
      IN  node.kind = "FunctionDeclaration" /\ ValidRange(node.range) =>
            \A child \in ToSet(BodyOf(node)) : Within(child.range, node.range)

(***************************************************************************)
(* Every iteration of either loop consumes a token or leaves the loop, so  *)
(* no malformed construct can hold the parser in place.                    *)
(***************************************************************************)
Progress == [][position' > position \/ phase' # phase]_parsingVars

=============================================================================
