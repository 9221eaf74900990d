# Verification of vixc

vixc is the frontend of a language that adds failure contracts to C++: a
function may be declared `T f() fails E { ... }`, its body may `fail` with a
value, `return` one, and propagate the failure of a call with `try`. The
program reads one source, finds these constructs, leaves the C++ around them
opaque, and writes ordinary C++ together with a source map.

This directory models the whole program in TLA+, from its arguments to its exit
status. TLC checks it on small sources; TLAPS proves properties of the lexer (for
every sequence of bytes), the parser and the frontend (every token stream), the
emitter (every text and range), the renderer and the command line (every source,
argument vector and diagnostic). `PROJECT.json` lists the
runs, the mutated forms that show each property can fail, the source lines behind
each definition, and the hazards.

## The system

| part | state | operations | correct when |
| --- | --- | --- | --- |
| Lexer (`syntax/Lexer.cpp`) | offset in the source | `next`, `lex_all` | tokens ascend, are not empty and end with one end-of-file token |
| Parser (`syntax/Parser.cpp`) | token index, pending top-level region, function under construction | two loops and their scans | every token is in one node, bodies are in source order, it terminates |
| Semantic analysis (`semantic/`) | registry of failure-aware functions, stack of contexts, resolutions | collection pass, checking pass | constructs are inside functions, each `try` is resolved to the function it names |
| IR construction (`Frontend.cpp`, `ir/`) | build context with the contract in force, program | one build function per node kind | the IR says of each construct what the analysis established |
| Lowering (`lowering/`) | next synthetic id | number the try initializations, mark functions lowered | generated names are fresh |
| C++ backend (`backends/cxx/CxxBackend.cpp`) | active function, emitter | one emit function per node kind | the programmer's text is emitted once and can be traced |
| Emitter and source map (`backends/cxx/`) | output, entries, indentation | write, indent, dedent, reset, add, find | an offset of the output is traced to the range it was written for |
| Frontend (`Frontend.cpp`) | all of the above for one call | `process` | it refuses exactly when an error was reported |
| Diagnostics (`diagnostics/DiagnosticEngine.cpp`) | the diagnostics of a call | `emit`, `has_errors` | a result carries all of them and succeeds exactly without any |
| Renderer and source file (`diagnostics/DiagnosticRenderer.cpp`, `source/SourceFile.cpp`) | line starts of the source | `build_line_index`, `line_index_for_offset`, `line`, `render` | line, column, rows and carets are those of the range |
| Command line (`tools/vixc/main.cpp`) | options, exit status, output file | parse the arguments, read, call, print, write | the arguments mean the same in any order, the status tells what happened |

One call of `Frontend::process` creates every object anew and runs the stages in
the order of the table on one thread; they share the diagnostic engine and pass
each other tokens, tree, resolutions and IR by value. The program calls it once,
prints what it reported and writes what it returned; only there does it meet a
world that may fail. Nothing is concurrent and nothing persists but the output
file. What is hard is sequence and bookkeeping: long sequences of
constructs and recoveries in the parser, the same contract read at four places,
half-open ranges that decide which bytes survive, partial nodes after an error,
and results that must agree with the diagnostics.

## Modules

    SyntaxTree         ranges, tokens, nodes
      Lexer            next and lex_all, byte by byte  MCLexer, LexerProofs
      Parser           the two parse loops             MCParser, ParserProofs
      SemanticAnalysis the two analysis passes
      IrConstruction   build_program_ir
      Lowering         LoweringPipeline
      GeneratedOutput  emitter state and source map as values
        CxxEmitter     the emitter as a state machine  MCCxxEmitter, CxxEmitterProofs
        AnnotatedOutput  what the emitter promises
        CxxBackend     the walk that writes the output
        Frontend       Parser extended by process, composing the stages
                                                       MCFrontend, FrontendProofs,
                                                       OutputProofs, ResolutionProofs
      FrontendContract what a call promises
      DiagnosticRenderer  line index and excerpts
        CommandLine    main, around the contract       MCCommandLine, CommandLineProofs
    ValueLemmas        facts of the proofs about sequences and least and greatest elements

Each stage is a module with its own variables, `Init`, one action per loop
iteration or node, and `Next`. `Frontend` extends `Parser` (whose behaviour of its
own is `ParserInit`, `ParserNext`, `ParserSpec`), so that what is proved of the
parser holds of it within a call; it declares the variables of the other stages
under the same names, instantiates their modules and lets `stage` decide whose
`Next` runs; an action of a stage is an action of the composed system. `child`
and `bodyChild` are the cursor of whichever walk is running, and every walk
leaves `child` at one.

The lexer and the frontend meet in `TokensInOrder`: `LexerProofs` proves it of what
`lex_all` delivers, and `IsTokenStream`, which the parser assumes, is made of it.
The frontend and the program meet in `FrontendContract`: `Frontend` is checked to
implement it, and `CommandLine` makes its call by that contract, so that the
program can be checked over all diagnostics a call may report.

Abstractions, with the code they stand for:

* A location is a byte offset (there is one source); an invalid location is -1.
* A scan of the parser is the least index where the code's loop stops; the
  bracket counters are counts over the tokens scanned.
* The character level is the word: `source_text` is one unit per byte, named
  after the token the byte belongs to or " " for trivia. Sources for TLC use words
  of one byte, so offsets are exact.
* Generated text keeps the words and the punctuation that touch the words of the
  source. The class template written in front of the output is one unit.
* A byte of the lexer is a string of one character, or "NUL" or "VT"; a word, a
  line comment, a block comment and a punctuation mark are one step each, numbers
  and literals one step per byte, because their loops keep state. The "C" locale
  decides what a letter is, as the program never sets another.
* A diagnostic is its range; what the renderer prints is told in byte offsets.
* A file may fail to open, to be read to its end, or to take the output; whether the
  program gets to know is modelled as the streams of the library tell it:
  `buffer << stream.rdbuf()` records a read error in `buffer`, and a buffered
  write fails only when it is flushed.
* Checks that cannot fail on a tree just parsed or IR just built (kinds, null
  children, recoverable text) are left out, as is the fatal severity, which only
  the unreachable `VIXC5000` and the unreachable backend default use.
* The line `if (position_ == before) advance();` of `parse_translation_unit` is left out.
  `Progress` shows the condition is never true.

## Model checking

| run | sources | shows |
| --- | --- | --- |
| `MCParser` | all sequences of up to 3 of 11 words, at top level and in a body; up to 3 of 9 or 10 phrases; 900 declarations from a header grammar; with and without trivia | `ParserTypeOK`; tokens owned once in a body and in the unit; bodies in source order; incomplete constructs are reported; every iteration advances |
| `MCLexer` | every text of up to 6 bytes comments are made of, 5 bytes literals are made of, 5 bytes numbers are made of, and any two words, numbers, marks and pieces of trivia side by side | the lexer stays in the source; a token stream; only trivia skipped; tokens are the longest lexemes of their kind; exactly the unterminated is reported; it ends |
| `MCCxxEmitter` | three texts, five ranges (missing, empty, reversed, two valid), output up to 4 units before a call, one level of indentation | source map in order and inside the output; both lookups agree; implements `AnnotatedOutput` |
| `MCFrontend` | `int f() fails E` with one of 15 statements, alone or after one of the 5 well-formed ones, followed by one of 12 second parts (a function `g` or a second `f` with the same or another type, a declaration, a stray `fail`, a void function); a contract in front of a function; requests for Analyze, Lower and Emit, with and without source map | constructs only in functions; each `try` resolved to its function; the IR agrees with the resolution; fresh names; tokens copied once and traced; no VixC of the backend's own making; returns and fails build the outcome of their own function; the result answers the request; `process` implements `FrontendContract` |
| `MCFrontendAnswers` | seven programs, one for each way a call can end, and every prefix of one with all constructs; same requests | the call returns |
| `MCCommandLine` | all vectors of up to 3 arguments of 13 kinds, 4 of 6 kinds and 5 of 4; every source of up to 4 of the bytes lines are made of, with a diagnostic at every range of it and none, two diagnostics for sources of 2 bytes | line index, positions, rows and carets; what the arguments mean; the status tells the outcome; output only for what was accepted; the program exits |

Three words or phrases suffice for the parser because a construct reads at most
the open region before it, itself and the token after it; the phrases bring
constructs of four and more tokens within that bound. Two functions suffice for
the analysis because a `try` relates one caller to the declarations of one name;
two statements because what one statement leaves behind for the next is the
contract in force, the synthetic id and the end of its text. Six bytes hold a
comment marker at both ends of a comment with one that looks like it between
them; five hold a literal with two escapes, or a prefix, a marker, a sign and
what follows. Four bytes hold three lines, the middle one ended by CR LF, or one
line with a tab and a byte behind it; the two diagnostics show what rendering
leaves behind. Five arguments hold an action, an output option with its path, an
input and another action in any order.

Fairness: `Spec` of `Lexer`, `Parser`, `Frontend` and `CommandLine` has weak fairness
of the program's own step. Each is a straight call on one thread without waiting,
so the only assumption is that the thread keeps running (and, for `CommandLine`, that
the system answers its reads and writes, and the call returns, which
`MCFrontendAnswers` shows). All other properties need none. That the parser
terminates is part of `Answers`, and `Progress` shows it of every iteration.

Runs that end in a violation show where the code departs from its own documents:

| run | the code does | the document says |
| --- | --- | --- |
| `MCParserHiddenConstruct` | `return try f();` keeps the `try` in an opaque region | docs/architecture.md:173 |
| `MCParserUnterminatedBody` | a body cut off by the end of file lies outside its function, with no error | SyntaxNode.hpp:274 |
| `MCFrontendFusedWords` | `const auto x = try g();` is emitted as `constauto ...` | README.md:7 |
| `MCFrontendUnrepresentable` | `fail try g();` is accepted by the analysis and refused by the IR (VIXC5024) | docs/frontend.md:208 |
| `MCFrontendNestedContract` | a `fails` in a body replaces the registered contract of the function | docs/language-model.md:354 |
| `MCCommandLineLostUnseen` | a read error, or a write error at the last flush, ends with exit status 0 | messages at main.cpp:257 and main.cpp:290 |

A `try` that is a statement of its own passes a Lower request and is refused by the
backend with VIXC4016, as the comment at CxxBackend.cpp:436 requires of it:
`ResultAnswersTheRequest` says what an accepted request promises, the stage it
names and no later one.

## Proofs

Assumptions are on the constants only: a stream of tokens has the form
`IsTokenStream` (`StreamsAssumption`; `DeliversOneTokenStream` proves the lexer
delivers it), sources are sequences of bytes (`SourcesAssumption`), a word mentions a
finite set of ids (`MentionedIdsAssumption`), no token is a space or all of
`::Outcome<`, and the word `vixc_generated` has a byte for each of its characters
(`WordsAssumption`; the lexer skips trivia and delivers marks and words as tokens of
their own), requests are of their type (`RequestsAssumption`), an unknown option is not
a known one (`UnknownOptionsAssumption`), and the types in `EmitterAssumption` and
`CommandLineAssumption`.

### Parser

`ParserProofs`, for every set of token streams:

* `TypeCorrect`: `ParserSpec => []ParserTypeOK`;
* `BodyTokensAreOwnedOnce`: `ParserSpec => []BodyTokensOwnedOnce`;
* `ParserAdvances`: `ParserSpec => Progress`.

They follow from the inductive invariant `IInv`: `ParserTypeOK`, the shape of the
function record, and `BodyTiled`, which says that the children pushed so far tile
the tokens from the body's `{` to the start of the open region in order and
without overlap. Ownership alone is not inductive: that a new child owns no older
token needs the order of the ranges. `ValueLemmas` has the facts about least
and greatest elements that the scans are written with; a lemma per scan says
where it may stop, a lemma per construct says that its range covers exactly the
tokens it consumed and that it consumed at least one, and the step lemma has one
case per action.

and, of the tree the parser returns:

* `UnitTokensAreOwnedOnce`: `ParserSpec => []UnitTokensOwnedOnce`;
* `IncompleteConstructsAreReported`: `ParserSpec => []IncompleteConstructsReported`;
* `BodiesAreInSourceOrder`: `ParserSpec => []BodiesInSourceOrder`.

The inductive invariant is `IInv /\ TreeInv`. `UnitTiled` says that complete top-level
nodes tile the tokens before the parser's position; a function under construction
has to remember where its range starts among them (`FunctionGood`), because the
declaration in front of it is pushed only when its body ends. `Headed` says that the
children from the failure specification on follow one another, which the order of
a body rests on, and `Good` that only a parser that has reported an error holds an
incomplete node. `RangesInv`, that every node has a range, and `CutsInv`, where
the nodes are cut out of the source, are proved for the backend: no range ends inside a
token, the parts of a declaration follow one another, and an operand is shorter than
the construct around it.

### Lexer

`LexerProofs`, for every set of sources:

* `StaysInTheSource`: `Spec => []TypeOK`;
* `DeliversOneTokenStream`: `Spec => []DeliversTokenStream`, from the invariant that the
  tokens so far are in order, none of them is an EndOfFile before the end, and the
  last ends where the open token or the trivia begins;
* `OnlyTriviaIsSkipped`: `Spec => []GapsAreTrivia`. The invariant adds that the bytes
  since the last token are trivia already; each step of `skip_trivia` appends one
  piece to that cut.
* `EveryTokenIsALexeme`: `Spec => []TokensAreLexemes`. The invariant says of an open
  literal that no byte so far has stopped it and that the byte at the offset is not
  escaped, of an open number that `seen` is what its bytes show and that no sign is
  left behind a marker. `EscapedNext` turns the parity of a run of backslashes, as
  the property states it, into the step by step reading of the code.
* `ExactlyTheUnterminatedIsReported`: `Spec => []ErrorsAreTheUnterminated`. An error lies
  in front of the frontier, so that each new one differs from all before. That a
  comment left open is found in one place only needs that the trivia can be cut
  in one way: a piece has one end (`PiecesEndAlike`), and every way to cut the trivia
  behind the last token comes by the offset (`CutsMeet`).

### Emitter

`CxxEmitterProofs`, for every set of texts and ranges:

* `MapStaysOrdered`: `Spec => []TypeOK`, inductive as it stands: `add` refuses an
  entry that starts before the end of the last one, and `map` passes it the part of
  the output that was just written;
* `BothLookupsAgree`: `Spec => []LookupsAgree`: in an ordered map without overlap the
  last entry that starts by an offset is the only one that can cover it;
* `KeepsItsProvenance`: `Spec => KeepsProvenance`, the refinement of
  `AnnotatedOutput`. `WriteMapsItsOffsets` says what a lookup gives after a write,
  `WriteAnnotates` that a write appends one annotation under the refinement
  mapping, and a call is at most three writes. The bound on the indentation is
  needed because the abstract layout is bounded as well.

### Frontend

`FrontendProofs`, for every set of streams, every request and every set of ids a
word mentions:

* `ResultIsAnAnswer`: `Spec => []ResultAnswersTheRequest`. The invariant says of each
  stage that the stages before it left no diagnostic and the ones after it have not
  begun; the stages enter only by what they leave alone and by how they end.
* `CallInvariant`: `Spec => []CallInv`, with `CallInv` the conjunction of `IInv`,
  `TreeInv`, `RInv` (the results), `AnalysisInv` and `ProgramInv`.
* `StagesAreTyped`: `Spec => []TypeOK`. `TypeOK` is not inductive: that the analysis
  has the contract of the function it is in needs that `child` is a function of the
  tree while it is in one, and the lowering needs that the program holds only
  functions built whole.
* `AcceptedConstructsAreInFunctions`: `Spec => []ConstructsAreInFunctions`.
  `AnalysisInv` says that as long as nothing was reported no child before `child` is
  a stray construct; an error is never taken back, so an accepted tree has none.
* `GeneratedNamesAreFresh`: `Spec => []SyntheticNamesAreFresh`, from `NamesInv`. That
  two ids differ is not inductive either: the invariant says that ids grow along the
  program and stay below the next to try, that nothing behind the cursor of the
  lowering is numbered yet, and that the function being numbered is numbered up to
  the cursor. `FreshIdIsFree` shows that the search ends.

`OutputProofs`, for the same:

* `CallKeepsItsContract`: `Spec => KeepsContract`, the refinement of
  `FrontendContract`, step by step. `ErrorsStay` says that no step of any stage takes
  an error back, `AnswerGiven` that making the result is the `Return` of the
  contract. The contract promises a source map only together with text; that the
  output is not empty whenever there is a mapping rests on every piece the backend
  writes being a text, and this in turn on every node having a range of the source.
  `SourcesInv` (in `FrontendProofs`) therefore carries the ranges from the tokens through the tree
  (`RangesInv`) and the IR (`ProgramSourced`) to the emitter (`EmitterGood`), and
  `WritesInTurn` speaks of the several writes of one node.
* `NoTokenIsLostOrCopiedTwice`: `Spec => []TokensAreCopiedOnce`, the result that joins the
  stages. It comes in four parts. `CutsInv` says where the parser cuts the source.
  `IrInv` carries this to the program the backend walks (`ProgramCut`): each token is in
  one node of the program, and each token of a function in its type, its declarator, its
  contract or one of its children, which follow one another. `NodeCopies` and
  `HeaderCopies` say that the pieces written for a node copy a token in one piece if it
  begins in the node, and in none otherwise. For that the generated text mapped to a
  whole construct must not pass for a token of it: the keyword it starts with is one the
  construct spends, and what follows is no word of the source or is longer than all
  of it, which is where `WordsAssumption` is used. Last, `CopyInv` says of every moment
  of the emission that the tokens the cursor has passed are copied once and the others
  not at all; `WrittenCopies` says so of the several writes of one step.

`ResolutionProofs`, for the same:

* `ResolutionsInvariant`: `Spec => [](CallInv /\ TriesInv /\ ResolvesInv)`.
  A resolution names its `try` by the range alone, so that everything here rests on two
  visited `try` expressions never having the same range. `TriesInv` says that each
  `try` of the tree is what the parser reads at one token, and the token in front of
  it tells one the analysis visits from the operand of a `fail`; `RangeNamesTheTry`
  concludes that the range determines the expression. `ResolvesInv` says that the
  registry holds exactly the functions of the children collected so far, that every
  resolution is that of a visited `try`, and that the `try` expressions passed without
  an error are settled: resolved to the one candidate of their name, which fails with
  the type in force.
* `AcceptedTriesResolve`: `Spec => []TriesResolveToTheirFunction`, from these when the
  analysis has passed the whole unit.
* `PropagationsHaveTheirCallee`: `Spec => []PropagationsKnowTheirCallee`. `CalleesInv`
  says of every function built whole, and of the one being built, that as long as it has
  no second contract the contract in force is its own and every child carries the
  callee of its resolution. The operand of a `fail` never has one, by
  `RangeNamesTheTry`, so that the construction refuses it.

### Renderer and command line

`CommandLineProofs`, for every source and every list of diagnostics:

* `PositionsAreTrue`: `Spec => []PositionsAreOfTheRange`;
* `RowsAreTrue`: `Spec => []RowsAreLines`;
* `CaretsAreTrue`: `Spec => []CaretsMarkTheRange`.

They are about the step that prints: with an exact line index (`IndexIsExact`) the
binary search finds the one line a byte is in, and the excerpt is cut from it;
`PrintInv` says that what was printed stays true, as the source stays the same.

and for all argument vectors, sources and numbers of diagnostics:

* `TypeCorrect`: `Spec => []TypeOK`; the renderer must be idle before the call,
  because reading replaces the source under the line index;
* `ArgumentsAreUnderstoodAlways`: `Spec => []ArgumentsAreUnderstood`. The property
  speaks of a vector that was read to its end; `Understood` says the same of the
  arguments before `index`, and which of them is the path of an output option
  depends on the option before it alone;
* `IndexIsExact`: `Spec => []LineIndexExact`, the loop invariant of
  `build_line_index` and that each diagnostic leaves no index behind;
* `StatusIsTrue`: `Spec => []StatusTellsTheOutcome`, from `NothingWritten` (nothing before
  the exit), `AnswerOfTheCall` (answer and diagnostics belong together) and
  `ReadyToWrite`;
* `OnlyAcceptedOutputIsWritten`: `Spec => WritesOnlyAcceptedOutput`, from the same.

### Only model-checked

* Liveness: `Terminates`, `Exits` and `Answers` need ENABLED, which the prover does not
  know. The parts of them that are about a step are proved: `ParserAdvances`, and that
  the number searched by the lowering exists.
* `GeneratedIsCxx` and `ExitsMatchTheirFunction` of the frontend do not hold of every
  token stream: the second finds the generated types by the word `vixc_generated`, which
  a stream may hold, the first fails of a function whose failure type holds a `try`,
  which the backend quotes without a mapping. They hold of the sources of the runs.

## Not modelled

* Message texts, hints and codes beyond what the properties tell apart; the layout
  of the generated class template.
* The ids of `SourceManager`, which holds the one source of a call; notes, warnings,
  fatal errors, labels and `clear` of `DiagnosticEngine`, and the metadata of
  `FrontendResult` but the mappings, which no part of the program uses.
* Exhausted memory and exceptions, which the program does not handle.
* The installation, the build files and the tests.
