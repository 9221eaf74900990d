----------------------------- MODULE CommandLine -----------------------------
(***************************************************************************)
(* The program vixc (tools/vixc/main.cpp): it parses its arguments, reads  *)
(* one source, has the frontend process it, prints the diagnostics and     *)
(* writes the output.  The call of the frontend is what FrontendContract   *)
(* promises, with the diagnostics it emits.                                *)
(*                                                                         *)
(* The file system answers as it likes, except that no file has the empty  *)
(* name.  A stream that fails while it is read, or when it is closed or    *)
(* flushed at exit, tells the program nothing; inputComplete, file and     *)
(* stdout record what really happened.                                     *)
(***************************************************************************)
EXTENDS DiagnosticRenderer

CONSTANTS
  Commands,           \* argument vectors, argv[0] left out
  UnknownOptions,     \* arguments that begin with a dash and mean nothing
  Inputs(_),          \* the sources an argument vector may find
  MaxDiagnostics(_)   \* a bound: how many diagnostics a source gets

ASSUME CommandLineAssumption ==
  /\ Commands \subseteq Seq(STRING)
  /\ \A command \in Commands : Inputs(command) \subseteq Seq(STRING)

VARIABLES
  arguments, index,
  options,        \* CommandLineOptions; absent paths are <<>>
  phase,          \* "arguments", "read", "process", "print", "write", "exited"
  answer,         \* the FrontendResult
  error,          \* what `error` is printed for, "none" for nothing
  status,         \* the exit status, -1 before
  inputComplete,  \* the source is all of the input
  file,           \* the output file: "untouched", "part", "whole"
  stdout          \* "empty", "usage", "version", "part", "whole"

world == <<inputComplete, file, stdout>>
vars == <<rendererVars, arguments, index, options, phase, answer, error, status, world>>

Request ==
  [action |-> options.action, retainSourceMap |-> options.retainSourceMap]

Call == INSTANCE FrontendContract WITH
  Requests <- [action : {"Analyze", "Lower", "Emit"}, retainSourceMap : BOOLEAN],
  request <- Request, reported <- diagnostics # <<>>, answer <- answer

NoName == ""  \* no file has this path

HelpOptions == {"-h", "--help"}
OutputOptions == {"-o", "--output"}
ActionOf == [option \in {"--analyze", "--lower", "--emit"} |->
               CASE option = "--analyze" -> "Analyze"
                 [] option = "--lower" -> "Lower"
                 [] option = "--emit" -> "Emit"]
Flags == HelpOptions \cup DOMAIN ActionOf \cup {"--version", "--no-source-map"}
Options == Flags \cup OutputOptions \cup UnknownOptions

ASSUME UnknownOptionsAssumption == UnknownOptions \cap (Flags \cup OutputOptions) = {}

Init ==
  /\ RendererInit
  /\ arguments \in Commands /\ index = 1
  /\ options = [action |-> "Emit", retainSourceMap |-> TRUE, input |-> <<>>,
                output |-> <<>>, help |-> FALSE, version |-> FALSE]
  /\ phase = "arguments"
  /\ answer = Call!NoAnswer
  /\ error = "none" /\ status = -1
  /\ inputComplete = FALSE /\ file = "untouched" /\ stdout = "empty"

Exit(code) == phase' = "exited" /\ status' = code

\* main prints an error and returns 2.
Fail(what) == error' = what /\ Exit(2)

-----------------------------------------------------------------------------
(* parse_command_line.                                                     *)

Argument == arguments[index]
AtArgument == phase = "arguments" /\ index <= Len(arguments)
AtEndOfArguments == phase = "arguments" /\ index > Len(arguments)

Parsed(count) ==
  /\ index' = index + count
  /\ UNCHANGED <<rendererVars, arguments, phase, answer, error, status, world>>

\* FrontendOptions and the two requests after one flag.
WithFlag ==
  CASE Argument \in HelpOptions -> [options EXCEPT !.help = TRUE]
    [] Argument = "--version" -> [options EXCEPT !.version = TRUE]
    [] Argument = "--no-source-map" -> [options EXCEPT !.retainSourceMap = FALSE]
    [] OTHER -> [options EXCEPT !.action = ActionOf[Argument]]

\* Mutated form: the loop does not go on to the next argument.
ParseFlagInPlace ==
  /\ AtArgument /\ Argument \in Flags
  /\ options' = WithFlag
  /\ Parsed(0)

ParseFlag ==
  /\ AtArgument /\ Argument \in Flags
  /\ options' = WithFlag
  /\ Parsed(1)

\* Mutated form: the path is not skipped.
ParseOutputInPlace ==
  /\ AtArgument /\ Argument \in OutputOptions
  /\ index < Len(arguments) /\ options.output = <<>>
  /\ options' = [options EXCEPT !.output = <<arguments[index+1]>>]
  /\ Parsed(1)

\* The next argument is the path, whatever it looks like.
ParseOutput ==
  /\ AtArgument /\ Argument \in OutputOptions
  /\ index < Len(arguments) /\ options.output = <<>>
  /\ options' = [options EXCEPT !.output = <<arguments[index+1]>>]
  /\ Parsed(2)

\* "" and "-" are inputs.
ParseInput ==
  /\ AtArgument /\ Argument \notin Options
  /\ options.input = <<>>
  /\ options' = [options EXCEPT !.input = <<Argument>>]
  /\ Parsed(1)

ArgumentError ==
  CASE Argument \in OutputOptions /\ index = Len(arguments) -> "missing_output_path"
    [] Argument \in OutputOptions /\ index < Len(arguments) /\ options.output # <<>>
         -> "output_path_repeated"
    [] Argument \in UnknownOptions -> "unknown_option"
    [] Argument \notin Options /\ options.input # <<>>
         -> "source_repeated"
    [] OTHER -> "none"

RejectArgument ==
  /\ AtArgument /\ ArgumentError # "none"
  /\ Fail(ArgumentError)
  /\ UNCHANGED <<rendererVars, arguments, index, options, answer, world>>

Asked == options.help \/ options.version

CommandError ==
  CASE options.input = <<>> -> "no_source"
    [] options.input # <<>> /\ options.output # <<>> /\ options.action # "Emit"
         -> "output_requires_emit"
    [] OTHER -> "none"

RejectCommand ==
  /\ AtEndOfArguments /\ ~Asked /\ CommandError # "none"
  /\ Fail(CommandError)
  /\ UNCHANGED <<rendererVars, arguments, index, options, answer, world>>

\* Help is preferred; that nothing could be written is not looked for.
ShowHelpOrVersion ==
  /\ AtEndOfArguments /\ Asked
  /\ stdout' = IF options.help THEN "usage" ELSE "version"
  /\ Exit(0)
  /\ UNCHANGED <<rendererVars, arguments, index, options, answer, error, inputComplete, file>>

AcceptCommand ==
  /\ AtEndOfArguments /\ ~Asked /\ CommandError = "none"
  /\ phase' = "read"
  /\ UNCHANGED <<rendererVars, arguments, index, options, answer, error, status, world>>

-----------------------------------------------------------------------------
(* read_source.  The bytes go from the stream buffer of the file to a      *)
(* string stream; a read error stops this and sets a flag of the string    *)
(* stream, while read_stream looks at the flags of the file: it never      *)
(* returns false, and the source is what was read until then.              *)

ReadSource ==
  /\ phase = "read" /\ options.input # <<NoName>>
  /\ source' \in Inputs(arguments)
  /\ inputComplete' \in BOOLEAN
  /\ phase' = "process"
  /\ UNCHANGED <<diagnostics, lineStarts, scanned, printed, arguments, index, options,
                 answer, error, status, file, stdout>>

\* Standard input is open.
FailToOpenSource ==
  /\ phase = "read" /\ options.input # <<"-">>
  /\ Fail("source_not_opened")
  /\ UNCHANGED <<rendererVars, arguments, index, options, answer, world>>

-----------------------------------------------------------------------------
(* Frontend::process: DiagnosticEngine::emit, then one answer.             *)

RangesOf(text) ==
  {NoRange} \cup {range \in [begin : 0..Len(text), end : 0..Len(text)] : ValidRange(range)}

EmitDiagnostic ==
  /\ phase = "process" /\ Len(diagnostics) < MaxDiagnostics(source)
  /\ \E range \in RangesOf(source) : diagnostics' = Append(diagnostics, range)
  /\ UNCHANGED <<source, lineStarts, scanned, printed, arguments, index, options, phase,
                 answer, error, status, world>>

ReturnResult ==
  /\ phase = "process"
  /\ phase' = "print"
  /\ UNCHANGED <<rendererVars, arguments, index, options, error, status, world>>
  /\ Call!Refuse \/ Call!Accept

-----------------------------------------------------------------------------
(* print_diagnostics; then the result decides.                             *)

PrintDiagnostic ==
  /\ phase = "print" /\ RenderStep
  /\ UNCHANGED <<arguments, index, options, phase, answer, error, status, world>>

AllPrinted == phase = "print" /\ Len(printed) = Len(diagnostics)

ExitRefused ==
  /\ AllPrinted /\ ~answer.success
  /\ Exit(1)
  /\ UNCHANGED <<rendererVars, arguments, index, options, answer, error, world>>

\* Mutated form: the result of an analysis is not looked at.
ExitWithoutOutputUnchecked ==
  /\ AllPrinted /\ options.action # "Emit"
  /\ Exit(0)
  /\ UNCHANGED <<rendererVars, arguments, index, options, answer, error, world>>

ExitWithoutOutput ==
  /\ AllPrinted /\ answer.success /\ options.action # "Emit"
  /\ Exit(0)
  /\ UNCHANGED <<rendererVars, arguments, index, options, answer, error, world>>

\* Mutated form: the result of the call is not looked at.
StartWritingUnchecked ==
  /\ AllPrinted /\ options.action = "Emit"
  /\ phase' = "write"
  /\ UNCHANGED <<rendererVars, arguments, index, options, answer, error, status, world>>

StartWriting ==
  /\ AllPrinted /\ answer.success /\ options.action = "Emit"
  /\ phase' = "write"
  /\ UNCHANGED <<rendererVars, arguments, index, options, answer, error, status, world>>

-----------------------------------------------------------------------------
(* write_output, and the same to standard output.                          *)

ToFile == phase = "write" /\ options.output # <<>>
ToStdout == phase = "write" /\ options.output = <<>>

FailToOpenOutput ==
  /\ ToFile
  /\ Fail("output_not_opened")
  /\ UNCHANGED <<rendererVars, arguments, index, options, answer, world>>

\* The file is truncated first.  A failure that comes with the last bytes,
\* when the destructor flushes them, is not seen.
WriteFile ==
  /\ ToFile /\ options.output # <<NoName>>
  /\ \/ file' = "part" /\ Fail("output_not_written")
     \/ file' \in {"part", "whole"} /\ Exit(0) /\ UNCHANGED error
  /\ UNCHANGED <<rendererVars, arguments, index, options, answer, inputComplete, stdout>>

\* What is still buffered is flushed after main has returned.
WriteStdout ==
  /\ ToStdout
  /\ \/ stdout' = "part" /\ Fail("output_not_written")
     \/ stdout' \in {"part", "whole"} /\ Exit(0) /\ UNCHANGED error
  /\ UNCHANGED <<rendererVars, arguments, index, options, answer, inputComplete, file>>

-----------------------------------------------------------------------------
Step ==
  \/ ParseFlag \/ ParseOutput \/ ParseInput \/ RejectArgument
  \/ RejectCommand \/ ShowHelpOrVersion \/ AcceptCommand
  \/ ReadSource \/ FailToOpenSource
  \/ EmitDiagnostic \/ ReturnResult
  \/ PrintDiagnostic \/ ExitRefused \/ ExitWithoutOutput \/ StartWriting
  \/ FailToOpenOutput \/ WriteFile \/ WriteStdout

Exited == phase = "exited" /\ UNCHANGED vars

Next == Step \/ Exited

\* One thread that waits for nothing; Frontend shows that its call returns.
Spec == Init /\ [][Next]_vars /\ WF_vars(Step)

-----------------------------------------------------------------------------
(* Properties.                                                             *)

TypeOK ==
  /\ RendererTypeOK
  /\ arguments \in Seq(STRING) /\ index \in 1..Len(arguments)+1
  /\ options \in [action : {"Analyze", "Lower", "Emit"}, retainSourceMap : BOOLEAN,
                  input : Seq(STRING), output : Seq(STRING),
                  help : BOOLEAN, version : BOOLEAN]
  /\ phase \in {"arguments", "read", "process", "print", "write", "exited"}
  /\ answer \in [given : BOOLEAN, success : BOOLEAN, output : BOOLEAN, mappings : BOOLEAN]
  /\ status \in {-1, 0, 1, 2}
  /\ (status = -1) <=> (phase # "exited")
  /\ (error = "none") <=> (status # 2)
  /\ inputComplete \in BOOLEAN
  /\ file \in {"untouched", "part", "whole"}
  /\ stdout \in {"empty", "usage", "version", "part", "whole"}

-----------------------------------------------------------------------------
(* What an argument vector means, told without a loop.                     *)

OutputOptionAt == SelectInSeq(arguments, LAMBDA argument : argument \in OutputOptions)

\* The arguments that are not the first -o and its path.
Others ==
  DOMAIN arguments \ (IF OutputOptionAt = 0 THEN {} ELSE {OutputOptionAt, OutputOptionAt + 1})

Having(set) == {i \in Others : arguments[i] \in set}
InputsAt == Others \ Having(Options)
ActionAt == Having(DOMAIN ActionOf)

Meaning ==
  [action |-> IF ActionAt = {} THEN "Emit" ELSE ActionOf[arguments[Max(ActionAt)]],
   retainSourceMap |-> Having({"--no-source-map"}) = {},
   input |-> IF InputsAt = {} THEN <<>> ELSE <<arguments[Min(InputsAt)]>>,
   output |-> IF OutputOptionAt = 0 THEN <<>> ELSE <<arguments[OutputOptionAt+1]>>,
   help |-> Having(HelpOptions) # {}, version |-> Having({"--version"}) # {}]

Wellformed ==
  /\ OutputOptionAt = 0 \/ OutputOptionAt < Len(arguments)
  /\ Having(OutputOptions \cup UnknownOptions) = {}
  /\ Cardinality(InputsAt) <= 1

Meaningful ==
  /\ Wellformed
  /\ \/ Meaning.help \/ Meaning.version
     \/ InputsAt # {} /\ (OutputOptionAt = 0 \/ Meaning.action = "Emit")

(***************************************************************************)
(* The loop over the arguments understands them whatever their order: the  *)
(* path behind -o is never an option or an input of its own, the last of   *)
(* several actions counts, and what is rejected has no meaning by the      *)
(* usage text (main.cpp:37), even when help is asked for elsewhere.        *)
(***************************************************************************)
ArgumentsAreUnderstood ==
  /\ phase \notin {"arguments", "exited"} \/ status \in {0, 1} =>
       Meaningful /\ options = Meaning
  /\ phase = "exited" /\ index <= Len(arguments) => ~Wellformed
  /\ phase = "exited" /\ ~answer.given /\ status = 2 =>
       ~Meaningful \/ error = "source_not_opened"

(***************************************************************************)
(* The exit status tells what happened, main.cpp:325-427: 1 only for a     *)
(* source the frontend refused, after every diagnostic was printed and     *)
(* with nothing written; 2 only for an error that was printed and without  *)
(* a complete output; 0 only for a request that was carried out.           *)
(***************************************************************************)
StatusTellsTheOutcome ==
  /\ status = 1 =>
       /\ answer.given /\ ~answer.success
       /\ diagnostics # <<>> /\ Len(printed) = Len(diagnostics)
       /\ file = "untouched" /\ stdout = "empty"
  /\ status = 2 =>
       /\ error # "none" /\ "whole" \notin {file, stdout}
       /\ answer.given <=> answer.success
  /\ status = 0 =>
       \/ stdout \in {"usage", "version"} /\ ~answer.given
       \/ /\ answer.success /\ error = "none"
          /\ options.action = "Emit" => file # "untouched" \/ stdout # "empty"
  /\ file = "untouched" \/ stdout = "empty"

(***************************************************************************)
(* An output is begun, and an earlier file of that name destroyed, only    *)
(* for an Emit request the frontend accepted, when all was printed, and    *)
(* only there where the request wants it.                                  *)
(***************************************************************************)
WritesOnlyAcceptedOutput ==
  [][ /\ file' # file =>
           /\ answer.success /\ Request.action = "Emit" /\ options.output # <<>>
           /\ Len(printed) = Len(diagnostics)
      /\ stdout' # stdout => options.output = <<>> \/ Asked ]_vars

(***************************************************************************)
(* The program exits, whatever its arguments and the file system are.      *)
(***************************************************************************)
Exits == <>(phase = "exited")

(***************************************************************************)
(* What the messages of the program promise (main.cpp:257, "unable to read *)
(* source file: ", and main.cpp:290, "unable to write output file: "):     *)
(* after exit status 0 all of the input was read and the output is whole.  *)
(***************************************************************************)
NothingIsLostUnseen ==
  status = 0 /\ ~Asked =>
    inputComplete /\ (options.action = "Emit" => "whole" \in {file, stdout})

=============================================================================
