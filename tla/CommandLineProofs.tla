-------------------------- MODULE CommandLineProofs --------------------------
(***************************************************************************)
(* What the program promises for every argument vector, every source and   *)
(* every number of diagnostics: its exit status tells what happened, it    *)
(* writes only what the frontend accepted, its line index is exact, and it *)
(* understands its arguments. Then what the diagnostics show, for every    *)
(* source and every range in it: the position, the rows and the carets     *)
(* follow from the line index.                                             *)
(***************************************************************************)
EXTENDS CommandLine, ValueLemmas, FiniteSetTheorems

-----------------------------------------------------------------------------
(* The exit status.  Before it exits the program has written nothing, and  *)
(* from the call on the answer and the diagnostics belong together.        *)

Phases == {"arguments", "read", "process", "print", "write", "exited"}

NothingWritten ==
  phase # "exited" => status = -1 /\ error = "none" /\ file = "untouched" /\ stdout = "empty"

AnswerOfTheCall ==
  /\ phase \in {"arguments", "read", "process"} => answer = Call!NoAnswer
  /\ phase \in {"print", "write"} => answer.given
  /\ answer.given => (answer.success <=> diagnostics = <<>>)
  /\ ~answer.given => ~answer.success

ReadyToWrite ==
  phase = "write" =>
    answer.success /\ options.action = "Emit" /\ Len(printed) = Len(diagnostics)

SInv ==
  /\ phase \in Phases
  /\ NothingWritten /\ AnswerOfTheCall /\ ReadyToWrite
  /\ StatusTellsTheOutcome

LEMMA InitStatus == Init => SInv
BY DEF Init, SInv, Phases, NothingWritten, AnswerOfTheCall, ReadyToWrite,
       StatusTellsTheOutcome, Call!NoAnswer

\* Steps on the way to the call: nothing was answered or written yet.
LEMMA BeforeTheCall ==
  ASSUME SInv,
         \/ ParseFlag \/ ParseOutput \/ ParseInput \/ RejectArgument
         \/ RejectCommand \/ ShowHelpOrVersion \/ AcceptCommand
         \/ ReadSource \/ FailToOpenSource
  PROVE  SInv'
<1> USE DEF SInv, Phases, NothingWritten, AnswerOfTheCall, ReadyToWrite,
            StatusTellsTheOutcome, Call!NoAnswer, world, rendererVars
<1>1. CASE ParseFlag \/ ParseOutput \/ ParseInput
  BY <1>1 DEF ParseFlag, ParseOutput, ParseInput, Parsed, AtArgument
<1>2. CASE RejectArgument
  BY <1>2 DEF RejectArgument, Fail, Exit, AtArgument
<1>3. CASE RejectCommand
  BY <1>3 DEF RejectCommand, Fail, Exit, AtEndOfArguments
<1>4. CASE ShowHelpOrVersion
  BY <1>4 DEF ShowHelpOrVersion, Exit, AtEndOfArguments
<1>5. CASE AcceptCommand
  BY <1>5 DEF AcceptCommand, AtEndOfArguments
<1>6. CASE ReadSource
  BY <1>6 DEF ReadSource
<1>7. CASE FailToOpenSource
  BY <1>7 DEF FailToOpenSource, Fail, Exit
<1> QED
  BY <1>1, <1>2, <1>3, <1>4, <1>5, <1>6, <1>7

\* The call refuses exactly when something was emitted.
LEMMA TheCall ==
  ASSUME SInv, EmitDiagnostic \/ ReturnResult
  PROVE  SInv'
<1> USE DEF SInv, Phases, NothingWritten, AnswerOfTheCall, ReadyToWrite,
            StatusTellsTheOutcome, Call!NoAnswer, world, rendererVars
<1>1. CASE EmitDiagnostic
  BY <1>1 DEF EmitDiagnostic
<1>2. CASE ReturnResult
  <2>1. phase = "process" /\ phase' = "print" /\ UNCHANGED <<diagnostics, status, error, file, stdout>>
    BY <1>2 DEF ReturnResult
  <2>2. CASE Call!Refuse
    BY <2>1, <2>2 DEF Call!Refuse, Call!Refusal
  <2>3. CASE Call!Accept
    <3>1. PICK output, mappings \in BOOLEAN :
            answer' = [given |-> TRUE, success |-> TRUE, output |-> output, mappings |-> mappings]
      BY <2>3 DEF Call!Accept
    <3> QED
      BY <2>1, <2>3, <3>1 DEF Call!Accept
  <2> QED
    BY <1>2, <2>2, <2>3 DEF ReturnResult
<1> QED
  BY <1>1, <1>2

LEMMA AfterTheCall ==
  ASSUME SInv,
         \/ PrintDiagnostic \/ ExitRefused \/ ExitWithoutOutput \/ StartWriting
         \/ FailToOpenOutput \/ WriteFile \/ WriteStdout
  PROVE  SInv'
<1> USE DEF SInv, Phases, NothingWritten, AnswerOfTheCall, ReadyToWrite,
            StatusTellsTheOutcome, world, rendererVars
<1>1. CASE PrintDiagnostic
  <2>1. UNCHANGED diagnostics
    BY <1>1 DEF PrintDiagnostic, RenderStep, IndexByte, RenderExcerpt, RenderHeader
  <2> QED
    BY <1>1, <2>1 DEF PrintDiagnostic
<1>2. CASE ExitRefused
  BY <1>2 DEF ExitRefused, AllPrinted, Exit
<1>3. CASE ExitWithoutOutput
  BY <1>3 DEF ExitWithoutOutput, AllPrinted, Exit
<1>4. CASE StartWriting
  BY <1>4 DEF StartWriting, AllPrinted
<1>5. CASE FailToOpenOutput
  BY <1>5 DEF FailToOpenOutput, ToFile, Fail, Exit
<1>6. CASE WriteFile
  BY <1>6 DEF WriteFile, ToFile, Fail, Exit
<1>7. CASE WriteStdout
  BY <1>7 DEF WriteStdout, ToStdout, Fail, Exit
<1> QED
  BY <1>1, <1>2, <1>3, <1>4, <1>5, <1>6, <1>7

LEMMA NextStatus == SInv /\ [Next]_vars => SInv'
<1> SUFFICES ASSUME SInv, [Next]_vars PROVE SInv'
  OBVIOUS
<1>1. CASE Step
  BY <1>1, BeforeTheCall, TheCall, AfterTheCall DEF Step
<1>2. CASE UNCHANGED vars
  BY <1>2 DEF vars, rendererVars, world, SInv, Phases, NothingWritten, AnswerOfTheCall,
              ReadyToWrite, StatusTellsTheOutcome, Call!NoAnswer
<1> QED
  BY <1>1, <1>2 DEF Next, Exited

LEMMA StatusInvariant == Spec => []SInv
BY InitStatus, NextStatus, PTL DEF Spec

(***************************************************************************)
(* The exit status tells what happened (main.cpp:325-427), for every       *)
(* command, source and behaviour of the file system.                       *)
(***************************************************************************)
THEOREM StatusIsTrue == Spec => []StatusTellsTheOutcome
<1>1. SInv => StatusTellsTheOutcome
  BY DEF SInv
<1> QED
  BY <1>1, StatusInvariant, PTL

(***************************************************************************)
(* A file is opened for writing, and what it held destroyed, only when the *)
(* frontend has accepted an Emit request and all diagnostics are printed.  *)
(***************************************************************************)
THEOREM OnlyAcceptedOutputIsWritten == Spec => WritesOnlyAcceptedOutput
<1> DEFINE A ==
      /\ file' # file =>
           /\ answer.success /\ Request.action = "Emit" /\ options.output # <<>>
           /\ Len(printed) = Len(diagnostics)
      /\ stdout' # stdout => options.output = <<>> \/ Asked
<1>1. ASSUME SInv, [Next]_vars PROVE [A]_vars
  <2>1. CASE WriteFile
    BY <1>1, <2>1 DEF WriteFile, ToFile, SInv, ReadyToWrite, Request
  <2>2. CASE WriteStdout
    BY <2>2 DEF WriteStdout, ToStdout
  <2>3. CASE ShowHelpOrVersion
    BY <2>3 DEF ShowHelpOrVersion
  <2>4. CASE ParseFlag \/ ParseOutput \/ ParseInput
    BY <2>4 DEF ParseFlag, ParseOutput, ParseInput, Parsed, world
  <2>5. CASE ReadSource
    BY <2>5 DEF ReadSource
  <2>6. CASE \/ RejectArgument \/ RejectCommand \/ AcceptCommand \/ FailToOpenSource
             \/ EmitDiagnostic \/ ReturnResult
    BY <2>6 DEF RejectArgument, RejectCommand, AcceptCommand, FailToOpenSource,
                EmitDiagnostic, ReturnResult, world
  <2>7. CASE \/ PrintDiagnostic \/ ExitRefused \/ ExitWithoutOutput \/ StartWriting
             \/ FailToOpenOutput
    BY <2>7 DEF PrintDiagnostic, ExitRefused, ExitWithoutOutput, StartWriting,
                FailToOpenOutput, world
  <2>8. CASE UNCHANGED vars
    BY <2>8
  <2> QED
    BY <1>1, <2>1, <2>2, <2>3, <2>4, <2>5, <2>6, <2>7, <2>8 DEF Next, Step, Exited
<1> QED
  BY <1>1, StatusInvariant, PTL DEF Spec, WritesOnlyAcceptedOutput

-----------------------------------------------------------------------------
(* The renderer.  Until the diagnostics are printed it is as it began, and *)
(* each diagnostic leaves it so.                                           *)

RendererIdle ==
  phase \in {"arguments", "read", "process"} =>
    scanned = 0 /\ lineStarts = <<0>> /\ printed = <<>>

LEMMA WiderSequence ==
  ASSUME NEW n \in Nat, NEW s \in Seq(0..n)
  PROVE  s \in Seq(0..n+1) /\ Append(s, n+1) \in Seq(0..n+1)
<1>1. 0..n \subseteq 0..n+1 /\ n+1 \in 0..n+1
  OBVIOUS
<1>2. s \in Seq(0..n+1)
  BY <1>1
<1> QED
  BY <1>1, <1>2

LEMMA AppendToSet ==
  ASSUME NEW s \in Seq(Int), NEW v \in Int
  PROVE  ToSet(Append(s, v)) = ToSet(s) \cup {v}
<1> DEFINE t == Append(s, v)
<1>1. /\ t \in Seq(Int) /\ Len(t) = Len(s) + 1 /\ t[Len(s)+1] = v
      /\ \A i \in 1..Len(s) : t[i] = s[i]
  OBVIOUS
<1>2. DOMAIN s = 1..Len(s) /\ DOMAIN t = 1..Len(s)+1 /\ Len(s) \in Nat
  BY <1>1
<1> HIDE DEF t
<1>3. ASSUME NEW x \in ToSet(t) PROVE x \in ToSet(s) \cup {v}
  BY <1>1, <1>2, <1>3 DEF ToSet
<1>4. ASSUME NEW x \in ToSet(s) PROVE x \in ToSet(t)
  <2>1. PICK i \in DOMAIN s : s[i] = x
    BY <1>4 DEF ToSet
  <2>2. i \in DOMAIN t /\ t[i] = x
    BY <1>1, <1>2, <2>1
  <2> QED
    BY <2>2 DEF ToSet
<1>5. v \in ToSet(t)
  BY <1>1, <1>2 DEF ToSet
<1> QED
  BY <1>3, <1>4, <1>5 DEF t

Ascending(s) == \A i, j \in 1..Len(s) : i < j => s[i] < s[j]

LEMMA AppendAscending ==
  ASSUME NEW s \in Seq(Int), NEW v \in Int, Ascending(s), \A x \in ToSet(s) : x < v
  PROVE  Ascending(Append(s, v))
<1> DEFINE t == Append(s, v)
<1>1. /\ Len(t) = Len(s) + 1 /\ t[Len(s)+1] = v /\ Len(s) \in Nat
      /\ \A i \in 1..Len(s) : t[i] = s[i]
  OBVIOUS
<1>2. \A i \in 1..Len(s) : s[i] < v
  BY DEF ToSet
<1> HIDE DEF t
<1>3. ASSUME NEW i \in 1..Len(t), NEW j \in 1..Len(t), i < j PROVE t[i] < t[j]
  <2>1. i \in 1..Len(s)
    BY <1>1, <1>3
  <2>2. CASE j \in 1..Len(s)
    BY <1>1, <1>3, <2>1, <2>2 DEF Ascending
  <2>3. CASE j = Len(s) + 1
    BY <1>1, <1>2, <2>1, <2>3
  <2> QED
    BY <1>1, <2>2, <2>3
<1>4. Ascending(t)
  BY <1>3 DEF Ascending
<1> QED
  BY <1>4 DEF t

\* What build_line_index keeps while it scans.
LInv == scanned \in Nat /\ lineStarts \in Seq(Int) /\ LineIndexExact

FreshIndex == lineStarts = <<0>> /\ scanned = 0

LEMMA FreshIndexIsExact == FreshIndex => LInv
<1> SUFFICES ASSUME FreshIndex PROVE LInv
  OBVIOUS
<1> USE DEF FreshIndex
<1>1. ToSet(lineStarts) = {0}
  BY DEF ToSet
<1>2. {o \in 1..scanned : At(o-1) = "\n"} = {}
  OBVIOUS
<1> QED
  BY <1>1, <1>2 DEF LInv, LineIndexExact

LEMMA IndexStaysExact ==
  ASSUME LInv, IndexByte
  PROVE  LInv'
<1> DEFINE starts == {0} \cup {o \in 1..scanned : At(o-1) = "\n"}
<1>1. /\ scanned' = scanned + 1 /\ scanned \in Nat
      /\ source' = source
      /\ lineStarts \in Seq(Int) /\ lineStarts # <<>> /\ lineStarts[1] = 0
      /\ ToSet(lineStarts) = starts /\ Ascending(lineStarts)
  BY DEF LInv, LineIndexExact, IndexByte, Ascending
<1>2. \A o \in Int : At(o)' = At(o)
  BY <1>1 DEF At
<1>3. CASE At(scanned) = "\n"
  <2>1. lineStarts' = Append(lineStarts, scanned + 1)
    BY <1>3 DEF IndexByte
  <2>2. lineStarts' \in Seq(Int) /\ lineStarts' # <<>> /\ lineStarts'[1] = 0
    BY <1>1, <2>1
  <2>3. Ascending(lineStarts')
    <3>1. \A x \in starts : x < scanned + 1
      BY <1>1
    <3> QED
      BY <1>1, <2>1, <3>1, AppendAscending
  <2>4. ToSet(lineStarts') = starts \cup {scanned + 1}
    BY <1>1, <2>1, AppendToSet
  <2>5. starts' = starts \cup {scanned + 1}
    BY <1>1, <1>2, <1>3
  <2> QED
    BY <1>1, <2>2, <2>3, <2>4, <2>5 DEF LInv, LineIndexExact, Ascending
<1>4. CASE At(scanned) # "\n"
  <2>1. lineStarts' = lineStarts
    BY <1>4 DEF IndexByte
  <2>2. starts' = starts
    BY <1>1, <1>2, <1>4
  <2> QED
    BY <1>1, <2>1, <2>2 DEF LInv, LineIndexExact, Ascending
<1> QED
  BY <1>3, <1>4

LEMMA InitIndex == Init => RendererIdle /\ LInv
BY FreshIndexIsExact DEF Init, RendererInit, RendererIdle, FreshIndex

LEMMA NextIndex == RendererIdle /\ LInv /\ [Next]_vars => RendererIdle' /\ LInv'
<1> SUFFICES ASSUME RendererIdle, LInv, [Next]_vars PROVE RendererIdle' /\ LInv'
  OBVIOUS
<1>1. CASE PrintDiagnostic
  <2>1. RendererIdle'
    BY <1>1 DEF PrintDiagnostic, RendererIdle
  <2>2. CASE IndexByte
    BY <2>1, <2>2, IndexStaysExact
  <2>3. CASE RenderExcerpt
    <3>1. FreshIndex'
      BY <2>3 DEF RenderExcerpt, NoSourceFile, FreshIndex
    <3>2. LInv'
      BY <3>1, FreshIndexIsExact, PTL
    <3> QED
      BY <2>1, <3>2
  <2>4. CASE RenderHeader
    BY <2>1, <2>4 DEF RenderHeader, LInv, LineIndexExact, At
  <2> QED
    BY <1>1, <2>2, <2>3, <2>4 DEF PrintDiagnostic, RenderStep
<1>2. CASE ReadSource
  <2>1. scanned' = 0 /\ lineStarts' = <<0>> /\ printed' = <<>>
    BY <1>2 DEF ReadSource, RendererIdle
  <2>2. FreshIndex'
    BY <2>1 DEF FreshIndex
  <2>3. LInv'
    BY <2>2, FreshIndexIsExact, PTL
  <2> QED
    BY <2>1, <2>3 DEF RendererIdle
<1>3. CASE UNCHANGED <<source, lineStarts, scanned, printed>>
           /\ (phase' \in {"arguments", "read", "process"}
                 => phase \in {"arguments", "read", "process"})
  BY <1>3 DEF RendererIdle, LInv, LineIndexExact, At
<1>4. CASE ParseFlag \/ ParseOutput \/ ParseInput
  BY <1>3, <1>4 DEF ParseFlag, ParseOutput, ParseInput, Parsed, rendererVars
<1>5. CASE RejectArgument \/ RejectCommand \/ ShowHelpOrVersion
  BY <1>3, <1>5 DEF RejectArgument, RejectCommand, ShowHelpOrVersion, Fail, Exit, rendererVars
<1>6. CASE AcceptCommand \/ FailToOpenSource
  BY <1>3, <1>6 DEF AcceptCommand, AtEndOfArguments, FailToOpenSource, Fail, Exit, rendererVars
<1>7. CASE EmitDiagnostic \/ ReturnResult
  BY <1>3, <1>7 DEF EmitDiagnostic, ReturnResult, rendererVars
<1>8. CASE ExitRefused \/ ExitWithoutOutput \/ StartWriting
  BY <1>3, <1>8 DEF ExitRefused, ExitWithoutOutput, StartWriting, Exit, rendererVars
<1>9. CASE FailToOpenOutput \/ WriteFile \/ WriteStdout
  BY <1>3, <1>9 DEF FailToOpenOutput, WriteFile, WriteStdout, Fail, Exit, rendererVars
<1>10. CASE UNCHANGED vars
  BY <1>3, <1>10 DEF vars, rendererVars
<1> QED
  BY <1>1, <1>2, <1>4, <1>5, <1>6, <1>7, <1>8, <1>9, <1>10 DEF Next, Step, Exited

(***************************************************************************)
(* While any diagnostic is rendered the line index holds the starts of the *)
(* lines scanned so far and nothing else, ascending, whatever bytes the    *)
(* source has and whatever was rendered before.                            *)
(***************************************************************************)
THEOREM IndexIsExact == Spec => []LineIndexExact
<1>1. LInv => LineIndexExact
  BY DEF LInv
<1> QED
  BY <1>1, InitIndex, NextIndex, PTL DEF Spec

-----------------------------------------------------------------------------
(* Types.                                                                  *)

OptionsType ==
  [action : {"Analyze", "Lower", "Emit"}, retainSourceMap : BOOLEAN,
   input : Seq(STRING), output : Seq(STRING), help : BOOLEAN, version : BOOLEAN]

ControlTypeOK ==
  /\ arguments \in Commands /\ index \in 1..Len(arguments)+1
  /\ options \in OptionsType
  /\ phase \in Phases
  /\ answer \in [given : BOOLEAN, success : BOOLEAN, output : BOOLEAN, mappings : BOOLEAN]
  /\ status \in {-1, 0, 1, 2}
  /\ (status = -1) <=> (phase # "exited")
  /\ (error = "none") <=> (status # 2)
  /\ inputComplete \in BOOLEAN
  /\ file \in {"untouched", "part", "whole"}
  /\ stdout \in {"empty", "usage", "version", "part", "whole"}

LEMMA TypesTogether == ControlTypeOK /\ RendererTypeOK => TypeOK
BY CommandLineAssumption DEF ControlTypeOK, TypeOK, OptionsType, Phases

LEMMA OneElement ==
  ASSUME NEW S, NEW x \in S
  PROVE  <<x>> \in Seq(S)
OBVIOUS

LEMMA ActionOfType ==
  /\ DOMAIN ActionOf \cap (HelpOptions \cup {"--version", "--no-source-map"}) = {}
  /\ \A option \in DOMAIN ActionOf : ActionOf[option] \in {"Analyze", "Lower", "Emit"}
BY DEF ActionOf, HelpOptions

LEMMA InitTypes == Init => ControlTypeOK /\ RendererTypeOK /\ RendererIdle
<1> SUFFICES ASSUME Init PROVE ControlTypeOK /\ RendererTypeOK /\ RendererIdle
  OBVIOUS
<1>1. index \in 1..Len(arguments)+1
  <2>1. Len(arguments) \in Nat
    BY CommandLineAssumption DEF Init
  <2> QED
    BY <2>1 DEF Init
<1>2. ControlTypeOK
  <2>1. options \in OptionsType
    BY DEF Init, OptionsType
  <2>2. answer \in [given : BOOLEAN, success : BOOLEAN, output : BOOLEAN, mappings : BOOLEAN]
    BY DEF Init, Call!NoAnswer
  <2>3. /\ arguments \in Commands /\ inputComplete \in BOOLEAN
        /\ phase = "arguments" /\ error = "none" /\ status = -1
        /\ file = "untouched" /\ stdout = "empty"
    BY DEF Init
  <2> QED
    BY <1>1, <2>1, <2>2, <2>3 DEF ControlTypeOK, Phases
<1>3. RendererIdle
  BY DEF Init, RendererInit, RendererIdle
<1>4. lineStarts \in Seq(0..scanned)
  BY DEF Init, RendererInit
<1>5. RendererTypeOK
  BY <1>4 DEF Init, RendererInit, RendererTypeOK
<1> QED
  BY <1>2, <1>3, <1>5

LEMMA ParsingTypes ==
  ASSUME ControlTypeOK, ParseFlag \/ ParseOutput \/ ParseInput
  PROVE  ControlTypeOK'
<1>1. arguments \in Seq(STRING) /\ options \in OptionsType /\ index \in 1..Len(arguments)
  BY CommandLineAssumption
     DEF ControlTypeOK, ParseFlag, ParseOutput, ParseInput, AtArgument
<1>2. CASE ParseFlag
  <2>1. options' \in OptionsType
    BY <1>1, <1>2, ActionOfType DEF ParseFlag, WithFlag, Flags, OptionsType
  <2> QED
    BY <1>1, <1>2, <2>1 DEF ParseFlag, Parsed, world, ControlTypeOK
<1>3. CASE ParseOutput
  <2> DEFINE path == arguments[index+1]
  <2>1. path \in STRING
    BY <1>1, <1>3 DEF ParseOutput
  <2>2. options' = [options EXCEPT !.output = <<path>>]
    BY <1>3 DEF ParseOutput
  <2> HIDE DEF path
  <2>3. <<path>> \in Seq(STRING)
    BY <2>1, OneElement
  <2>4. options' \in OptionsType
    BY <1>1, <2>2, <2>3 DEF OptionsType
  <2> QED
    BY <1>1, <1>3, <2>4 DEF ParseOutput, Parsed, world, ControlTypeOK
<1>4. CASE ParseInput
  <2>1. Argument \in STRING
    BY <1>1 DEF Argument
  <2>2. <<Argument>> \in Seq(STRING)
    BY <2>1, OneElement
  <2>3. options' \in OptionsType
    BY <1>1, <1>4, <2>2 DEF ParseInput, OptionsType
  <2> QED
    BY <1>1, <1>4, <2>3 DEF ParseInput, Parsed, world, ControlTypeOK
<1> QED
  BY <1>2, <1>3, <1>4

LEMMA CallTypes ==
  ASSUME ControlTypeOK,
         \/ RejectArgument \/ RejectCommand \/ ShowHelpOrVersion \/ AcceptCommand
         \/ ReadSource \/ FailToOpenSource \/ EmitDiagnostic \/ ReturnResult
  PROVE  ControlTypeOK'
<1> USE DEF ControlTypeOK, Phases, world, rendererVars
<1>1. CASE RejectArgument
  BY <1>1 DEF RejectArgument, AtArgument, Fail, Exit
<1>2. CASE RejectCommand
  BY <1>2 DEF RejectCommand, AtEndOfArguments, Fail, Exit
<1>3. CASE ShowHelpOrVersion
  BY <1>3 DEF ShowHelpOrVersion, AtEndOfArguments, Exit
<1>4. CASE AcceptCommand
  BY <1>4 DEF AcceptCommand, AtEndOfArguments
<1>5. CASE ReadSource
  BY <1>5 DEF ReadSource
<1>6. CASE FailToOpenSource
  BY <1>6 DEF FailToOpenSource, Fail, Exit
<1>7. CASE EmitDiagnostic
  BY <1>7 DEF EmitDiagnostic
<1>8. CASE ReturnResult
  <2>1. CASE Call!Refuse
    BY <2>1, <1>8 DEF ReturnResult, Call!Refuse, Call!Refusal, Call!NoAnswer
  <2>2. CASE Call!Accept
    <3>1. PICK output, mappings \in BOOLEAN :
            answer' = [given |-> TRUE, success |-> TRUE, output |-> output, mappings |-> mappings]
      BY <2>2 DEF Call!Accept
    <3>2. answer' \in [given : BOOLEAN, success : BOOLEAN, output : BOOLEAN, mappings : BOOLEAN]
      BY <3>1
    <3> QED
      BY <1>8, <3>2 DEF ReturnResult
  <2> QED
    BY <1>8, <2>1, <2>2 DEF ReturnResult
<1> QED
  BY <1>1, <1>2, <1>3, <1>4, <1>5, <1>6, <1>7, <1>8

LEMMA WritingTypes ==
  ASSUME ControlTypeOK,
         \/ PrintDiagnostic \/ ExitRefused \/ ExitWithoutOutput \/ StartWriting
         \/ FailToOpenOutput \/ WriteFile \/ WriteStdout
  PROVE  ControlTypeOK'
<1> USE DEF ControlTypeOK, Phases, world, rendererVars
<1>1. CASE PrintDiagnostic
  BY <1>1 DEF PrintDiagnostic
<1>2. CASE ExitRefused
  BY <1>2 DEF ExitRefused, AllPrinted, Exit
<1>3. CASE ExitWithoutOutput
  BY <1>3 DEF ExitWithoutOutput, AllPrinted, Exit
<1>4. CASE StartWriting
  BY <1>4 DEF StartWriting, AllPrinted
<1>5. CASE FailToOpenOutput
  BY <1>5 DEF FailToOpenOutput, ToFile, Fail, Exit
<1>6. CASE WriteFile
  BY <1>6 DEF WriteFile, ToFile, Fail, Exit
<1>7. CASE WriteStdout
  BY <1>7 DEF WriteStdout, ToStdout, Fail, Exit
<1> QED
  BY <1>1, <1>2, <1>3, <1>4, <1>5, <1>6, <1>7

LEMMA RangeTypes ==
  ASSUME NEW text \in Seq(STRING)
  PROVE  RangesOf(text) \subseteq [begin : Int, end : Int]
<1>1. Len(text) \in Nat
  OBVIOUS
<1>2. NoRange \in [begin : Int, end : Int]
  BY DEF NoRange, Invalid
<1> QED
  BY <1>1, <1>2 DEF RangesOf

LEMMA NextRendererTypes ==
  ASSUME ControlTypeOK, RendererTypeOK, RendererIdle, Step
  PROVE  RendererTypeOK'
<1>1. CASE ReadSource
  <2>1. source' \in Seq(STRING)
    BY <1>1, CommandLineAssumption DEF ReadSource, ControlTypeOK
  <2>2. scanned' = 0 /\ lineStarts' = lineStarts /\ UNCHANGED <<diagnostics, printed>>
    BY <1>1 DEF ReadSource, RendererIdle
  <2>3. scanned' = scanned
    BY <1>1 DEF ReadSource
  <2> QED
    BY <2>1, <2>2, <2>3 DEF RendererTypeOK
<1>2. CASE EmitDiagnostic
  <2>1. PICK range \in RangesOf(source) : diagnostics' = Append(diagnostics, range)
    BY <1>2 DEF EmitDiagnostic
  <2>2. range \in [begin : Int, end : Int]
    BY RangeTypes DEF RendererTypeOK
  <2>3. /\ diagnostics' \in Seq([begin : Int, end : Int])
        /\ Len(diagnostics') = Len(diagnostics) + 1
    BY <2>1, <2>2 DEF RendererTypeOK
  <2>4. printed = <<>>
    BY <1>2 DEF EmitDiagnostic, RendererIdle
  <2>5. UNCHANGED <<source, lineStarts, scanned, printed>>
    BY <1>2 DEF EmitDiagnostic
  <2>6. Len(printed') <= Len(diagnostics')
    BY <2>3, <2>4, <2>5
  <2> QED
    BY <2>3, <2>5, <2>6 DEF RendererTypeOK
<1>3. CASE PrintDiagnostic
  <2>1. CASE IndexByte
    <3>1. scanned' = scanned + 1 /\ scanned \in Nat /\ scanned' \in 0..Len(source)
      BY <2>1 DEF IndexByte, RendererTypeOK
    <3>2. lineStarts' \in Seq(0..scanned+1)
      BY <2>1, <3>1, WiderSequence DEF IndexByte, RendererTypeOK
    <3> QED
      BY <2>1, <3>1, <3>2 DEF IndexByte, RendererTypeOK
  <2>2. CASE RenderExcerpt
    <3>1. lineStarts' \in Seq(0..scanned') /\ scanned' \in 0..Len(source)
      BY <2>2 DEF RenderExcerpt, NoSourceFile, RendererTypeOK
    <3> QED
      BY <2>2, <3>1 DEF RenderExcerpt, RendererTypeOK
  <2>3. CASE RenderHeader
    BY <2>3 DEF RenderHeader, RendererTypeOK
  <2> QED
    BY <1>3, <2>1, <2>2, <2>3 DEF PrintDiagnostic, RenderStep
<1>4. CASE UNCHANGED rendererVars
  BY <1>4 DEF rendererVars, RendererTypeOK
<1>5. ASSUME \/ ParseFlag \/ ParseOutput \/ ParseInput \/ RejectArgument \/ RejectCommand
             \/ ShowHelpOrVersion \/ AcceptCommand \/ FailToOpenSource \/ ReturnResult
      PROVE  UNCHANGED rendererVars
  BY <1>5 DEF ParseFlag, ParseOutput, ParseInput, Parsed, RejectArgument, RejectCommand,
              ShowHelpOrVersion, AcceptCommand, FailToOpenSource, ReturnResult
<1>6. ASSUME \/ ExitRefused \/ ExitWithoutOutput \/ StartWriting
             \/ FailToOpenOutput \/ WriteFile \/ WriteStdout
      PROVE  UNCHANGED rendererVars
  BY <1>6 DEF ExitRefused, ExitWithoutOutput, StartWriting, FailToOpenOutput, WriteFile,
              WriteStdout
<1> QED
  BY <1>1, <1>2, <1>3, <1>4, <1>5, <1>6 DEF Step

LEMMA TypeInvariant == Spec => [](ControlTypeOK /\ RendererTypeOK /\ RendererIdle)
<1> DEFINE I == ControlTypeOK /\ RendererTypeOK /\ RendererIdle
<1>1. I /\ LInv /\ [Next]_vars => I'
  <2> SUFFICES ASSUME I, LInv, [Next]_vars PROVE I'
    OBVIOUS
  <2>1. RendererIdle'
    BY NextIndex
  <2>2. CASE Step
    BY <2>1, <2>2, ParsingTypes, CallTypes, WritingTypes, NextRendererTypes DEF Step
  <2>3. CASE UNCHANGED vars
    BY <2>1, <2>3 DEF vars, rendererVars, world, ControlTypeOK, RendererTypeOK
  <2> QED
    BY <2>2, <2>3 DEF Next, Exited
<1>2. LInv /\ RendererIdle /\ [Next]_vars => LInv'
  BY NextIndex
<1>3. Init => I /\ LInv
  BY InitTypes, InitIndex
<1> QED
  BY <1>1, <1>2, <1>3, PTL DEF Spec

(***************************************************************************)
(* The type invariant, for all argument vectors and sources: the index     *)
(* never leads past the arguments, even behind -o, the line index stays    *)
(* within the source, and an error goes with status 2 and no other.        *)
(***************************************************************************)
THEOREM TypeCorrect == Spec => []TypeOK
BY TypeInvariant, TypesTogether, PTL

-----------------------------------------------------------------------------
(* The arguments.  Before each step of the loop the options are what the   *)
(* arguments before index mean; the first -o is skipped with its path.     *)

Before(set) == {i \in Having(set) : i < index}
InputsBefore == {i \in InputsAt : i < index}

OutputBefore == OutputOptionAt \in 1..index-1

PathsUnderstood ==
  /\ OutputBefore => OutputOptionAt + 1 < index
  /\ options.output = IF OutputBefore THEN <<arguments[OutputOptionAt+1]>> ELSE <<>>
  /\ options.input = IF InputsBefore = {} THEN <<>> ELSE <<arguments[Min(InputsBefore)]>>
  /\ \A i, j \in InputsBefore : i = j
  /\ Before(OutputOptions \cup UnknownOptions) = {}

FlagsUnderstood ==
  /\ options.help <=> Before(HelpOptions) # {}
  /\ options.version <=> Before({"--version"}) # {}
  /\ options.retainSourceMap <=> Before({"--no-source-map"}) = {}
  /\ options.action = IF Before(DOMAIN ActionOf) = {} THEN "Emit"
                      ELSE ActionOf[arguments[Max(Before(DOMAIN ActionOf))]]

Understood == PathsUnderstood /\ FlagsUnderstood

ArgumentInv ==
  /\ phase = "arguments" => Understood
  /\ phase \notin {"arguments", "exited"} =>
       index > Len(arguments) /\ Meaningful /\ options = Meaning
  /\ ArgumentsAreUnderstood

LEMMA FirstOutputOption ==
  ASSUME ControlTypeOK
  PROVE  /\ Len(arguments) \in Nat /\ index \in 1..Len(arguments)+1
         /\ OutputOptionAt \in 0..Len(arguments)
         /\ OutputOptionAt # 0 => arguments[OutputOptionAt] \in OutputOptions
         /\ \A i \in 1..Len(arguments) :
              arguments[i] \in OutputOptions => OutputOptionAt # 0 /\ OutputOptionAt <= i
<1> DEFINE I == {i \in 1..Len(arguments) : arguments[i] \in OutputOptions}
<1>1. Len(arguments) \in Nat /\ index \in 1..Len(arguments)+1 /\ I \in SUBSET Nat
  BY CommandLineAssumption DEF ControlTypeOK
<1>2. OutputOptionAt = IF I # {} THEN Min(I) ELSE 0
  BY DEF OutputOptionAt, SelectInSeq
<1>3. I # {} => Min(I) \in I /\ \A i \in I : Min(I) <= i
  BY <1>1, MinOfNaturals
<1>4. CASE I = {}
  BY <1>1, <1>2, <1>4
<1>5. CASE I # {}
  <2> HIDE DEF OutputOptions
  <2>1. OutputOptionAt \in I /\ \A i \in I : OutputOptionAt <= i
    BY <1>2, <1>3, <1>5
  <2> QED
    BY <1>1, <2>1
<1> QED
  BY <1>4, <1>5

\* The kinds of arguments have nothing in common.
LEMMA KindsAreDisjoint ==
  /\ \A a \in HelpOptions : a \notin DOMAIN ActionOf \cup {"--version", "--no-source-map"}
  /\ \A a \in DOMAIN ActionOf : a \notin {"--version", "--no-source-map"}
  /\ "--version" # "--no-source-map"
  /\ \A a \in Flags : a \notin OutputOptions \cup UnknownOptions
  /\ \A a \in OutputOptions : a \notin UnknownOptions
  /\ Flags = HelpOptions \cup DOMAIN ActionOf \cup {"--version", "--no-source-map"}
  /\ Options = Flags \cup OutputOptions \cup UnknownOptions
<1>1. DOMAIN ActionOf = {"--analyze", "--lower", "--emit"}
  BY DEF ActionOf
<1>2. Flags = HelpOptions \cup DOMAIN ActionOf \cup {"--version", "--no-source-map"}
  BY DEF Flags
<1>3. \A a \in HelpOptions : a \notin DOMAIN ActionOf \cup {"--version", "--no-source-map"}
  BY <1>1 DEF HelpOptions
<1>4. \A a \in DOMAIN ActionOf : a \notin {"--version", "--no-source-map"}
  BY <1>1
<1>5. \A a \in Flags : a \notin OutputOptions
  BY <1>1, <1>2 DEF HelpOptions, OutputOptions
<1>6. "--version" # "--no-source-map"
  OBVIOUS
<1> QED
  BY <1>2, <1>3, <1>4, <1>5, <1>6, UnknownOptionsAssumption DEF Options

LEMMA OutputOptionStays ==
  ASSUME arguments' = arguments
  PROVE  OutputOptionAt' = OutputOptionAt
BY DEF OutputOptionAt, SelectInSeq

\* An argument that is not the first -o or its path joins those before index.
LEMMA BeforeGrows ==
  ASSUME ControlTypeOK, Understood, index \in 1..Len(arguments), index # OutputOptionAt,
         index' = index + 1, arguments' = arguments
  PROVE  /\ \A set : Before(set)'
                       = Before(set) \cup {i \in {index} : arguments[i] \in set}
         /\ InputsBefore' = InputsBefore \cup {i \in {index} : arguments[i] \notin Options}
         /\ OutputBefore' <=> OutputBefore
<1>1. /\ arguments \in Seq(STRING) /\ DOMAIN arguments = 1..Len(arguments)
      /\ OutputOptionAt \in 0..Len(arguments) /\ Len(arguments) \in Nat /\ index \in Nat
  BY FirstOutputOption, CommandLineAssumption DEF ControlTypeOK
<1>2. OutputBefore' <=> OutputBefore
  BY <1>1, OutputOptionStays DEF OutputBefore
<1>3. Others = {i \in 1..Len(arguments) :
                  OutputOptionAt # 0 => i # OutputOptionAt /\ i # OutputOptionAt + 1}
  BY <1>1 DEF Others
<1>4. index \in Others
  BY <1>1, <1>3 DEF Understood, PathsUnderstood, OutputBefore
<1>5. Others' = Others
  BY OutputOptionStays DEF Others
<1>6. \A i \in Others : i < index' <=> (i < index \/ i = index)
  BY <1>1, <1>3
<1>7. \A set : Before(set)' = Before(set) \cup {i \in {index} : arguments[i] \in set}
  BY <1>4, <1>5, <1>6 DEF Before, Having
<1>8. InputsBefore' = InputsBefore \cup {i \in {index} : arguments[i] \notin Options}
  BY <1>4, <1>5, <1>6 DEF InputsBefore, InputsAt, Having
<1> QED
  BY <1>2, <1>7, <1>8

\* The last of the arguments before index that are of one kind.
LEMMA LastBefore ==
  ASSUME ControlTypeOK, NEW set
  PROVE  Max(Before(set) \cup {index}) = index
<1>1. index \in Nat
  BY CommandLineAssumption DEF ControlTypeOK
<1>2. Before(set) \subseteq 1..Len(arguments)
  BY CommandLineAssumption DEF ControlTypeOK, Before, Having, Others
<1>3. \A i \in Before(set) : i \in Int /\ i <= index
  BY <1>1, <1>2 DEF Before
<1> QED
  BY <1>1, <1>3, MaxIs

LEMMA ParsingAFlag ==
  ASSUME ControlTypeOK, Understood, ParseFlag
  PROVE  Understood'
<1>1. /\ index \in 1..Len(arguments) /\ index' = index + 1 /\ arguments' = arguments
      /\ Argument = arguments[index] /\ Argument \in Flags
  BY FirstOutputOption DEF ParseFlag, AtArgument, Parsed, Argument
<1>2. index # OutputOptionAt
  BY <1>1, FirstOutputOption, KindsAreDisjoint
<1>3. /\ \A set : Before(set)' = Before(set) \cup {i \in {index} : Argument \in set}
      /\ InputsBefore' = InputsBefore \cup {i \in {index} : Argument \notin Options}
      /\ OutputBefore' <=> OutputBefore
  BY <1>1, <1>2, BeforeGrows
<1>4. /\ InputsBefore' = InputsBefore
      /\ Before(OutputOptions \cup UnknownOptions)' = Before(OutputOptions \cup UnknownOptions)
      /\ Argument \notin OutputOptions
  BY <1>1, <1>3, KindsAreDisjoint
<1>5. OutputOptionAt' = OutputOptionAt
  BY <1>1, OutputOptionStays
<1> DEFINE Was(set) == Before(set)' = Before(set)
           Has(set) == Before(set)' = Before(set) \cup {index}
<1>6. /\ Argument \in HelpOptions =>
           /\ Has(HelpOptions) /\ Was({"--version"}) /\ Was({"--no-source-map"})
           /\ Was(DOMAIN ActionOf)
      /\ Argument = "--version" =>
           /\ Was(HelpOptions) /\ Has({"--version"}) /\ Was({"--no-source-map"})
           /\ Was(DOMAIN ActionOf)
      /\ Argument = "--no-source-map" =>
           /\ Was(HelpOptions) /\ Was({"--version"}) /\ Has({"--no-source-map"})
           /\ Was(DOMAIN ActionOf)
      /\ Argument \in DOMAIN ActionOf =>
           /\ Was(HelpOptions) /\ Was({"--version"}) /\ Was({"--no-source-map"})
           /\ Has(DOMAIN ActionOf)
  BY <1>1, <1>3, KindsAreDisjoint
<1>7. options \in OptionsType /\ options' = WithFlag
  BY DEF ControlTypeOK, ParseFlag
<1> HIDE DEF Was, Has
<1>8. ASSUME options'.input = options.input, options'.output = options.output
       PROVE  PathsUnderstood'
  <2>1. OutputBefore' => OutputOptionAt' + 1 < index'
    BY <1>1, <1>3, <1>5, FirstOutputOption DEF Understood, PathsUnderstood
  <2>2. options'.output = (IF OutputBefore THEN <<arguments[OutputOptionAt+1]>> ELSE <<>>)'
    BY <1>1, <1>3, <1>5, <1>8 DEF Understood, PathsUnderstood
  <2>3. options'.input
          = (IF InputsBefore = {} THEN <<>> ELSE <<arguments[Min(InputsBefore)]>>)'
    BY <1>1, <1>4, <1>8 DEF Understood, PathsUnderstood
  <2> QED
    BY <1>4, <2>1, <2>2, <2>3 DEF Understood, PathsUnderstood
<1>9. Was(DOMAIN ActionOf) /\ options'.action = options.action =>
         options'.action = (IF Before(DOMAIN ActionOf) = {} THEN "Emit"
                            ELSE ActionOf[arguments[Max(Before(DOMAIN ActionOf))]])'
  BY <1>1 DEF Understood, FlagsUnderstood, Was
<1>10. CASE Argument \in HelpOptions
  <2>1. options' = [options EXCEPT !.help = TRUE]
    BY <1>7, <1>10, KindsAreDisjoint DEF WithFlag
  <2>2. /\ options'.input = options.input /\ options'.output = options.output
        /\ options'.help = TRUE /\ options'.version = options.version
        /\ options'.retainSourceMap = options.retainSourceMap /\ options'.action = options.action
    BY <1>7, <2>1 DEF OptionsType
  <2>3. FlagsUnderstood'
    BY <1>6, <1>9, <1>10, <2>2 DEF Understood, FlagsUnderstood, Was, Has
  <2> QED
    BY <1>8, <2>2, <2>3 DEF Understood
<1>11. CASE Argument = "--version"
  <2>1. options' = [options EXCEPT !.version = TRUE]
    BY <1>7, <1>11, KindsAreDisjoint DEF WithFlag
  <2>2. /\ options'.input = options.input /\ options'.output = options.output
        /\ options'.help = options.help /\ options'.version = TRUE
        /\ options'.retainSourceMap = options.retainSourceMap /\ options'.action = options.action
    BY <1>7, <2>1 DEF OptionsType
  <2>3. FlagsUnderstood'
    BY <1>6, <1>9, <1>11, <2>2 DEF Understood, FlagsUnderstood, Was, Has
  <2> QED
    BY <1>8, <2>2, <2>3 DEF Understood
<1>12. CASE Argument = "--no-source-map"
  <2>1. options' = [options EXCEPT !.retainSourceMap = FALSE]
    BY <1>7, <1>12, KindsAreDisjoint DEF WithFlag
  <2>2. /\ options'.input = options.input /\ options'.output = options.output
        /\ options'.help = options.help /\ options'.version = options.version
        /\ options'.retainSourceMap = FALSE /\ options'.action = options.action
    BY <1>7, <2>1 DEF OptionsType
  <2>3. FlagsUnderstood'
    BY <1>6, <1>9, <1>12, <2>2 DEF Understood, FlagsUnderstood, Was, Has
  <2> QED
    BY <1>8, <2>2, <2>3 DEF Understood
<1>13. CASE Argument \in DOMAIN ActionOf
  <2>1. options' = [options EXCEPT !.action = ActionOf[Argument]]
    BY <1>7, <1>13, KindsAreDisjoint DEF WithFlag
  <2>2. /\ options'.input = options.input /\ options'.output = options.output
        /\ options'.help = options.help /\ options'.version = options.version
        /\ options'.retainSourceMap = options.retainSourceMap
        /\ options'.action = ActionOf[Argument]
    BY <1>7, <2>1 DEF OptionsType
  <2>3. Max(Before(DOMAIN ActionOf)') = index /\ Before(DOMAIN ActionOf)' # {}
    BY <1>6, <1>13, LastBefore DEF Has
  <2>4. FlagsUnderstood'
    BY <1>1, <1>6, <1>13, <2>2, <2>3 DEF Understood, FlagsUnderstood, Was
  <2> QED
    BY <1>8, <2>2, <2>4 DEF Understood
<1> QED
  BY <1>1, <1>10, <1>11, <1>12, <1>13, KindsAreDisjoint

\* The first -o takes its path along, whatever the path looks like.
LEMMA ParsingOutput ==
  ASSUME ControlTypeOK, Understood, ParseOutput
  PROVE  Understood'
<1>1. /\ index \in 1..Len(arguments) /\ index' = index + 2 /\ arguments' = arguments
      /\ arguments[index] \in OutputOptions /\ options.output = <<>>
      /\ Len(arguments) \in Nat
  BY FirstOutputOption DEF ParseOutput, AtArgument, Parsed, Argument
<1>2. ~OutputBefore
  BY <1>1, OneIsNotNone DEF Understood, PathsUnderstood
<1>3. OutputOptionAt = index
  BY <1>1, <1>2, FirstOutputOption DEF OutputBefore
<1>4. OutputOptionAt' = index
  BY <1>1, <1>3, OutputOptionStays
<1>5. OutputBefore' /\ OutputOptionAt' + 1 < index'
  BY <1>1, <1>4 DEF OutputBefore
<1>6. Others = DOMAIN arguments \ {index, index + 1} /\ Others' = Others
  BY <1>1, <1>3, <1>4 DEF Others
<1>7. \A i \in Others : i < index' <=> i < index
  <2>1. DOMAIN arguments = 1..Len(arguments)
    BY CommandLineAssumption DEF ControlTypeOK
  <2> QED
    BY <1>1, <1>6, <2>1
<1>8. (\A set : Before(set)' = Before(set)) /\ InputsBefore' = InputsBefore
  BY <1>1, <1>6, <1>7 DEF Before, InputsBefore, InputsAt, Having
<1> DEFINE path == arguments[index+1]
<1>9. /\ options'.input = options.input /\ options'.output = <<path>>
      /\ options'.help = options.help /\ options'.version = options.version
      /\ options'.retainSourceMap = options.retainSourceMap
      /\ options'.action = options.action
  BY DEF ParseOutput, ControlTypeOK, OptionsType
<1>10. PathsUnderstood'
  <2>1. options'.output = (IF OutputBefore THEN <<arguments[OutputOptionAt+1]>> ELSE <<>>)'
    BY <1>1, <1>4, <1>5, <1>9
  <2>2. options'.input
          = (IF InputsBefore = {} THEN <<>> ELSE <<arguments[Min(InputsBefore)]>>)'
    BY <1>1, <1>8, <1>9 DEF Understood, PathsUnderstood
  <2> QED
    BY <1>5, <1>8, <2>1, <2>2 DEF Understood, PathsUnderstood
<1>11. FlagsUnderstood'
  BY <1>1, <1>8, <1>9 DEF Understood, FlagsUnderstood
<1> QED
  BY <1>10, <1>11 DEF Understood

LEMMA ParsingInput ==
  ASSUME ControlTypeOK, Understood, ParseInput
  PROVE  Understood'
<1>1. /\ index \in 1..Len(arguments) /\ index' = index + 1 /\ arguments' = arguments
      /\ Argument = arguments[index] /\ Argument \notin Options /\ options.input = <<>>
      /\ index \in Int
  BY FirstOutputOption DEF ParseInput, AtArgument, Parsed, Argument
<1>2. index # OutputOptionAt
  BY <1>1, FirstOutputOption, KindsAreDisjoint
<1>3. /\ \A set : Before(set)' = Before(set) \cup {i \in {index} : Argument \in set}
      /\ InputsBefore' = InputsBefore \cup {i \in {index} : Argument \notin Options}
      /\ OutputBefore' <=> OutputBefore
  BY <1>1, <1>2, BeforeGrows
<1>4. InputsBefore = {}
  BY <1>1, OneIsNotNone DEF Understood, PathsUnderstood
<1>5. InputsBefore' = {index}
  BY <1>1, <1>3, <1>4
<1>6. /\ Before(HelpOptions)' = Before(HelpOptions)
      /\ Before({"--version"})' = Before({"--version"})
      /\ Before({"--no-source-map"})' = Before({"--no-source-map"})
      /\ Before(DOMAIN ActionOf)' = Before(DOMAIN ActionOf)
      /\ Before(OutputOptions \cup UnknownOptions)' = Before(OutputOptions \cup UnknownOptions)
  BY <1>1, <1>3, KindsAreDisjoint
<1>7. OutputOptionAt' = OutputOptionAt
  BY <1>1, OutputOptionStays
<1>8. /\ options'.input = <<Argument>> /\ options'.output = options.output
      /\ options'.help = options.help /\ options'.version = options.version
      /\ options'.retainSourceMap = options.retainSourceMap
      /\ options'.action = options.action
  BY DEF ParseInput, ControlTypeOK, OptionsType
<1>9. PathsUnderstood'
  <2>1. options'.output = (IF OutputBefore THEN <<arguments[OutputOptionAt+1]>> ELSE <<>>)'
    BY <1>1, <1>3, <1>7, <1>8 DEF Understood, PathsUnderstood
  <2>2. Min({index}) = index
    BY <1>1, MinIs
  <2>3. options'.input
          = (IF InputsBefore = {} THEN <<>> ELSE <<arguments[Min(InputsBefore)]>>)'
    BY <1>1, <1>5, <1>8, <2>2
  <2>4. OutputBefore' => OutputOptionAt' + 1 < index'
    BY <1>1, <1>3, <1>7, FirstOutputOption DEF Understood, PathsUnderstood
  <2> QED
    BY <1>5, <1>6, <2>1, <2>3, <2>4 DEF Understood, PathsUnderstood
<1>10. FlagsUnderstood'
  BY <1>1, <1>6, <1>8 DEF Understood, FlagsUnderstood
<1> QED
  BY <1>9, <1>10 DEF Understood

\* Behind the last argument the options are the meaning of all of them.
LEMMA UnderstoodAtTheEnd ==
  ASSUME ControlTypeOK, Understood, index > Len(arguments)
  PROVE  Wellformed /\ options = Meaning
<1>1. /\ index = Len(arguments) + 1 /\ Len(arguments) \in Nat
      /\ OutputOptionAt \in 0..Len(arguments) /\ DOMAIN arguments = 1..Len(arguments)
  BY FirstOutputOption, CommandLineAssumption DEF ControlTypeOK
<1>2. \A set : Before(set) = Having(set)
  BY <1>1 DEF Before, Having, Others
<1>3. InputsBefore = InputsAt
  BY <1>1 DEF InputsBefore, InputsAt, Having, Others
<1>4. OutputBefore <=> OutputOptionAt # 0
  BY <1>1 DEF OutputBefore
<1>5. Wellformed
  <2>1. OutputOptionAt = 0 \/ OutputOptionAt < Len(arguments)
    BY <1>1, <1>4 DEF Understood, PathsUnderstood
  <2>2. Having(OutputOptions \cup UnknownOptions) = {}
    BY <1>2 DEF Understood, PathsUnderstood
  <2>3. Cardinality(InputsAt) <= 1
    <3>1. CASE InputsAt = {}
      BY <3>1, FS_EmptySet
    <3>2. CASE InputsAt # {}
      <4>1. PICK i \in InputsAt : InputsAt = {i}
        BY <1>3, <3>2 DEF Understood, PathsUnderstood
      <4>2. Cardinality({i}) = 1
        BY FS_Singleton
      <4> QED
        BY <4>1, <4>2
    <3> QED
      BY <3>1, <3>2
  <2> QED
    BY <2>1, <2>2, <2>3 DEF Wellformed
<1>6. options = Meaning
  <2>1. /\ options.help = (Having(HelpOptions) # {})
        /\ options.version = (Having({"--version"}) # {})
        /\ options.retainSourceMap = (Having({"--no-source-map"}) = {})
    BY <1>2 DEF Understood, FlagsUnderstood, ControlTypeOK, OptionsType
  <2>2. options.action = Meaning.action
    BY <1>2 DEF Understood, FlagsUnderstood, Meaning, ActionAt
  <2>3. options.input = Meaning.input /\ options.output = Meaning.output
    BY <1>3, <1>4 DEF Understood, PathsUnderstood, Meaning
  <2>4. options = [action |-> options.action, retainSourceMap |-> options.retainSourceMap,
                   input |-> options.input, output |-> options.output,
                   help |-> options.help, version |-> options.version]
    BY DEF ControlTypeOK, OptionsType
  <2> QED
    BY <2>1, <2>2, <2>3, <2>4 DEF Meaning
<1> QED
  BY <1>5, <1>6

\* What is rejected in the loop has no meaning.
LEMMA RejectedIsIllformed ==
  ASSUME ControlTypeOK, Understood, AtArgument, ArgumentError # "none"
  PROVE  ~Wellformed
<1>1. /\ index \in 1..Len(arguments) /\ Len(arguments) \in Nat
      /\ Argument = arguments[index]
      /\ OutputOptionAt \in 0..Len(arguments) /\ DOMAIN arguments = 1..Len(arguments)
  BY FirstOutputOption, CommandLineAssumption DEF AtArgument, Argument, ControlTypeOK
<1>2. index # OutputOptionAt => index \in Others
  BY <1>1 DEF Others, Understood, PathsUnderstood, OutputBefore
<1>3. \A set : index # OutputOptionAt /\ Argument \in set => index \in Having(set)
  BY <1>1, <1>2 DEF Having
<1>4. CASE Argument \in OutputOptions /\ index = Len(arguments)
  <2>1. CASE index = OutputOptionAt
    BY <1>1, <1>4, <2>1 DEF Wellformed
  <2>2. CASE index # OutputOptionAt
    BY <1>3, <1>4, <2>2 DEF Wellformed
  <2> QED
    BY <2>1, <2>2
<1>5. CASE Argument \in OutputOptions /\ index < Len(arguments) /\ options.output # <<>>
  <2>1. OutputBefore
    BY <1>5 DEF Understood, PathsUnderstood
  <2>2. index # OutputOptionAt
    BY <1>1, <2>1 DEF OutputBefore
  <2> QED
    BY <1>3, <1>5, <2>2 DEF Wellformed
<1>6. CASE Argument \in UnknownOptions
  <2>1. index # OutputOptionAt
    BY <1>1, <1>6, FirstOutputOption, KindsAreDisjoint
  <2> QED
    BY <1>3, <1>6, <2>1 DEF Wellformed
<1>7. CASE Argument \notin Options /\ options.input # <<>>
  <2>1. index # OutputOptionAt
    BY <1>1, <1>7, FirstOutputOption, KindsAreDisjoint
  <2>2. index \in InputsAt
    BY <1>1, <1>2, <1>7, <2>1 DEF InputsAt, Having
  <2>3. PICK other \in InputsAt : other # index
    BY <1>1, <1>7 DEF Understood, PathsUnderstood, InputsBefore
  <2>4. IsFiniteSet(InputsAt)
    <3>1. InputsAt \in SUBSET (1..Len(arguments)) /\ IsFiniteSet(1..Len(arguments))
      BY <1>1, FS_Interval DEF InputsAt, Others
    <3> QED
      BY <3>1, FS_Subset
  <2>5. Cardinality({index, other}) = 2
    <3>1. {index, other} = {index} \cup {other} /\ other \notin {index}
      BY <2>3
    <3>2. IsFiniteSet({index}) /\ Cardinality({index}) = 1
      BY FS_Singleton
    <3>3. Cardinality({index} \cup {other}) = Cardinality({index}) + 1
      BY <3>1, <3>2, FS_AddElement
    <3> QED
      BY <3>1, <3>2, <3>3
  <2>6. Cardinality({index, other}) <= Cardinality(InputsAt) /\ Cardinality(InputsAt) \in Nat
    <3>1. {index, other} \in SUBSET InputsAt
      BY <2>2, <2>3
    <3> QED
      BY <2>4, <3>1, FS_Subset, FS_CardinalityType
  <2> QED
    BY <2>5, <2>6 DEF Wellformed
<1> QED
  BY <1>4, <1>5, <1>6, <1>7 DEF ArgumentError

\* The command that is complete but asks for nothing that can be done.
LEMMA CommandErrorIsTrue ==
  ASSUME Wellformed, options = Meaning, ~Asked
  PROVE  (CommandError = "none") <=> Meaningful
<1>1. ~Meaning.help /\ ~Meaning.version
  BY DEF Asked
<1>2. options.input = <<>> <=> InputsAt = {}
  BY OneIsNotNone DEF Meaning
<1>3. options.output = <<>> <=> OutputOptionAt = 0
  BY OneIsNotNone DEF Meaning
<1> QED
  BY <1>1, <1>2, <1>3 DEF CommandError, Meaningful

LEMMA MeaningStays ==
  ASSUME UNCHANGED <<arguments, index, options>>
  PROVE  /\ Understood' <=> Understood
         /\ Wellformed' <=> Wellformed
         /\ Meaningful' <=> Meaningful
         /\ Meaning' = Meaning
<1>1. OutputOptionAt' = OutputOptionAt /\ Others' = Others
  BY OutputOptionStays DEF Others
<1>2. (\A set : Having(set)' = Having(set)) /\ (\A set : Before(set)' = Before(set))
  BY <1>1 DEF Having, Before
<1>3. InputsAt' = InputsAt /\ InputsBefore' = InputsBefore /\ ActionAt' = ActionAt
  BY <1>1, <1>2 DEF InputsAt, InputsBefore, ActionAt
<1>4. Meaning' = Meaning
  BY <1>1, <1>2, <1>3 DEF Meaning
<1>5. Wellformed' <=> Wellformed
  BY <1>1, <1>2, <1>3 DEF Wellformed
<1>6. Understood' <=> Understood
  BY <1>1, <1>2, <1>3 DEF Understood, PathsUnderstood, FlagsUnderstood, OutputBefore
<1> QED
  BY <1>1, <1>3, <1>4, <1>5, <1>6 DEF Meaningful

LEMMA InitArguments == ControlTypeOK /\ Init => ArgumentInv
<1> SUFFICES ASSUME ControlTypeOK, Init PROVE ArgumentInv
  OBVIOUS
<1>1. index = 1 /\ phase = "arguments" /\ status = -1
  BY DEF Init
<1>2. Others \subseteq 1..Len(arguments)
  BY CommandLineAssumption DEF Others, ControlTypeOK
<1>3. (\A set : Before(set) = {}) /\ InputsBefore = {} /\ ~OutputBefore
  <2>1. \A i \in Others : ~(i < index)
    BY <1>1, <1>2
  <2>2. ~OutputBefore
    BY <1>1 DEF OutputBefore
  <2> QED
    BY <2>1, <2>2 DEF Before, Having, InputsBefore, InputsAt
<1>4. Understood
  BY <1>3 DEF Init, Understood, PathsUnderstood, FlagsUnderstood
<1> QED
  BY <1>1, <1>4 DEF ArgumentInv, ArgumentsAreUnderstood

LEMMA NextArguments ==
  ControlTypeOK /\ SInv /\ ArgumentInv /\ [Next]_vars => ArgumentInv'
<1> SUFFICES ASSUME ControlTypeOK, SInv, ArgumentInv, [Next]_vars PROVE ArgumentInv'
  OBVIOUS
<1>1. CASE ParseFlag \/ ParseOutput \/ ParseInput
  <2>1. phase = "arguments" /\ phase' = "arguments" /\ status' = -1
    BY <1>1 DEF ParseFlag, ParseOutput, ParseInput, AtArgument, Parsed, ControlTypeOK
  <2>2. Understood'
    BY <1>1, <2>1, ParsingAFlag, ParsingOutput, ParsingInput DEF ArgumentInv
  <2> QED
    BY <2>1, <2>2 DEF ArgumentInv, ArgumentsAreUnderstood
<1>2. CASE RejectArgument
  <2>1. /\ phase = "arguments" /\ phase' = "exited" /\ status' = 2
        /\ UNCHANGED <<arguments, index, options>>
        /\ AtArgument /\ ArgumentError # "none"
    BY <1>2 DEF RejectArgument, AtArgument, Fail, Exit
  <2>2. ~Wellformed
    BY <2>1, RejectedIsIllformed DEF ArgumentInv
  <2>3. ~Wellformed' /\ ~Meaningful'
    BY <2>1, <2>2, MeaningStays DEF Meaningful
  <2> QED
    BY <2>1, <2>3 DEF ArgumentInv, ArgumentsAreUnderstood
<1>3. CASE RejectCommand \/ ShowHelpOrVersion \/ AcceptCommand
  <2>1. /\ AtEndOfArguments /\ UNCHANGED <<arguments, index, options>>
    BY <1>3 DEF RejectCommand, ShowHelpOrVersion, AcceptCommand
  <2>2. index > Len(arguments) /\ index \in Int /\ Len(arguments) \in Int /\ phase = "arguments"
    BY <2>1, FirstOutputOption DEF AtEndOfArguments
  <2>3. Wellformed /\ options = Meaning
    BY <2>2, UnderstoodAtTheEnd DEF ArgumentInv
  <2>4. ~(index' <= Len(arguments')) /\ options' = Meaning' /\ index' > Len(arguments')
    BY <2>1, <2>2, <2>3, MeaningStays
  <2>5. CASE RejectCommand
    <3>1. phase' = "exited" /\ status' = 2 /\ ~Asked /\ CommandError # "none"
      BY <2>5 DEF RejectCommand, Fail, Exit
    <3>2. ~Meaningful'
      BY <2>1, <2>3, <3>1, CommandErrorIsTrue, MeaningStays
    <3> QED
      BY <2>4, <3>1, <3>2 DEF ArgumentInv, ArgumentsAreUnderstood
  <2>6. CASE ShowHelpOrVersion
    <3>1. phase' = "exited" /\ status' = 0 /\ Asked
      BY <2>6 DEF ShowHelpOrVersion, Exit
    <3>2. Meaningful'
      BY <2>1, <2>3, <3>1, MeaningStays DEF Asked, Meaningful
    <3> QED
      BY <2>4, <3>1, <3>2 DEF ArgumentInv, ArgumentsAreUnderstood
  <2>7. CASE AcceptCommand
    <3>1. phase' = "read" /\ status' = status /\ status = -1 /\ ~Asked /\ CommandError = "none"
      BY <2>2, <2>7 DEF AcceptCommand, ControlTypeOK
    <3>2. Meaningful'
      BY <2>1, <2>3, <3>1, CommandErrorIsTrue, MeaningStays
    <3> QED
      BY <2>4, <3>1, <3>2 DEF ArgumentInv, ArgumentsAreUnderstood
  <2> QED
    BY <1>3, <2>5, <2>6, <2>7
<1>4. ASSUME UNCHANGED <<arguments, index, options>>,
             phase \notin {"arguments", "exited"}, phase' # "arguments",
             status' # 2 \/ error' = "source_not_opened" \/ answer'.given
      PROVE  ArgumentInv'
  <2>1. index > Len(arguments) /\ Meaningful /\ options = Meaning
    BY <1>4 DEF ArgumentInv
  <2>2. Meaningful' /\ options' = Meaning' /\ index' > Len(arguments')
    BY <1>4, <2>1, MeaningStays
  <2>3. ~(index' <= Len(arguments'))
    BY <1>4, <2>1, FirstOutputOption
  <2> QED
    BY <1>4, <2>2, <2>3 DEF ArgumentInv, ArgumentsAreUnderstood
<1>5. CASE ReadSource \/ FailToOpenSource
  BY <1>4, <1>5 DEF ReadSource, FailToOpenSource, Fail, Exit, ControlTypeOK
<1>6. CASE EmitDiagnostic \/ ReturnResult
  BY <1>4, <1>6 DEF EmitDiagnostic, ReturnResult, ControlTypeOK
<1>7. CASE PrintDiagnostic \/ ExitRefused \/ ExitWithoutOutput \/ StartWriting
  BY <1>4, <1>7 DEF PrintDiagnostic, ExitRefused, ExitWithoutOutput, StartWriting, AllPrinted,
                    Exit, ControlTypeOK
<1>8. CASE FailToOpenOutput \/ WriteFile \/ WriteStdout
  <2>1. phase = "write" /\ answer.given /\ answer' = answer
    BY <1>8 DEF FailToOpenOutput, WriteFile, WriteStdout, ToFile, ToStdout, SInv, AnswerOfTheCall
  <2> QED
    BY <1>4, <1>8, <2>1 DEF FailToOpenOutput, WriteFile, WriteStdout, Fail, Exit, ControlTypeOK
<1>9. CASE UNCHANGED vars
  BY <1>9, MeaningStays DEF vars, ArgumentInv, ArgumentsAreUnderstood
<1> QED
  BY <1>1, <1>2, <1>3, <1>5, <1>6, <1>7, <1>8, <1>9 DEF Next, Step, Exited

(***************************************************************************)
(* parse_command_line, for argument vectors of any length: what is carried *)
(* out is what the arguments mean, whatever their order, and a command is  *)
(* only rejected for its arguments when they have no meaning.              *)
(***************************************************************************)
THEOREM ArgumentsAreUnderstoodAlways == Spec => []ArgumentsAreUnderstood
<1>1. Init => ControlTypeOK /\ ArgumentInv
  BY InitTypes, InitArguments
<1>2. ArgumentInv => ArgumentsAreUnderstood
  BY DEF ArgumentInv
<1> QED
  BY <1>1, <1>2, TypeInvariant, StatusInvariant, NextArguments, PTL DEF Spec

-----------------------------------------------------------------------------
(* The line index of a source that is scanned to its end.                  *)

FullIndex == LInv /\ scanned = Len(source) /\ source \in Seq(STRING)

LineTotal == Len(lineStarts)

\* The offset belongs to the line: its last byte is a terminator or the
\* offset is the end of the source.
OnLine(line, offset) ==
  /\ line \in 1..LineTotal /\ lineStarts[line] <= offset
  /\ line < LineTotal => offset < lineStarts[line+1]

LEMMA IndexFacts ==
  ASSUME FullIndex
  PROVE  /\ Len(source) \in Nat /\ LineTotal \in Nat \ {0} /\ lineStarts[1] = 0
         /\ \A line \in 1..LineTotal : lineStarts[line] \in 0..Len(source)
         /\ \A i, j \in 1..LineTotal : i < j => lineStarts[i] < lineStarts[j]
<1>1. /\ lineStarts \in Seq(Int) /\ lineStarts # <<>> /\ lineStarts[1] = 0
      /\ ToSet(lineStarts) = {0} \cup {o \in 1..scanned : At(o-1) = "\n"}
      /\ \A i, j \in 1..LineTotal : i < j => lineStarts[i] < lineStarts[j]
  BY DEF FullIndex, LInv, LineIndexExact, LineTotal
<1>2. Len(source) \in Nat /\ scanned = Len(source)
  BY DEF FullIndex
<1>3. LineTotal \in Nat \ {0}
  BY <1>1 DEF LineTotal
<1>4. \A line \in 1..LineTotal : lineStarts[line] \in ToSet(lineStarts)
  BY <1>1 DEF LineTotal, ToSet
<1> QED
  BY <1>1, <1>2, <1>3, <1>4

\* Every line but the first begins behind a newline, and every newline is
\* the last byte before a line.
LEMMA LinesBeginBehindNewlines ==
  ASSUME FullIndex
  PROVE  /\ \A line \in 2..LineTotal : At(lineStarts[line]-1) = "\n"
         /\ \A o \in 0..Len(source)-1 :
              At(o) = "\n" => \E line \in 2..LineTotal : lineStarts[line] = o + 1
<1>1. /\ lineStarts \in Seq(Int)
      /\ ToSet(lineStarts) = {0} \cup {o \in 1..Len(source) : At(o-1) = "\n"}
  BY DEF FullIndex, LInv, LineIndexExact
<1>2. ASSUME NEW line \in 2..LineTotal PROVE At(lineStarts[line]-1) = "\n"
  <2>1. lineStarts[line] \in ToSet(lineStarts)
    BY <1>1 DEF LineTotal, ToSet
  <2>2. lineStarts[line] # 0
    BY IndexFacts
  <2> QED
    BY <1>1, <2>1, <2>2
<1>3. ASSUME NEW o \in 0..Len(source)-1, At(o) = "\n"
      PROVE  \E line \in 2..LineTotal : lineStarts[line] = o + 1
  <2>1. o + 1 \in 1..Len(source) /\ (o + 1) - 1 = o
    BY IndexFacts
  <2>2. o + 1 \in ToSet(lineStarts)
    BY <1>1, <1>3, <2>1
  <2>3. PICK line \in 1..LineTotal : lineStarts[line] = o + 1
    <3>1. DOMAIN lineStarts = 1..LineTotal
      BY <1>1 DEF LineTotal
    <3>2. PICK i \in DOMAIN lineStarts : lineStarts[i] = o + 1
      BY <2>2 DEF ToSet
    <3> QED
      BY <3>1, <3>2
  <2>4. line # 1
    BY <2>1, <2>3, IndexFacts
  <2> QED
    BY <2>3, <2>4, IndexFacts
<1> QED
  BY <1>2, <1>3

\* Numbers that ascend are counted by their places.
LEMMA AscendingCounted ==
  ASSUME NEW n \in Nat, NEW f \in [1..n -> Int],
         \A i, j \in 1..n : i < j => f[i] < f[j]
  PROVE  Cardinality({f[i] : i \in 1..n}) = n
<1> DEFINE T == {f[i] : i \in 1..n}
<1>1. f \in [1..n -> T]
  OBVIOUS
<1>2. \A i, j \in 1..n : f[i] = f[j] => i = j
  OBVIOUS
<1>3. \A t \in T : \E i \in 1..n : f[i] = t
  OBVIOUS
<1>4. f \in Bijection(1..n, T)
  BY <1>1, <1>2, <1>3 DEF Bijection, Injection, Surjection, IsInjective
<1>5. ExistsBijection(1..n, T)
  BY <1>4 DEF ExistsBijection
<1> QED
  BY <1>5, FS_CountingElements

\* The newlines before an offset are those that end the lines before its
\* line; the last of them is the byte before the line.
LEMMA NewlinesBefore ==
  ASSUME FullIndex, NEW offset \in 0..Len(source), NEW line, OnLine(line, offset)
  PROVE  /\ Cardinality(Newlines(0, offset)) = line - 1
         /\ Max({-1} \cup Newlines(0, offset)) = lineStarts[line] - 1
<1>1. line \in 1..LineTotal /\ line - 1 \in Nat
  BY IndexFacts DEF OnLine
<1> DEFINE f == [i \in 1..line-1 |-> lineStarts[i+1] - 1]
<1>2. \A i \in 1..line-1 : i + 1 \in 2..LineTotal /\ i + 1 <= line
  BY <1>1, IndexFacts
<1>3. f \in [1..line-1 -> Int] /\ \A i, j \in 1..line-1 : i < j => f[i] < f[j]
  <2>1. \A i \in 1..line-1 : lineStarts[i+1] \in Int
    BY <1>2, IndexFacts
  <2>2. \A i, j \in 1..line-1 : i < j => lineStarts[i+1] < lineStarts[j+1]
    BY <1>1, <1>2, IndexFacts
  <2> QED
    BY <2>1, <2>2
<1>4. Newlines(0, offset) = {f[i] : i \in 1..line-1}
  <2>1. ASSUME NEW o \in Newlines(0, offset) PROVE o \in {f[i] : i \in 1..line-1}
    <3>1. o \in 0..Len(source)-1 /\ At(o) = "\n" /\ o < offset
      BY IndexFacts DEF Newlines
    <3>2. PICK k \in 2..LineTotal : lineStarts[k] = o + 1
      BY <3>1, LinesBeginBehindNewlines
    <3>3. k <= line
      BY <3>1, <3>2, IndexFacts DEF OnLine
    <3>4. k - 1 \in 1..line-1 /\ f[k-1] = o
      BY <1>1, <3>1, <3>2, <3>3, IndexFacts
    <3> QED
      BY <3>4
  <2>2. ASSUME NEW i \in 1..line-1 PROVE f[i] \in Newlines(0, offset)
    <3>1. f[i] = lineStarts[i+1] - 1 /\ i + 1 \in 2..LineTotal /\ i + 1 <= line
      BY <1>2
    <3>2. lineStarts[i+1] <= lineStarts[line] /\ lineStarts[1] < lineStarts[i+1]
      BY <1>1, <3>1, IndexFacts
    <3>3. At(lineStarts[i+1]-1) = "\n"
      BY <3>1, LinesBeginBehindNewlines
    <3> QED
      BY <1>1, <3>1, <3>2, <3>3, IndexFacts DEF OnLine, Newlines
  <2> QED
    BY <2>1, <2>2
<1>5. Cardinality(Newlines(0, offset)) = line - 1
  <2> HIDE DEF f
  <2> QED
    BY <1>1, <1>3, <1>4, AscendingCounted
<1>6. Max({-1} \cup Newlines(0, offset)) = lineStarts[line] - 1
  <2> DEFINE S == {-1} \cup {f[i] : i \in 1..line-1}
  <2>1. S \in SUBSET Int
    BY <1>3
  <2>2. lineStarts[line] - 1 \in S
    <3>1. CASE line = 1
      BY <3>1, IndexFacts
    <3>2. CASE line # 1
      <4>1. line - 1 \in 1..line-1 /\ f[line-1] = lineStarts[line] - 1
        BY <1>1, <3>2, IndexFacts
      <4> QED
        BY <4>1
    <3> QED
      BY <3>1, <3>2
  <2>3. \A y \in S : y <= lineStarts[line] - 1
    <3>1. \A i \in 1..line-1 : f[i] <= lineStarts[line] - 1
      BY <1>1, <1>2, IndexFacts
    <3>2. -1 <= lineStarts[line] - 1
      BY <1>1, IndexFacts
    <3> QED
      BY <3>1, <3>2
  <2> HIDE DEF S
  <2>4. Max(S) = lineStarts[line] - 1
    BY <2>1, <2>2, <2>3, MaxIs
  <2> QED
    BY <1>4, <2>4 DEF S
<1> QED
  BY <1>5, <1>6

\* line_index_for_offset finds the line of every offset, the end included.
LEMMA LineForIsOnLine ==
  ASSUME FullIndex, NEW offset \in 0..Len(source)
  PROVE  OnLine(LineFor(offset), offset)
<1> DEFINE S == {1} \cup {line \in 1..LineTotal : lineStarts[line] <= offset}
<1>1. S \in SUBSET (0..LineTotal) /\ S # {} /\ LineTotal \in Nat
  BY IndexFacts
<1>2. LineFor(offset) = Max(S)
  BY DEF LineFor, LineTotal
<1>3. \A line \in S : line \in 1..LineTotal /\ lineStarts[line] <= offset
  BY IndexFacts
<1>4. \A line \in 1..LineTotal : lineStarts[line] <= offset => line \in S
  OBVIOUS
<1> HIDE DEF S
<1>5. Max(S) \in S /\ \A y \in S : y <= Max(S)
  BY <1>1, MaxOfNaturals
<1>6. Max(S) < LineTotal => offset < lineStarts[Max(S)+1]
  <2> SUFFICES ASSUME Max(S) < LineTotal PROVE offset < lineStarts[Max(S)+1]
    OBVIOUS
  <2>1. Max(S) \in Nat /\ Max(S) + 1 \in 1..LineTotal /\ ~(Max(S) + 1 <= Max(S))
    <3>1. Max(S) \in 1..LineTotal /\ LineTotal \in Nat
      BY <1>1, <1>3, <1>5
    <3> HIDE DEF S
    <3> QED
      BY <3>1
  <2>2. Max(S) + 1 \notin S
    BY <1>5, <2>1
  <2> QED
    BY <1>4, <2>1, <2>2, IndexFacts
<1> QED
  BY <1>2, <1>3, <1>5, <1>6 DEF OnLine

\* Behind the end of the file is the last line.
LEMMA LastLineCounted ==
  ASSUME FullIndex
  PROVE  Cardinality(Newlines(0, Len(source))) + 1 = LineTotal
<1>1. OnLine(LineTotal, Len(source)) /\ Len(source) \in 0..Len(source)
  BY IndexFacts DEF OnLine
<1>2. Cardinality(Newlines(0, Len(source))) = LineTotal - 1
  BY <1>1, NewlinesBefore
<1>3. LineTotal \in Int
  BY IndexFacts
<1> QED
  BY <1>2, <1>3

-----------------------------------------------------------------------------
(* A row.                                                                  *)

WholeLine(row) ==
  /\ row.number = Cardinality(Newlines(0, row.from)) + 1
  /\ row.from = 0 \/ At(row.from-1) = "\n"
  /\ Newlines(row.from, row.to) = {}
  /\ Hidden(row.to) /\ (row.to = row.from \/ ~Hidden(row.to-1))

\* What SourceFile::line strips: LF, then CR, each at most once.
LEMMA LineEndStrips ==
  ASSUME FullIndex, NEW line \in 1..LineTotal
  PROVE  LET start == lineStarts[line]
             to == LineEnd(line)
         IN  /\ to \in start..Len(source)
             /\ Newlines(start, to) = {}
             /\ Hidden(to) /\ (to = start \/ ~Hidden(to-1))
<1> DEFINE start == lineStarts[line]
           end == IF line < LineTotal THEN lineStarts[line+1] ELSE Len(source)
           body == Without("\n", start, end)
           to == Without("\r", start, body)
<1>1. LineEnd(line) = to
  BY DEF LineEnd, LineTotal
<1>2. start \in Nat /\ end \in start..Len(source) /\ (line < LineTotal => start < end)
  BY IndexFacts
<1>3. \A o \in start..end-1 : At(o) = "\n" => line < LineTotal /\ o = end - 1
  <2> SUFFICES ASSUME NEW o \in start..end-1, At(o) = "\n"
               PROVE  line < LineTotal /\ o = end - 1
    OBVIOUS
  <2>1. o \in 0..Len(source)-1
    BY <1>2, IndexFacts
  <2>2. PICK k \in 2..LineTotal : lineStarts[k] = o + 1
    BY <2>1, LinesBeginBehindNewlines
  <2>3. line < k
    BY <1>2, <2>1, <2>2, IndexFacts
  <2>4. line < LineTotal /\ (line + 1 < k => lineStarts[line+1] < lineStarts[k])
    BY <2>2, <2>3, IndexFacts
  <2>5. end <= o + 1
    <3>1. line + 1 \in 1..LineTotal /\ k \in 1..LineTotal /\ end = lineStarts[line+1]
      BY <2>3, <2>4, IndexFacts
    <3>2. CASE line + 1 = k
      BY <2>1, <2>2, <3>1, <3>2
    <3>3. CASE line + 1 # k
      <4>1. line + 1 < k
        BY <2>3, <3>3, IndexFacts
      <4>2. end < o + 1
        BY <2>2, <2>4, <3>1, <4>1
      <4> QED
        BY <1>2, <2>1, <4>2
    <3> QED
      BY <3>2, <3>3
  <2>6. start \in Int /\ end \in Int /\ o \in start..end-1
    BY <1>2
  <2> HIDE DEF start, end
  <2> QED
    BY <2>4, <2>5, <2>6
<1>4. line < LineTotal => At(end-1) = "\n"
  BY LinesBeginBehindNewlines, IndexFacts
<1>5. /\ body = IF line < LineTotal THEN end - 1 ELSE end
      /\ body \in start..Len(source)
      /\ \A o \in start..body-1 : At(o) # "\n"
      /\ body = Len(source) \/ At(body) = "\n"
  BY <1>2, <1>3, <1>4, IndexFacts DEF Without
<1> HIDE DEF body, end
<1>6. to = IF body > start /\ At(body-1) = "\r" THEN body - 1 ELSE body
  BY DEF Without
<1> HIDE DEF to
<1>7. to \in start..Len(source) /\ to <= body
  BY <1>2, <1>5, <1>6, IndexFacts
<1>8. Newlines(start, to) = {}
  BY <1>2, <1>5, <1>7, IndexFacts DEF Newlines
<1>9. CASE to = body
  <2>1. Hidden(to)
    BY <1>5, <1>9 DEF Hidden
  <2>2. to # start => At(to-1) # "\r" /\ At(to-1) # "\n" /\ to - 1 # Len(source)
    BY <1>2, <1>5, <1>6, <1>7, <1>9, IndexFacts
  <2>3. to = start \/ ~Hidden(to-1)
    BY <2>2 DEF Hidden
  <2> QED
    BY <1>1, <1>7, <1>8, <2>1, <2>3
<1>10. CASE to # body
  <2>1. to = body - 1 /\ At(to) = "\r" /\ body > start /\ to + 1 = body
    BY <1>2, <1>5, <1>6, <1>10, IndexFacts
  <2>2. Hidden(to)
    BY <1>5, <2>1 DEF Hidden
  <2>3. to # start =>
          /\ to - 1 # Len(source) /\ At(to-1) # "\n" /\ (to - 1) + 1 = to
          /\ to # Len(source)
    BY <1>2, <1>5, <1>7, <2>1, IndexFacts
  <2>4. "\r" # "\n"
    OBVIOUS
  <2>5. to = start \/ ~Hidden(to-1)
    BY <2>1, <2>3, <2>4 DEF Hidden
  <2> QED
    BY <1>1, <1>7, <1>8, <2>2, <2>5
<1> QED
  BY <1>9, <1>10

LEMMA RowIsWholeLine ==
  ASSUME FullIndex, NEW line \in 1..LineTotal
  PROVE  WholeLine(Row(line))
<1> DEFINE start == lineStarts[line]
<1>1. start \in 0..Len(source) /\ line \in Nat /\ OnLine(line, start)
  BY IndexFacts DEF OnLine
<1>2. line = Cardinality(Newlines(0, start)) + 1
  <2>1. Cardinality(Newlines(0, start)) = line - 1
    BY <1>1, NewlinesBefore
  <2> QED
    BY <1>1, <2>1
<1>3. start = 0 \/ At(start-1) = "\n"
  BY LinesBeginBehindNewlines, IndexFacts
<1>4. Newlines(start, LineEnd(line)) = {} /\ Hidden(LineEnd(line))
      /\ (LineEnd(line) = start \/ ~Hidden(LineEnd(line)-1))
  BY LineEndStrips
<1> HIDE DEF start
<1>5. Row(line) = [number |-> line, from |-> start, to |-> LineEnd(line)]
  BY DEF Row, start
<1> QED
  BY <1>2, <1>3, <1>4, <1>5 DEF WholeLine

-----------------------------------------------------------------------------
(* An excerpt.                                                             *)

\* What PositionsAreOfTheRange, RowsAreLines and CaretsMarkTheRange say of
\* one excerpt.
PositionTrue(e) ==
  LET before == Newlines(0, e.range.begin)
  IN  /\ e.excerpt.line = Cardinality(before) + 1
      /\ e.excerpt.column = e.range.begin - Max({-1} \cup before)

RowsTrue(e) ==
  LET rows == e.excerpt.rows
      last == Cardinality(Newlines(0, Len(source))) + 1
  IN  /\ {row.number : row \in ToSet(rows)}
           = (e.excerpt.line-1..e.excerpt.line+1) \cap (1..last)
      /\ \A i \in 1..Len(rows)-1 : rows[i].number < rows[i+1].number
      /\ \A row \in ToSet(rows) : WholeLine(row)

\* What stands below a byte before the carets.
Shadow(byte) == IF byte = "\t" THEN "\t" ELSE " "

CaretsTrue(e) ==
  LET row == CHOOSE row \in ToSet(e.excerpt.rows) : row.number = e.excerpt.line
      first == row.from + Len(e.excerpt.prefix)
      marked == first..first+e.excerpt.width-1
      shown == (e.range.begin..e.range.end-1) \cap (row.from..row.to-1)
  IN  /\ marked = IF shown # {} THEN shown ELSE {Min({e.range.begin, row.to})}
      /\ \A i \in 1..Len(e.excerpt.prefix) :
           e.excerpt.prefix[i] = Shadow(At(row.from+i-1))

\* The lines that render_source_excerpt shows, as build_rows selects them.
Shown(line) == {n \in line-1..line+1 : n \in 1..LineTotal}

RowsOf(line) == [i \in 1..Cardinality(Shown(line)) |-> Row(Min(Shown(line)) + i - 1)]

LEMMA ShownIsAnInterval ==
  ASSUME NEW last \in Nat \ {0}, NEW line \in 1..last
  PROVE  LET shown == {n \in line-1..line+1 : n \in 1..last}
         IN  /\ Min(shown) \in 1..line /\ Cardinality(shown) \in Nat
             /\ line < Min(shown) + Cardinality(shown)
             /\ shown = Min(shown)..Min(shown)+Cardinality(shown)-1
<1> DEFINE shown == {n \in line-1..line+1 : n \in 1..last}
           lo == IF line = 1 THEN 1 ELSE line - 1
           hi == IF line = last THEN line ELSE line + 1
<1>1. lo \in Int /\ hi \in Int /\ lo \in 1..line /\ line <= hi /\ shown = lo..hi
  OBVIOUS
<1> HIDE DEF lo, hi, shown
<1>2. Cardinality(shown) = hi - lo + 1
  BY <1>1, FS_Interval
<1>3. Min(shown) = lo
  <2>1. shown \in SUBSET Int /\ lo \in shown /\ \A y \in shown : lo <= y
    BY <1>1
  <2> QED
    BY <2>1, MinIs
<1>4. /\ Min(shown) \in 1..line /\ Cardinality(shown) \in Nat
      /\ line < Min(shown) + Cardinality(shown)
      /\ shown = Min(shown)..Min(shown)+Cardinality(shown)-1
  BY <1>1, <1>2, <1>3
<1> QED
  BY <1>4 DEF shown

LEMMA RowsFacts ==
  ASSUME FullIndex, NEW line \in 1..LineTotal
  PROVE  /\ Shown(line) = (line-1..line+1) \cap (1..LineTotal)
         /\ line \in Shown(line)
         /\ Len(RowsOf(line)) \in Nat
         /\ RowsOf(line) \in Seq([number : Nat, from : Nat, to : Nat])
         /\ \A i \in 1..Len(RowsOf(line)) :
              /\ RowsOf(line)[i] = Row(Min(Shown(line)) + i - 1)
              /\ Min(Shown(line)) + i - 1 \in Shown(line)
         /\ \A n \in Shown(line) : \E i \in 1..Len(RowsOf(line)) : RowsOf(line)[i] = Row(n)
<1> DEFINE lo == Min(Shown(line))
           count == Cardinality(Shown(line))
<1>1. /\ lo \in 1..line /\ count \in Nat /\ line < lo + count
      /\ Shown(line) = lo..lo+count-1
  BY IndexFacts, ShownIsAnInterval DEF Shown
<1>2. Shown(line) = (line-1..line+1) \cap (1..LineTotal)
  BY DEF Shown
<1>3. \A n \in Shown(line) : Row(n) \in [number : Nat, from : Nat, to : Nat]
  <2> SUFFICES ASSUME NEW n \in Shown(line)
               PROVE  Row(n) \in [number : Nat, from : Nat, to : Nat]
    OBVIOUS
  <2>1. n \in 1..LineTotal
    BY <1>2
  <2>2. lineStarts[n] \in Nat /\ LineEnd(n) \in Nat /\ n \in Nat
    BY <2>1, IndexFacts, LineEndStrips
  <2> QED
    BY <2>2 DEF Row
<1>4. RowsOf(line) = [i \in 1..count |-> Row(lo + i - 1)]
  BY DEF RowsOf
<1> HIDE DEF lo, count
<1>5. \A i \in 1..count : lo + i - 1 \in Shown(line)
  BY <1>1
<1>6. RowsOf(line) \in Seq([number : Nat, from : Nat, to : Nat]) /\ Len(RowsOf(line)) = count
  <2>1. RowsOf(line) \in [1..count -> [number : Nat, from : Nat, to : Nat]]
    BY <1>3, <1>4, <1>5
  <2> QED
    BY <1>1, <2>1, FunctionIsSequence
<1>7. \A n \in Shown(line) : \E i \in 1..count : n = lo + i - 1
  <2> SUFFICES ASSUME NEW n \in Shown(line) PROVE \E i \in 1..count : n = lo + i - 1
    OBVIOUS
  <2>1. n - lo + 1 \in 1..count /\ n = lo + (n - lo + 1) - 1
    BY <1>1
  <2> QED
    BY <2>1
<1>8. \A n \in Shown(line) : \E i \in 1..count : RowsOf(line)[i] = Row(n)
  BY <1>4, <1>7
<1>9. line \in Shown(line)
  BY <1>1
<1> QED
  BY <1>1, <1>2, <1>4, <1>5, <1>6, <1>8, <1>9 DEF lo

\* What Excerpt puts together, each part under its own name.
LEMMA ExcerptParts ==
  ASSUME FullIndex, NEW range \in RangesOf(source), Located(range)
  PROVE  /\ range.begin \in 0..Len(source) /\ range.end \in range.begin..Len(source)
         /\ LineFor(range.begin) \in 1..LineTotal
         /\ OnLine(LineFor(range.begin), range.begin)
         /\ Excerpt(range).located
         /\ Excerpt(range).line = LineFor(range.begin)
         /\ Excerpt(range).column = range.begin - lineStarts[LineFor(range.begin)] + 1
         /\ Excerpt(range).rows = RowsOf(LineFor(range.begin))
         /\ Excerpt(range).width = UnderlineWidth(range, LineEnd(LineFor(range.begin)))
<1>1. range.begin \in 0..Len(source) /\ range.end \in range.begin..Len(source)
  BY IndexFacts DEF RangesOf, Located, ValidRange, NoRange, Invalid
<1>2. OnLine(LineFor(range.begin), range.begin)
  BY <1>1, LineForIsOnLine
<1> QED
  BY <1>1, <1>2 DEF OnLine, Excerpt, RowsOf, Shown, LineTotal

LEMMA PositionOfExcerpt ==
  ASSUME FullIndex, NEW range \in RangesOf(source), Located(range)
  PROVE  PositionTrue([range |-> range, excerpt |-> Excerpt(range)])
<1> DEFINE line == LineFor(range.begin)
           before == Newlines(0, range.begin)
<1>1. /\ range.begin \in 0..Len(source) /\ line \in 1..LineTotal /\ OnLine(line, range.begin)
      /\ Excerpt(range).line = line
      /\ Excerpt(range).column = range.begin - lineStarts[line] + 1
  BY ExcerptParts
<1>2. Cardinality(before) = line - 1 /\ Max({-1} \cup before) = lineStarts[line] - 1
  BY <1>1, NewlinesBefore
<1>3. line \in Int /\ lineStarts[line] \in Int /\ range.begin \in Int
  BY <1>1, IndexFacts
<1> HIDE DEF line, before
<1>4. /\ Excerpt(range).line = Cardinality(before) + 1
      /\ Excerpt(range).column = range.begin - Max({-1} \cup before)
  BY <1>1, <1>2, <1>3
<1> QED
  BY <1>4 DEF PositionTrue, before

LEMMA RowsOfExcerpt ==
  ASSUME FullIndex, NEW range \in RangesOf(source), Located(range)
  PROVE  RowsTrue([range |-> range, excerpt |-> Excerpt(range)])
<1> DEFINE line == LineFor(range.begin)
           rows == RowsOf(line)
<1>1. line \in 1..LineTotal /\ Excerpt(range).line = line /\ Excerpt(range).rows = rows
  BY ExcerptParts
<1>2. Cardinality(Newlines(0, Len(source))) + 1 = LineTotal
  BY LastLineCounted
<1> HIDE DEF line, rows
<1>3. /\ Shown(line) = (line-1..line+1) \cap (1..LineTotal)
      /\ Len(rows) \in Nat /\ DOMAIN rows = 1..Len(rows)
      /\ \A i \in 1..Len(rows) :
           /\ rows[i] = Row(Min(Shown(line)) + i - 1)
           /\ Min(Shown(line)) + i - 1 \in Shown(line)
      /\ \A n \in Shown(line) : \E i \in 1..Len(rows) : rows[i] = Row(n)
  <2>1. rows = RowsOf(line)
    BY DEF rows
  <2>2. rows \in Seq([number : Nat, from : Nat, to : Nat])
    BY <1>1, <2>1, RowsFacts
  <2>3. Len(rows) \in Nat /\ DOMAIN rows = 1..Len(rows)
    BY <2>2
  <2>4. /\ Shown(line) = (line-1..line+1) \cap (1..LineTotal)
        /\ \A i \in 1..Len(RowsOf(line)) :
             /\ RowsOf(line)[i] = Row(Min(Shown(line)) + i - 1)
             /\ Min(Shown(line)) + i - 1 \in Shown(line)
        /\ \A n \in Shown(line) :
             \E i \in 1..Len(RowsOf(line)) : RowsOf(line)[i] = Row(n)
    BY <1>1, RowsFacts
  <2> QED
    BY <2>1, <2>3, <2>4
<1>4. \A n : Row(n).number = n
  BY DEF Row
<1>5. ToSet(rows) = {Row(n) : n \in Shown(line)}
  <2>1. ToSet(rows) \subseteq {Row(n) : n \in Shown(line)}
    BY <1>3 DEF ToSet
  <2>2. {Row(n) : n \in Shown(line)} \subseteq ToSet(rows)
    BY <1>3 DEF ToSet
  <2> QED
    BY <2>1, <2>2
<1>6. {row.number : row \in ToSet(rows)} = Shown(line)
  BY <1>4, <1>5
<1>7. \A i \in 1..Len(rows)-1 : rows[i].number < rows[i+1].number
  <2> SUFFICES ASSUME NEW i \in 1..Len(rows)-1 PROVE rows[i].number < rows[i+1].number
    OBVIOUS
  <2>1. i \in 1..Len(rows) /\ i + 1 \in 1..Len(rows) /\ i \in Int
    BY <1>3
  <2>2. Min(Shown(line)) + i - 1 \in Int /\ Min(Shown(line)) \in Int
    <3>1. Min(Shown(line)) \in 1..line
      BY <1>1, IndexFacts, ShownIsAnInterval DEF Shown
    <3> QED
      BY <2>1, <3>1
  <2>3. rows[i].number = Min(Shown(line)) + i - 1
    BY <1>3, <1>4, <2>1
  <2>4. rows[i+1].number = Min(Shown(line)) + (i + 1) - 1
    BY <1>3, <1>4, <2>1
  <2> QED
    BY <2>1, <2>2, <2>3, <2>4
<1>8. \A row \in ToSet(rows) : WholeLine(row)
  BY <1>3, <1>5, RowIsWholeLine
<1> QED
  BY <1>1, <1>2, <1>3, <1>6, <1>7, <1>8 DEF RowsTrue

\* The arithmetic of the underline: it begins at the first byte of the range
\* or behind the line, and ends with the range or the line.
CaretsCover(from, to, begin, end, first, width) ==
  from + first..from + first + width - 1
    = IF (begin..end-1) \cap (from..to-1) # {}
      THEN (begin..end-1) \cap (from..to-1)
      ELSE {IF begin <= to THEN begin ELSE to}

LEMMA CaretsAreTheShownBytes ==
  ASSUME NEW from \in Int, NEW to \in Int, NEW begin \in Int, NEW end \in Int,
         from <= begin, from <= to, begin <= end,
         NEW first, first = IF begin <= to THEN begin - from ELSE to - from,
         NEW most, most = IF end <= to THEN end - begin ELSE to - begin,
         NEW width, width = IF 1 <= most THEN most ELSE 1
  PROVE  CaretsCover(from, to, begin, end, first, width)
<1> USE DEF CaretsCover
<1> DEFINE shown == (begin..end-1) \cap (from..to-1)
<1>1. first \in Int /\ most \in Int /\ width \in Int
  OBVIOUS
<1>2. CASE begin < to /\ begin < end
  <2>1. begin \in shown
    BY <1>2
  <2>2. from + first = begin /\ width = most
    BY <1>2
  <2>3. begin..begin+width-1 = shown
    BY <1>1, <1>2, <2>2
  <2> HIDE DEF shown
  <2>4. shown = from + first..from + first + width - 1
    BY <2>2, <2>3
  <2> QED
    BY <2>1, <2>4 DEF shown
<1>3. CASE begin < to /\ end = begin
  <2>1. shown = {}
    BY <1>3
  <2>2. from + first = begin /\ width = 1
    BY <1>3
  <2>3. from + first..from + first + width - 1 = {begin}
    BY <2>2
  <2> HIDE DEF shown
  <2>4. begin <= to
    BY <1>3
  <2> QED
    BY <2>1, <2>3, <2>4 DEF shown
<1>4. CASE to <= begin
  <2>1. shown = {}
    BY <1>4
  <2>2. from + first = to /\ width = 1
    BY <1>4
  <2>3. from + first..from + first + width - 1 = {to} /\ (begin <= to => begin = to)
    BY <1>4, <2>2
  <2> HIDE DEF shown
  <2> QED
    BY <2>1, <2>3 DEF shown
<1> QED
  BY <1>2, <1>3, <1>4

LEMMA CaretsOfExcerpt ==
  ASSUME FullIndex, NEW range \in RangesOf(source), Located(range)
  PROVE  /\ CaretsTrue([range |-> range, excerpt |-> Excerpt(range)])
         /\ Len(Excerpt(range).prefix) \in Nat
<1> DEFINE line == LineFor(range.begin)
           rows == RowsOf(line)
           from == lineStarts[line]
           to == LineEnd(line)
           begin == range.begin
           end == range.end
           count == Min({begin - from, to - from})
           width == UnderlineWidth(range, to)
           most == IF end <= to THEN end - begin ELSE to - begin
           prefix == Excerpt(range).prefix
<1>1. /\ begin \in 0..Len(source) /\ end \in begin..Len(source) /\ line \in 1..LineTotal
      /\ from \in 0..begin /\ to \in from..Len(source)
  BY ExcerptParts, IndexFacts, LineEndStrips DEF OnLine
<1>2. /\ Excerpt(range).line = line /\ Excerpt(range).rows = rows
      /\ Excerpt(range).width = width
  BY ExcerptParts
<1>3. prefix = [i \in 1..count |-> Shadow(At(from+i-1))]
  BY DEF Excerpt, Shadow
<1>4. (CHOOSE row \in ToSet(rows) : row.number = line) = Row(line)
  <2>1. /\ rows = RowsOf(line) /\ rows \in Seq([number : Nat, from : Nat, to : Nat])
        /\ line \in Shown(line)
        /\ \A i \in 1..Len(rows) : rows[i] = Row(Min(Shown(line)) + i - 1)
        /\ \A n \in Shown(line) : \E i \in 1..Len(rows) : rows[i] = Row(n)
    BY <1>1, RowsFacts
  <2>2. DOMAIN rows = 1..Len(rows)
    BY <2>1
  <2> HIDE DEF rows, line
  <2>3. Row(line) \in ToSet(rows)
    BY <2>1, <2>2 DEF ToSet
  <2>4. \A row \in ToSet(rows) : row.number = line => row = Row(line)
    <3>1. \A n : Row(n).number = n
      BY DEF Row
    <3>2. \A row \in ToSet(rows) : \E n : row = Row(n)
      BY <2>1, <2>2 DEF ToSet
    <3> QED
      BY <3>1, <3>2
  <2>5. Row(line).number = line
    BY DEF Row
  <2> QED
    BY <2>3, <2>4, <2>5
<1>5. Row(line).from = from /\ Row(line).to = to
  BY DEF Row
<1>6. width = IF 1 <= most THEN most ELSE 1
  <2> HIDE DEF to, line
  <2>1. Min({end, to}) = IF end <= to THEN end ELSE to
    BY <1>1, MinOfTwo
  <2>2. Min({end, to}) - begin \in Int
    BY <1>1, <2>1
  <2>3. Max({1, Min({end, to}) - begin})
          = IF 1 <= Min({end, to}) - begin THEN Min({end, to}) - begin ELSE 1
    BY <2>2, MaxOfTwo
  <2> QED
    BY <2>1, <2>3 DEF UnderlineWidth
<1>7. count = IF begin <= to THEN begin - from ELSE to - from
  <2> HIDE DEF to, line, begin, from
  <2> QED
    BY <1>1, MinOfTwo
<1>8. Min({begin, to}) = IF begin <= to THEN begin ELSE to
  <2> HIDE DEF to, line, begin
  <2> QED
    BY <1>1, MinOfTwo
<1> HIDE DEF line, rows, from, to, begin, end, count, width, prefix
<1>14. most = IF end <= to THEN end - begin ELSE to - begin
  OBVIOUS
<1> HIDE DEF most
<1>9. count \in Nat /\ Len(prefix) = count
  <2>1. count \in Nat
    BY <1>1, <1>7
  <2>2. Len(prefix) = count
    BY <1>3, <2>1
  <2> QED
    BY <2>1, <2>2
<1>10. from + Len(prefix)..from + Len(prefix) + width - 1
         = IF (begin..end-1) \cap (from..to-1) # {}
           THEN (begin..end-1) \cap (from..to-1) ELSE {Min({begin, to})}
  <2>1. from \in Int /\ to \in Int /\ begin \in Int /\ end \in Int
        /\ from <= begin /\ from <= to /\ begin <= end
    BY <1>1
  <2>2. CaretsCover(from, to, begin, end, count, width)
    BY <1>6, <1>7, <1>14, <2>1, CaretsAreTheShownBytes
  <2> QED
    BY <1>8, <1>9, <2>2 DEF CaretsCover
<1>11. \A i \in 1..Len(prefix) : prefix[i] = Shadow(At(from+i-1))
  BY <1>3, <1>9
<1> DEFINE e == [range |-> range, excerpt |-> Excerpt(range)]
<1>12. e.range.begin = begin /\ e.range.end = end /\ e.excerpt.rows = rows
       /\ e.excerpt.line = line /\ e.excerpt.width = width /\ e.excerpt.prefix = prefix
  BY <1>2 DEF begin, end, prefix
<1> HIDE DEF e
<1>13. CaretsTrue(e)
  <2> DEFINE row == CHOOSE row \in ToSet(e.excerpt.rows) : row.number = e.excerpt.line
  <2>1. row = Row(line)
    BY <1>4, <1>12
  <2>2. row.from = from /\ row.to = to
    BY <1>5, <2>1
  <2> HIDE DEF row
  <2>3. row.from + Len(e.excerpt.prefix)
          ..row.from + Len(e.excerpt.prefix) + e.excerpt.width - 1
          = IF (e.range.begin..e.range.end-1) \cap (row.from..row.to-1) # {}
            THEN (e.range.begin..e.range.end-1) \cap (row.from..row.to-1)
            ELSE {Min({e.range.begin, row.to})}
    BY <1>10, <1>12, <2>2
  <2>4. \A i \in 1..Len(e.excerpt.prefix) :
          e.excerpt.prefix[i] = Shadow(At(row.from+i-1))
    BY <1>11, <1>12, <2>2
  <2> QED
    BY <2>3, <2>4 DEF CaretsTrue, row
<1> QED
  BY <1>9, <1>13 DEF e, prefix

-----------------------------------------------------------------------------
(* Everything printed is true of the source and of its own diagnostic.     *)

PrintedTrue(diagnostic, excerpt) ==
  LET e == [range |-> diagnostic, excerpt |-> excerpt]
  IN  PositionTrue(e) /\ RowsTrue(e) /\ CaretsTrue(e)

Printout(diagnostic, print) ==
  /\ print.located <=> diagnostic # NoRange
  /\ print.located => PrintedTrue(diagnostic, print)

PrintInv ==
  /\ diagnostics \in Seq(RangesOf(source))
  /\ phase \in {"arguments", "read"} => diagnostics = <<>>
  /\ \E S : printed \in Seq(S)
  /\ Len(printed) <= Len(diagnostics)
  /\ \A i \in 1..Len(printed) :
       \A diagnostic \in {diagnostics[i]}, print \in {printed[i]} : Printout(diagnostic, print)

\* What is true of a print stays true while the source is the same.
LEMMA PrintsStayTrue ==
  ASSUME source' = source
  PROVE  \A diagnostic, print : Printout(diagnostic, print)' <=> Printout(diagnostic, print)
<1> SUFFICES ASSUME NEW diagnostic, NEW print
             PROVE  Printout(diagnostic, print)' <=> Printout(diagnostic, print)
  OBVIOUS
<1>1. \A o : At(o)' = At(o)
  BY DEF At
<1>2. \A a, b : Newlines(a, b)' = Newlines(a, b)
  BY <1>1 DEF Newlines
<1>3. \A o : Hidden(o)' <=> Hidden(o)
  BY <1>1 DEF Hidden
<1>4. \A row : WholeLine(row)' <=> WholeLine(row)
  BY <1>1, <1>2, <1>3 DEF WholeLine
<1> DEFINE e == [range |-> diagnostic, excerpt |-> print]
<1>5. PositionTrue(e)' <=> PositionTrue(e)
  BY <1>2 DEF PositionTrue
<1>6. RowsTrue(e)' <=> RowsTrue(e)
  BY <1>2, <1>4 DEF RowsTrue
<1>7. CaretsTrue(e)' <=> CaretsTrue(e)
  BY <1>1 DEF CaretsTrue
<1> QED
  BY <1>5, <1>6, <1>7 DEF Printout, PrintedTrue

\* A diagnostic is located when the source has its range.
LEMMA LocatedRanges ==
  ASSUME source \in Seq(STRING), NEW range \in RangesOf(source)
  PROVE  Located(range) <=> range # NoRange
<1>1. Len(source) \in Nat
  OBVIOUS
<1> QED
  BY <1>1 DEF RangesOf, Located, ValidRange, NoRange, Invalid

LEMMA ExcerptIsTrue ==
  ASSUME FullIndex, NEW range \in RangesOf(source), Located(range)
  PROVE  Printout(range, Excerpt(range))
<1>1. PrintedTrue(range, Excerpt(range))
  BY PositionOfExcerpt, RowsOfExcerpt, CaretsOfExcerpt DEF PrintedTrue
<1>2. range # NoRange
  BY LocatedRanges DEF FullIndex
<1>3. Excerpt(range).located
  BY ExcerptParts
<1> QED
  BY <1>1, <1>2, <1>3 DEF Printout

\* One more print, true of the diagnostic it is printed for.
LEMMA AppendPrint ==
  ASSUME PrintInv, Len(printed) < Len(diagnostics), NEW print,
         Printout(Pending, print), printed' = Append(printed, print),
         UNCHANGED <<source, diagnostics, phase>>
  PROVE  PrintInv'
<1>1. PICK S : printed \in Seq(S)
  BY DEF PrintInv
<1>2. /\ Len(printed) \in Nat /\ Len(diagnostics) \in Nat
      /\ Len(printed') = Len(printed) + 1 /\ printed'[Len(printed)+1] = print
      /\ \A i \in 1..Len(printed) : printed'[i] = printed[i]
  <2>1. printed \in Seq(S \cup {print}) /\ print \in S \cup {print}
    BY <1>1
  <2> QED
    BY <1>1, <2>1 DEF PrintInv
<1>3. printed' \in Seq(S \cup {print})
  <2>1. printed \in Seq(S \cup {print}) /\ print \in S \cup {print}
    BY <1>1
  <2> QED
    BY <2>1
<1>4. \A i \in 1..Len(printed') :
        \A d \in {diagnostics'[i]}, p \in {printed'[i]} : Printout(d, p)'
  <2> SUFFICES ASSUME NEW i \in 1..Len(printed'),
                      NEW d, d = diagnostics[i], NEW p, p = printed'[i]
               PROVE  Printout(d, p)'
    OBVIOUS
  <2>1. Printout(d, p)
    <3>1. CASE i \in 1..Len(printed)
      BY <1>2, <3>1 DEF PrintInv
    <3>2. CASE i = Len(printed) + 1
      BY <1>2, <3>2 DEF Pending
    <3> QED
      BY <1>2, <3>1, <3>2
  <2> QED
    BY <2>1, PrintsStayTrue
<1>5. Len(printed') <= Len(diagnostics')
  BY <1>2
<1>6. \E T : printed' \in Seq(T)
  BY <1>3
<1>7. RangesOf(source)' = RangesOf(source)
  BY DEF RangesOf
<1> QED
  BY <1>4, <1>5, <1>6, <1>7 DEF PrintInv

LEMMA InitPrint == Init => PrintInv
<1> SUFFICES ASSUME Init PROVE PrintInv
  OBVIOUS
<1>1. printed = <<>> /\ diagnostics = <<>>
  BY DEF Init, RendererInit
<1>2. printed \in Seq({}) /\ diagnostics \in Seq(RangesOf(source)) /\ Len(printed) = 0
  BY <1>1
<1> QED
  BY <1>1, <1>2 DEF PrintInv

LEMMA RenderingPrints ==
  ASSUME PrintInv, LInv, RendererTypeOK, PrintDiagnostic
  PROVE  PrintInv'
<1>1. UNCHANGED <<source, diagnostics, phase>>
  BY DEF PrintDiagnostic, RenderStep, IndexByte, RenderExcerpt, RenderHeader
<1>2. Len(printed) < Len(diagnostics) => Pending \in RangesOf(source)
  <2>1. Len(printed) \in Nat /\ diagnostics \in Seq(RangesOf(source))
    BY DEF PrintInv
  <2> QED
    BY <2>1 DEF Pending
<1>3. CASE IndexByte
  <2>1. UNCHANGED printed
    BY <1>3 DEF IndexByte
  <2> QED
    BY <1>1, <2>1, PrintsStayTrue DEF PrintInv, RangesOf
<1>4. CASE RenderExcerpt
  <2>1. /\ Len(printed) < Len(diagnostics) /\ Located(Pending) /\ scanned = Len(source)
        /\ printed' = Append(printed, Excerpt(Pending))
    BY <1>4 DEF RenderExcerpt
  <2>2. FullIndex
    BY <2>1 DEF FullIndex, RendererTypeOK
  <2>3. Printout(Pending, Excerpt(Pending))
    BY <1>2, <2>1, <2>2, ExcerptIsTrue
  <2> QED
    BY <1>1, <2>1, <2>3, AppendPrint
<1>5. CASE RenderHeader
  <2>1. /\ Len(printed) < Len(diagnostics) /\ ~Located(Pending)
        /\ printed' = Append(printed, HeaderOnly)
    BY <1>5 DEF RenderHeader
  <2>2. Pending = NoRange
    BY <1>2, <2>1, LocatedRanges DEF RendererTypeOK
  <2>3. Printout(Pending, HeaderOnly)
    BY <2>2 DEF Printout, HeaderOnly
  <2> QED
    BY <1>1, <2>1, <2>3, AppendPrint
<1> QED
  BY <1>3, <1>4, <1>5 DEF PrintDiagnostic, RenderStep

LEMMA NextPrint ==
  PrintInv /\ LInv /\ RendererTypeOK /\ RendererIdle /\ [Next]_vars => PrintInv'
<1> SUFFICES ASSUME PrintInv, LInv, RendererTypeOK, RendererIdle, [Next]_vars
             PROVE  PrintInv'
  OBVIOUS
<1>1. CASE PrintDiagnostic
  BY <1>1, RenderingPrints
<1>2. CASE ReadSource
  <2>1. printed' = <<>> /\ diagnostics' = <<>>
    BY <1>2 DEF ReadSource, RendererIdle, PrintInv
  <2>2. printed' \in Seq({}) /\ diagnostics' \in Seq(RangesOf(source)') /\ Len(printed') = 0
    BY <2>1
  <2> QED
    BY <2>1, <2>2 DEF PrintInv
<1>3. CASE EmitDiagnostic
  <2>1. PICK range \in RangesOf(source) : diagnostics' = Append(diagnostics, range)
    BY <1>3 DEF EmitDiagnostic
  <2>2. /\ UNCHANGED <<source, printed, phase>> /\ printed = <<>> /\ phase = "process"
    BY <1>3 DEF EmitDiagnostic, RendererIdle
  <2>3. diagnostics' \in Seq(RangesOf(source))
    BY <2>1 DEF PrintInv
  <2>4. Len(printed') = 0 /\ Len(diagnostics') \in Nat /\ printed' \in Seq({})
    BY <2>2, <2>3
  <2>5. RangesOf(source)' = RangesOf(source)
    BY <2>2 DEF RangesOf
  <2> QED
    BY <2>2, <2>3, <2>4, <2>5 DEF PrintInv
<1>4. CASE UNCHANGED <<source, diagnostics, printed>>
           /\ (phase' \in {"arguments", "read"} => phase \in {"arguments", "read"})
  BY <1>4, PrintsStayTrue DEF PrintInv, RangesOf
<1>5. CASE ParseFlag \/ ParseOutput \/ ParseInput
  BY <1>4, <1>5 DEF ParseFlag, ParseOutput, ParseInput, Parsed, rendererVars
<1>6. CASE RejectArgument \/ RejectCommand \/ ShowHelpOrVersion
  BY <1>4, <1>6 DEF RejectArgument, RejectCommand, ShowHelpOrVersion, Fail, Exit, rendererVars
<1>7. CASE AcceptCommand \/ FailToOpenSource
  BY <1>4, <1>7 DEF AcceptCommand, AtEndOfArguments, FailToOpenSource, Fail, Exit, rendererVars
<1>8. CASE ReturnResult \/ ExitRefused \/ ExitWithoutOutput \/ StartWriting
  BY <1>4, <1>8 DEF ReturnResult, ExitRefused, ExitWithoutOutput, StartWriting, Exit,
                    rendererVars
<1>9. CASE FailToOpenOutput \/ WriteFile \/ WriteStdout
  BY <1>4, <1>9 DEF FailToOpenOutput, WriteFile, WriteStdout, Fail, Exit, rendererVars
<1>10. CASE UNCHANGED vars
  BY <1>4, <1>10 DEF vars, rendererVars
<1> QED
  BY <1>1, <1>2, <1>3, <1>5, <1>6, <1>7, <1>8, <1>9, <1>10 DEF Next, Step, Exited

LEMMA PrintInvariant == Spec => []PrintInv
<1>1. Spec => []LInv
  BY InitIndex, NextIndex, PTL DEF Spec
<1> QED
  BY <1>1, TypeInvariant, InitPrint, NextPrint, PTL DEF Spec

(***************************************************************************)
(* DiagnosticRenderer.hpp:49, for every source and every range: the line   *)
(* and the column printed are those of the first byte of the range, also   *)
(* when it is a line terminator or the end of the source, and whether an   *)
(* excerpt is printed depends on the range alone.                          *)
(***************************************************************************)
THEOREM PositionsAreTrue == Spec => []PositionsAreOfTheRange
<1>1. PrintInv => PositionsAreOfTheRange
  BY DEF PrintInv, Printout, PrintedTrue, PositionTrue, PositionsAreOfTheRange, Excerpts
<1> QED
  BY <1>1, PrintInvariant, PTL

(***************************************************************************)
(* DiagnosticRenderer.hpp:51: the rows of every excerpt are whole lines of *)
(* the source without LF or CR LF, each under its own number: the line of  *)
(* the range, the one before and the one behind if the source has them.    *)
(***************************************************************************)
THEOREM RowsAreTrue == Spec => []RowsAreLines
<1>1. PrintInv => RowsAreLines
  BY DEF PrintInv, Printout, PrintedTrue, RowsTrue, WholeLine, RowsAreLines, Excerpts
<1> QED
  BY <1>1, PrintInvariant, PTL

(***************************************************************************)
(* "An underline derived from the range", for every range and every line:  *)
(* the carets stand below the bytes of the range that the line shows and   *)
(* no other, one caret stands below the first byte or behind the line when *)
(* it shows none, and the prefix repeats the tabs of the line.             *)
(***************************************************************************)
THEOREM CaretsAreTrue == Spec => []CaretsMarkTheRange
<1>1. PrintInv => CaretsMarkTheRange
  <2> SUFFICES ASSUME PrintInv PROVE CaretsMarkTheRange
    OBVIOUS
  <2>1. \A e \in Excerpts : CaretsTrue(e)
    BY DEF PrintInv, Printout, PrintedTrue, Excerpts
  <2> QED
    BY <2>1 DEF CaretsTrue, Shadow, CaretsMarkTheRange
<1> QED
  BY <1>1, PrintInvariant, PTL

=============================================================================
