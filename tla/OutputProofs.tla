---------------------------- MODULE OutputProofs ----------------------------
(***************************************************************************)
(* What a call of Frontend::process gives, for every stream of tokens and  *)
(* every request: what was reported is never taken back, and the call      *)
(* keeps its contract.  Then where the nodes are cut out of the source,    *)
(* what each write copies of it, and that no token is lost or copied twice.*)
(***************************************************************************)
EXTENDS FrontendProofs

-----------------------------------------------------------------------------
(* What was reported is never taken back.                                  *)

LEMMA ParserReports ==
  ASSUME IInv, TreeInv, ParserStep
  PROVE  Clean' => Clean
<1>1. /\ IsTokenStream(tokens) /\ position \in 1..Len(tokens) /\ IsList(syntaxErrors)
  BY DEF IInv, TreeInv, ParserTypeOK
<1>2. ASSUME NEW parsed, NEW kind, Checked(parsed, kind),
             syntaxErrors' = syntaxErrors \o parsed.errors
      PROVE  Clean' => Clean
  BY <1>1, <1>2, ErrorsGrow DEF Checked
<1>3. CASE ParseTopLevelConstruct
  <2>1. StartsConstruct(position) /\ syntaxErrors' = syntaxErrors \o Construct(position).errors
    BY <1>3 DEF ParseTopLevelConstruct
  <2> QED
    BY <1>1, <1>2, <2>1, ConstructChecked
<1>4. CASE ParseFunctionHeader
  <2> DEFINE at == TopLevelRegion(position).next
  <2>1. syntaxErrors' = syntaxErrors \o FailureSpecification(at).errors
    BY <1>4, Zenon DEF ParseFunctionHeader
  <2> QED
    BY <1>2, <2>1, FailureSpecificationChecked
<1>5. CASE ParseBodyReturn
  <2>1. Kind(position) # "EndOfFile" /\ syntaxErrors' = syntaxErrors \o ReturnStatement(position).errors
    BY <1>5 DEF ParseBodyReturn, PushBodyConstruct
  <2> QED
    BY <1>1, <1>2, <2>1, ReturnStatementChecked
<1>6. CASE ParseBodyTryInitialization
  <2> DEFINE declaration == TryInitializationBegin(position, function.regionBegin)
  <2>1. /\ InBody /\ Kind(position) # "EndOfFile" /\ declaration # NotFound
        /\ syntaxErrors' = syntaxErrors \o TryInitialization(declaration, position).errors
    BY <1>6 DEF ParseBodyTryInitialization, PushBodyConstruct
  <2>2. declaration = position - 3 /\ position >= function.regionBegin + 3
    BY <2>1 DEF TryInitializationBegin
  <2> HIDE DEF declaration
  <2>3. declaration \in 1..position
    BY <2>1, <2>2, BodyFacts
  <2> QED
    BY <1>1, <1>2, <2>1, <2>3, TryInitializationChecked
<1>7. CASE ParseBodyConstruct
  <2>1. StartsConstruct(position) /\ syntaxErrors' = syntaxErrors \o Construct(position).errors
    BY <1>7 DEF ParseBodyConstruct, PushBodyConstruct
  <2> QED
    BY <1>1, <1>2, <2>1, ConstructChecked
<1>8. CASE ParseTopLevelRegion \/ FinishUnit \/ ScanBodyToken \/ CloseBody \/ EndOfFileInBody
  <2>1. syntaxErrors' = syntaxErrors
    BY <1>8, Zenon DEF ParseTopLevelRegion, FinishUnit, ScanBodyToken, CloseBody, EndOfFileInBody
  <2> QED
    BY <2>1 DEF Clean
<1> QED
  BY <1>3, <1>4, <1>5, <1>6, <1>7, <1>8 DEF ParserStep

LEMMA AnalysisReports ==
  ASSUME AnalysisInv, stage = "analyze", Analysis!Next
  PROVE  semanticErrors' = <<>> => semanticErrors = <<>>
<1>1. /\ IsList(failureFunctions) /\ IsList(semanticErrors) /\ Resolved(resolutions)
  <2>1. /\ IsList(failureFunctions) /\ IsList(semanticErrors) /\ IsList(resolutions)
        /\ Analysis!TypeOK
    BY DEF AnalysisInv
  <2>2. DOMAIN resolutions = 1..Len(resolutions) /\ DOMAIN failureFunctions = 1..Len(failureFunctions)
    BY <2>1 DEF IsList
  <2> QED
    BY <2>1, <2>2 DEF Analysis!TypeOK, Resolved
<1>2. CASE Analysis!AnalyzeTopLevel
  <2>1. Analysis!Report(unit.children[child])
    BY <1>2 DEF Analysis!AnalyzeTopLevel
  <2> QED
    BY <1>1, <2>1, ReportChecks
<1>3. CASE Analysis!AnalyzeBodyChild
  <2>1. Analysis!Report(unit.children[child].children[bodyChild])
    BY <1>3 DEF Analysis!AnalyzeBodyChild
  <2> QED
    BY <1>1, <2>1, ReportChecks
<1>4. CASE Analysis!EnterFunction
  <2> DEFINE specification == Analysis!ContractOf(unit.children[child])
             errors == IF Len(specification.children) = 1
                       THEN Analysis!CheckSpecification(specification).errors ELSE <<>>
  <2>1. semanticErrors' = semanticErrors \o errors
    BY <1>4 DEF Analysis!EnterFunction, Analysis!ContractOf
  <2>2. IsList(errors)
    BY EmptyList, SingletonList DEF Analysis!CheckSpecification, Analysis!Rejected, Analysis!Accepted
  <2> HIDE DEF errors
  <2> QED
    BY <1>1, <2>1, <2>2, NothingReported, Zenon
<1>5. CASE Analysis!CollectDeclaration \/ Analysis!StartAnalyzing \/ Analysis!LeaveFunction
           \/ Analysis!FinishAnalysis
  BY <1>5 DEF Analysis!CollectDeclaration, Analysis!StartAnalyzing, Analysis!LeaveFunction,
     Analysis!FinishAnalysis
<1> QED
  BY <1>2, <1>3, <1>4, <1>5 DEF Analysis!Next

LEMMA LoweringReports ==
  ASSUME LoweringStage!Next, IsList(loweringErrors)
  PROVE  IsList(loweringErrors') /\ (loweringErrors' = <<>> => loweringErrors = <<>>)
<1>1. \/ loweringErrors' = loweringErrors
      \/ loweringErrors' = Append(loweringErrors, "VIXC3020")
  BY DEF LoweringStage!Next, LoweringStage!LowerNode, LoweringStage!RefuseVoidFunction,
     LoweringStage!BeginFunction, LoweringStage!NumberInitialization,
     LoweringStage!MarkLowered, LoweringStage!FinishLowering
<1>2. Append(loweringErrors, "VIXC3020") = loweringErrors \o <<"VIXC3020">>
  BY DEF IsList
<1>3. IsList(<<"VIXC3020">>)
  BY SingletonList
<1>4. /\ IsList(loweringErrors \o <<"VIXC3020">>)
      /\ loweringErrors \o <<"VIXC3020">> = <<>> => loweringErrors = <<>>
  BY <1>3, ConcatOfLists, NothingReported
<1> QED
  BY <1>1, <1>2, <1>4

LEMMA EmissionReports ==
  ASSUME SourcesInv, stage = "emit", IsProgram(program), Emission!Next, IsList(backendErrors)
  PROVE  IsList(backendErrors') /\ (backendErrors' = <<>> => backendErrors = <<>>)
<1> DEFINE Told(emitted) == emitted.errors = <<>> \/ \E code : emitted.errors = <<code>>
<1>1. EmitAt /\ ProgramSourced(program) /\ Len(program) \in Nat
  BY DEF SourcesInv, IsProgram, IsList
<1>2. ASSUME NEW emitted, Emission!WriteAll(emitted), Told(emitted)
      PROVE  IsList(backendErrors') /\ (backendErrors' = <<>> => backendErrors = <<>>)
  <2>1. backendErrors' = backendErrors \o emitted.errors
    BY <1>2, Zenon DEF Emission!WriteAll
  <2>2. IsList(emitted.errors)
    BY <1>2, EmptyList, SingletonList
  <2> QED
    BY <2>1, <2>2, ConcatOfLists, NothingReported
<1>3. (\A pieces : Told(Emission!Emitted(pieces))) /\ (\A code : Told(Emission!Refused(code)))
  BY DEF Emission!Emitted, Emission!Refused
<1> HIDE DEF Told
<1>4. ASSUME NEW node, Sourced(node) PROVE Told(Emission!Emit(node))
  BY <1>3, <1>4, Zenon DEF Sourced, Emission!Emit, Emission!EmitOutcome, Emission!EmitTryInitialization,
     Emission!EmitPropagation
<1>5. \A f : Told(Emission!EmitHeader(f))
  BY <1>3, Zenon DEF Emission!EmitHeader
<1>6. CASE Emission!EmitSupport
  <2>1. PICK support : Emission!WriteAll(Emission!Emitted(support))
    BY <1>6, Zenon DEF Emission!EmitSupport
  <2> QED
    BY <1>2, <1>3, <2>1
<1>7. CASE Emission!EmitTopLevel
  <2>1. /\ child <= Len(program) /\ program[child].kind # "FailureAwareFunction"
        /\ Emission!WriteAll(Emission!Emit(program[child]))
    BY <1>7 DEF Emission!EmitTopLevel
  <2>2. child \in 1..Len(program)
    BY <1>1, <2>1 DEF EmitAt
  <2>3. Sourced(program[child])
    BY <1>1, <2>1, <2>2 DEF ProgramSourced
  <2> QED
    BY <1>2, <1>4, <2>1, <2>3
<1>8. CASE Emission!EnterFunction
  <2>1. Emission!WriteAll(Emission!EmitHeader(program[child]))
    BY <1>8 DEF Emission!EnterFunction
  <2> QED
    BY <1>2, <1>5, <2>1
<1>9. CASE Emission!EmitBodyChild
  <2> DEFINE body == program[child].children
  <2>1. /\ emission = "inFunction" /\ bodyChild <= Len(body)
        /\ Emission!WriteAll(Emission!Emit(body[bodyChild]))
    BY <1>9 DEF Emission!EmitBodyChild
  <2>2. /\ child \in 1..Len(program) /\ program[child].kind = "FailureAwareFunction"
        /\ bodyChild \in Nat \ {0}
    BY <1>1, <2>1 DEF EmitAt
  <2>3. FunctionSourced(program[child]) /\ IsIrFunction(program[child])
    BY <1>1, <2>2 DEF ProgramSourced, IsProgram
  <2>4. Len(body) \in Nat
    BY <2>3 DEF IsIrFunction, IsList
  <2>5. bodyChild \in 1..Len(body)
    <3> HIDE DEF body
    <3> QED
      BY <2>1, <2>2, <2>4
  <2>6. Sourced(body[bodyChild])
    BY <2>3, <2>5 DEF FunctionSourced
  <2> QED
    BY <1>2, <1>4, <2>1, <2>6
<1>10. CASE Emission!LeaveFunction \/ Emission!FinishEmission
  BY <1>10 DEF Emission!LeaveFunction, Emission!FinishEmission
<1> QED
  BY <1>6, <1>7, <1>8, <1>9, <1>10 DEF Emission!Next

AnswerInv ==
  /\ request \in Requests
  /\ stage # "done" => result = NoResult
  /\ IsList(loweringErrors) /\ IsList(backendErrors)

\* A step of the call reports or leaves alone, whatever stage it is of.
LEMMA ErrorsStay ==
  ASSUME CallInv, SourcesInv, AnswerInv, Process
  PROVE  /\ HasErrors => HasErrors'
         /\ IsList(loweringErrors') /\ IsList(backendErrors')
<1> DEFINE Others(s) ==
             /\ s # "lex" => lexicalError' = lexicalError
             /\ s # "parse" => syntaxErrors' = syntaxErrors
             /\ s # "analyze" => semanticErrors' = semanticErrors
             /\ s # "build" => irErrors' = irErrors
             /\ s # "lower" => loweringErrors' = loweringErrors
             /\ s # "emit" => backendErrors' = backendErrors
<1>1. IsList(loweringErrors) /\ IsList(backendErrors) /\ SInv
  BY DEF AnswerInv, CallInv, RInv
<1>2. ASSUME NEW s, Others(s),
             s = "lex" => ~lexicalError,
             s = "parse" => (syntaxErrors' = <<>> => syntaxErrors = <<>>),
             s = "analyze" => (semanticErrors' = <<>> => semanticErrors = <<>>),
             s = "build" => irErrors = <<>>,
             s = "lower" => IsList(loweringErrors')
                            /\ (loweringErrors' = <<>> => loweringErrors = <<>>),
             s = "emit" => IsList(backendErrors')
                           /\ (backendErrors' = <<>> => backendErrors = <<>>)
      PROVE  /\ HasErrors => HasErrors'
             /\ IsList(loweringErrors') /\ IsList(backendErrors')
  BY <1>1, <1>2 DEF HasErrors
<1>3. workVars' = workVars /\ lexicalError' = lexicalError => Others("none")
  BY DEF workVars, parserVars, analysisVars, irVars, loweringVars, emissionVars
<1>4. CASE Lex
  <2>1. stage = "lex" /\ Others("lex")
    BY <1>4 DEF Lex, workVars, parserVars, analysisVars, irVars, loweringVars, emissionVars
  <2>2. ~lexicalError
    BY <1>1, <2>1 DEF SInv
  <2> HIDE DEF Others
  <2> QED
    BY <1>2, <2>1, <2>2
<1>5. CASE FinishLexing \/ FinishParsing \/ FinishAnalyzing \/ FinishBuilding \/ FinishLowering
           \/ FinishEmitting
  <2>1. workVars' = workVars /\ lexicalError' = lexicalError
    BY <1>5 DEF FinishLexing, FinishParsing, FinishAnalyzing, FinishBuilding, FinishLowering,
       FinishEmitting, Proceed
  <2> HIDE DEF Others
  <2> QED
    BY <1>2, <1>3, <2>1
<1>6. CASE Parse
  <2>1. Others("parse")
    BY <1>6 DEF Parse, controlVars, analysisVars, irVars, loweringVars, emissionVars
  <2>2. syntaxErrors' = <<>> => syntaxErrors = <<>>
    BY <1>6, ParserReports DEF Parse, CallInv, Clean
  <2> HIDE DEF Others
  <2> QED
    BY <1>2, <2>1, <2>2
<1>7. CASE Analyze
  <2>1. Others("analyze")
    BY <1>7 DEF Analyze, controlVars, parserVars, irVars, loweringVars, emissionVars
  <2>2. semanticErrors' = <<>> => semanticErrors = <<>>
    BY <1>7, AnalysisReports DEF Analyze, CallInv
  <2> HIDE DEF Others
  <2> QED
    BY <1>2, <2>1, <2>2
<1>8. CASE BuildIr
  <2>1. Others("build")
    BY <1>8 DEF BuildIr, controlVars, parserVars, loweringVars, emissionVars
  <2>2. irErrors = <<>>
    BY <1>1, <1>8 DEF BuildIr, SInv, Construction!Next, Construction!BuildTopLevel,
       Construction!BeginFunction, Construction!BuildBodyChild,
       Construction!EndFunction, Construction!FinishConstruction
  <2> HIDE DEF Others
  <2> QED
    BY <1>2, <2>1, <2>2
<1>9. CASE Lower
  <2>1. Others("lower")
    BY <1>9 DEF Lower, controlVars, parserVars, analysisVars, irVars, emissionVars
  <2>2. IsList(loweringErrors') /\ (loweringErrors' = <<>> => loweringErrors = <<>>)
    BY <1>1, <1>9, LoweringReports DEF Lower
  <2> HIDE DEF Others
  <2> QED
    BY <1>2, <2>1, <2>2
<1>10. CASE Emit
  <2>1. Others("emit")
    BY <1>10 DEF Emit, controlVars, parserVars, analysisVars, irVars, loweringVars
  <2>2. IsList(backendErrors') /\ (backendErrors' = <<>> => backendErrors = <<>>)
    BY <1>1, <1>10, EmissionReports DEF Emit, CallInv, ProgramInv
  <2> HIDE DEF Others
  <2> QED
    BY <1>2, <2>1, <2>2
<1> QED
  BY <1>4, <1>5, <1>6, <1>7, <1>8, <1>9, <1>10 DEF Process

\* The result is made by the step that returns, of what was reported before.
LEMMA ResultIsMade ==
  ASSUME CallInv, SourcesInv, AnswerInv, Process
  PROVE  /\ stage # "done" /\ request' = request
         /\ stage' # "done" => result' = result
         /\ stage' = "done" =>
              /\ HasErrors' = HasErrors
              /\ result'.success \in BOOLEAN
              /\ result'.mappings # <<>> => result'.output # <<>> /\ request.retainSourceMap
<1>0. ASSUME NEW success \in BOOLEAN, NEW output, NEW mappings,
             MakeResult(success, output, mappings)
      PROVE  /\ stage' = "done" /\ result'.success = success
             /\ result'.output = output /\ result'.mappings = mappings
  BY <1>0 DEF MakeResult
<1>1. EmitterGood(emitter)
  BY DEF SourcesInv
<1>2. UNCHANGED <<lexicalError, workVars>> => HasErrors' = HasErrors
  BY DEF workVars, parserVars, analysisVars, irVars, loweringVars, emissionVars, HasErrors
<1>3. CASE Lex \/ Parse \/ Analyze \/ BuildIr \/ Lower \/ Emit
  <2>1. stage # "done" /\ stage' # "done" /\ UNCHANGED <<request, result>>
    BY <1>3 DEF Lex, Parse, Analyze, BuildIr, Lower, Emit, controlVars
  <2> QED
    BY <2>1
<1>4. ASSUME NEW failed, NEW answers, NEW next, Proceed(failed, answers, next), next # "done"
      PROVE  /\ UNCHANGED <<request, lexicalError, workVars>>
             /\ stage' # "done" => result' = result
             /\ stage' = "done" => result'.success \in BOOLEAN /\ result'.mappings = <<>>
  <2>1. /\ UNCHANGED <<request, lexicalError, workVars>>
        /\ \/ MakeResult(FALSE, <<>>, <<>>) \/ MakeResult(TRUE, <<>>, <<>>)
           \/ stage' = next /\ UNCHANGED result
    BY <1>4 DEF Proceed, Refuse
  <2>2. CASE MakeResult(FALSE, <<>>, <<>>)
    BY <2>1, <2>2, <1>0
  <2>3. CASE MakeResult(TRUE, <<>>, <<>>)
    BY <2>1, <2>3, <1>0
  <2>4. CASE stage' = next /\ UNCHANGED result
    BY <1>4, <2>1, <2>4
  <2> QED
    BY <2>1, <2>2, <2>3, <2>4
<1>5. CASE FinishLexing \/ FinishParsing \/ FinishAnalyzing \/ FinishBuilding \/ FinishLowering
  <2>1. /\ stage # "done" /\ UNCHANGED <<request, lexicalError, workVars>>
        /\ stage' # "done" => result' = result
        /\ stage' = "done" => result'.success \in BOOLEAN /\ result'.mappings = <<>>
    BY <1>4, <1>5 DEF FinishLexing, FinishParsing, FinishAnalyzing, FinishBuilding, FinishLowering
  <2> QED
    BY <1>2, <2>1
<1>6. CASE FinishEmitting
  <2>1. stage = "emit" /\ stage' = "done" /\ UNCHANGED <<request, lexicalError, workVars>>
    BY <1>6 DEF FinishEmitting, Refuse, MakeResult
  <2>2. /\ result'.success \in BOOLEAN
        /\ \/ result'.mappings = <<>>
           \/ /\ result'.mappings = emitter.sourceMap /\ result'.output = emitter.output
              /\ request.retainSourceMap
    <3> DEFINE mappings == IF request.retainSourceMap THEN emitter.sourceMap ELSE <<>>
    <3>1. MakeResult(FALSE, <<>>, <<>>) \/ MakeResult(TRUE, emitter.output, mappings)
      BY <1>6 DEF FinishEmitting, Refuse
    <3>2. mappings = <<>> \/ (mappings = emitter.sourceMap /\ request.retainSourceMap)
      OBVIOUS
    <3> HIDE DEF mappings
    <3>3. CASE MakeResult(FALSE, <<>>, <<>>)
      BY <1>0, <3>3
    <3>4. CASE MakeResult(TRUE, emitter.output, mappings)
      BY <1>0, <3>2, <3>4
    <3> QED
      BY <3>1, <3>3, <3>4
  <2> QED
    BY <1>1, <1>2, <2>1, <2>2 DEF EmitterGood
<1> QED
  BY <1>3, <1>5, <1>6 DEF Process

LEMMA InitHasNoAnswer == Init => AnswerInv
BY EmptyList DEF Init, AnswerInv, LoweringStage!Init, Emission!Init

LEMMA AnswersAreKept == CallInv /\ SourcesInv /\ AnswerInv /\ [Next]_vars => AnswerInv'
<1> SUFFICES ASSUME CallInv, SourcesInv, AnswerInv, [Next]_vars PROVE AnswerInv'
  OBVIOUS
<1>1. CASE Process
  BY <1>1, ErrorsStay, ResultIsMade DEF AnswerInv
<1>2. CASE UNCHANGED vars
  BY <1>2 DEF vars, controlVars, workVars, loweringVars, emissionVars, AnswerInv
<1> QED
  BY <1>1, <1>2 DEF Next, Returned

\* What the specification of the contract sees of a call.
Told == [given |-> stage = "done", success |-> result.success,
         output |-> result.output # <<>>, mappings |-> result.mappings # <<>>]

LEMMA AnswerGiven ==
  ASSUME NEW given, NEW no
  PROVE  [[given |-> no, success |-> no, output |-> no, mappings |-> no] EXCEPT !.given = given]
           = [given |-> given, success |-> no, output |-> no, mappings |-> no]
OBVIOUS

LEMMA InitIsUnanswered == Init => Contract!Init
<1> SUFFICES ASSUME Init PROVE Contract!Init
  OBVIOUS
<1>1. request \in Requests /\ stage = "lex" /\ result = NoResult
  BY DEF Init
<1>2. ~HasErrors
  BY DEF Init, HasErrors, ParserInit, Analysis!Init, Construction!Init, LoweringStage!Init,
     Emission!Init
<1>3. Told = Contract!NoAnswer
  BY <1>1 DEF Told, NoResult, Contract!NoAnswer
<1> QED
  BY <1>1, <1>2, <1>3 DEF Told, Contract!Init

LEMMA StepKeepsContract ==
  CallInv /\ CallInv' /\ SourcesInv /\ AnswerInv /\ AnswerInv' /\ [Next]_vars
    => [Contract!Next]_(Contract!vars)
<1> SUFFICES ASSUME CallInv, CallInv', SourcesInv, AnswerInv, AnswerInv', [Next]_vars
             PROVE  [Contract!Next]_(Contract!vars)
  OBVIOUS
<1>1. CASE UNCHANGED vars
  <2>1. UNCHANGED <<request, stage, result, lexicalError, workVars>>
    BY <1>1 DEF vars, controlVars
  <2>2. UNCHANGED HasErrors
    BY <2>1 DEF workVars, parserVars, analysisVars, irVars, loweringVars, emissionVars, HasErrors
  <2>3. UNCHANGED Told
    BY <2>1 DEF Told
  <2> QED
    BY <2>1, <2>2, <2>3 DEF Told, Contract!vars
<1>2. CASE Process /\ stage' # "done"
  <2>1. /\ stage # "done" /\ request' = request /\ result = NoResult /\ result' = NoResult
        /\ HasErrors => HasErrors'
    BY <1>2, ErrorsStay, ResultIsMade DEF AnswerInv
  <2>2. Told = Contract!NoAnswer /\ Told' = Contract!NoAnswer
    BY <1>2, <2>1 DEF Told, NoResult, Contract!NoAnswer
  <2>3. CASE HasErrors' <=> HasErrors
    <3>1. UNCHANGED HasErrors
      BY <2>3 DEF HasErrors
    <3> QED
      BY <2>1, <2>2, <3>1 DEF Told, Contract!vars
  <2>4. CASE ~HasErrors /\ HasErrors'
    <3>1. ~Told.given
      BY <2>1 DEF Told
    <3>2. Contract!Report
      BY <2>1, <2>2, <2>4, <3>1 DEF Told, Contract!Report
    <3> QED
      BY <3>2 DEF Contract!Next
  <2> QED
    BY <2>1, <2>3, <2>4
<1>3. CASE Process /\ stage' = "done"
  <2>1. /\ stage # "done" /\ request' = request /\ HasErrors' = HasErrors
        /\ result'.success \in BOOLEAN
        /\ result'.mappings # <<>> => result'.output # <<>> /\ request.retainSourceMap
    BY <1>3, ResultIsMade
  <2>2. /\ result'.success <=> ~HasErrors
        /\ ~result'.success => result'.output = <<>> /\ result'.mappings = <<>>
        /\ result'.success /\ result'.output # <<>> => request.action = "Emit"
    <3>1. ResultAnswersTheRequest' /\ request'.action \in {"Analyze", "Lower", "Emit"}
      BY DEF CallInv, RInv, SInv
    <3> QED
      BY <1>3, <2>1, <3>1 DEF ResultAnswersTheRequest
  <2>3. ~Told.given
    BY <2>1 DEF Told
  <2>4. CASE HasErrors
    <3>1. Told' = Contract!Refusal
      <4>1. result'.success = FALSE /\ ~(result'.output # <<>>) /\ ~(result'.mappings # <<>>)
        BY <2>1, <2>2, <2>4
      <4>2. Told' = [given |-> TRUE, success |-> FALSE, output |-> FALSE, mappings |-> FALSE]
        BY <1>3, <4>1 DEF Told
      <4>3. Contract!Refusal = [given |-> TRUE, success |-> FALSE, output |-> FALSE,
                                mappings |-> FALSE]
        BY AnswerGiven DEF Contract!Refusal, Contract!NoAnswer
      <4> QED
        BY <4>2, <4>3
    <3>2. Contract!Refuse
      BY <2>1, <2>3, <2>4, <3>1 DEF Told, Contract!Refuse
    <3> QED
      BY <3>2 DEF Contract!Next
  <2>5. CASE ~HasErrors
    <3> DEFINE output == result'.output # <<>>
               mappings == result'.mappings # <<>>
    <3>1. Told' = [given |-> TRUE, success |-> TRUE, output |-> output, mappings |-> mappings]
      BY <1>3, <2>1, <2>2, <2>5 DEF Told
    <3>2. output \in BOOLEAN /\ mappings \in BOOLEAN
      OBVIOUS
    <3>3. (output => request.action = "Emit") /\ (mappings => output /\ request.retainSourceMap)
      BY <2>1, <2>2, <2>5
    <3> HIDE DEF output, mappings
    <3>4. Contract!Accept
      BY <2>1, <2>3, <2>5, <3>1, <3>2, <3>3 DEF Told, Contract!Accept
    <3> QED
      BY <3>4 DEF Contract!Next
  <2> QED
    BY <2>4, <2>5
<1> QED
  BY <1>1, <1>2, <1>3 DEF Next, Returned

(***************************************************************************)
(* For every stream of tokens and every request, a call of                 *)
(* Frontend::process is a behaviour of its contract: errors are only       *)
(* added, a call with one is refused without output, and one without is    *)
(* accepted, with text only if it was to be emitted and a source map only  *)
(* if one was asked for and there is text.                                 *)
(***************************************************************************)
THEOREM CallKeepsItsContract == Spec => KeepsContract
<1> DEFINE Inv == CallInv /\ RangesInv /\ SourcesInv /\ AnswerInv
<1>1. Init => Inv
  BY InitIsCall, InitHasRanges, InitIsSourced, InitHasNoAnswer
<1>2. Inv /\ [Next]_vars => Inv'
  BY StepKeepsCall, RangesAreKeptInCall, SourcesAreKept, AnswersAreKept DEF CallInv
<1>3. Inv /\ Inv' /\ [Next]_vars => [Contract!Next]_(Contract!vars)
  BY StepKeepsContract
<1> QED
  BY <1>1, <1>2, <1>3, InitIsUnanswered, PTL DEF Spec, KeepsContract, Contract!Spec

-----------------------------------------------------------------------------
(* Where the nodes of a program are cut out of the source.                 *)

\* A node of the program stands for a node of the tree: what the backend copies
\* of it are the ranges of that node.
StandsFor(ir, node) ==
  /\ ir.kind # "FailureAwareFunction"
  /\ ir.range = node.range
  /\ ir.kind \in {"Return", "Failure"} =>
       /\ node.kind \in {"ReturnStatement", "FailStatement"}
       /\ ir.operand.range = node.children[1].range
  /\ ir.kind = "TryInitialization" =>
       /\ node.kind = "TryInitialization"
       /\ ir.declaration = node.children[1].range
       /\ ir.propagation.operand.range = node.children[2].children[1].range

LEMMA BuiltStandsForIt ==
  ASSUME NEW node, NEW failureType, NEW ir,
         Construction!Build(node, failureType).ir = <<ir>>
  PROVE  StandsFor(ir, node)
<1> DEFINE Gives(built, n) == \A x : built.ir = <<x>> => StandsFor(x, n)
           Plain(kind) == kind \notin {"FailureAwareFunction", "Return", "Failure", "TryInitialization"}
           Yields(built, n) == \A x : built.ir = <<x>> => x.range = n.range /\ Plain(x.kind)
<1>1. ASSUME NEW code, NEW n
      PROVE  Gives(Construction!Failed(code), n) /\ Yields(Construction!Failed(code), n)
  BY OneIsNotNone DEF Construction!Failed
<1>2. ASSUME NEW x, NEW n
      PROVE  /\ StandsFor(x, n) => Gives(Construction!Built(x), n)
             /\ x.range = n.range /\ Plain(x.kind) => Yields(Construction!Built(x), n)
  <2>1. Construction!Built(x).ir = <<x>>
    BY DEF Construction!Built
  <2>2. \A y : <<x>> = <<y>> => y = x
    BY SingletonList
  <2> QED
    BY <2>1, <2>2
<1>3. ASSUME NEW built, NEW n, Yields(built, n) PROVE Gives(built, n)
  <2>1. \A x : x.range = n.range /\ Plain(x.kind) => StandsFor(x, n)
    BY DEF StandsFor
  <2>2. ASSUME NEW x, built.ir = <<x>> PROVE StandsFor(x, n)
    <3>1. x.range = n.range /\ Plain(x.kind)
      BY <1>3, <2>2
    <3> HIDE DEF Plain
    <3> QED
      BY <2>1, <3>1
  <2> QED
    BY <2>2
<1> HIDE DEF Gives, Yields
<1>4. ASSUME NEW n PROVE Yields(Construction!Built(Construction!Region(n)), n)
  <2> DEFINE x == Construction!Region(n)
  <2>1. x.range = n.range /\ Plain(x.kind)
    BY DEF Construction!Region
  <2> HIDE DEF x, Plain
  <2>2. Yields(Construction!Built(x), n)
    BY <1>2, <2>1
  <2> QED
    BY <2>2 DEF x
<1>5. ASSUME NEW n, NEW type PROVE Yields(Construction!BuildTry(n, type), n)
  <2> DEFINE callee == resolutions[Construction!ResolutionOf(n)].callee
             x == [kind |-> "FailurePropagation", range |-> n.range,
                   failureType |-> type, callee |-> callee,
                   operand |-> Construction!Region(n.children[1])]
  <2>1. \/ \E code : Construction!BuildTry(n, type) = Construction!Failed(code)
        \/ Construction!BuildTry(n, type) = Construction!Built(x)
    BY DEF Construction!BuildTry
  <2>2. x.range = n.range /\ Plain(x.kind)
    OBVIOUS
  <2> HIDE DEF x, Plain
  <2> QED
    BY <1>1, <1>2, <2>1, <2>2
<1>6. ASSUME NEW n PROVE Yields(Construction!BuildSpecification(n), n)
  <2> DEFINE x == [kind |-> "Outcome", range |-> n.range, failureType |-> n.children[1].range]
  <2>1. \/ \E code : Construction!BuildSpecification(n) = Construction!Failed(code)
        \/ Construction!BuildSpecification(n) = Construction!Built(x)
    BY DEF Construction!BuildSpecification
  <2>2. x.range = n.range /\ Plain(x.kind)
    OBVIOUS
  <2> HIDE DEF x, Plain
  <2> QED
    BY <1>1, <1>2, <2>1, <2>2
<1>7. ASSUME NEW n, n.kind = "FailStatement", NEW type PROVE Gives(Construction!BuildFail(n, type), n)
  <2> DEFINE operand == IF n.children[1].kind = "TryExpression"
                        THEN Construction!BuildTry(n.children[1], type)
                        ELSE Construction!Built(Construction!Region(n.children[1]))
             x == [kind |-> "Failure", range |-> n.range, failureType |-> type,
                   operand |-> operand.ir[1]]
  <2>1. \/ \E code : Construction!BuildFail(n, type) = Construction!Failed(code)
        \/ /\ Len(n.children) = 1
           /\ \/ operand.ir = <<>> /\ Construction!BuildFail(n, type) = operand
              \/ operand.ir # <<>> /\ Construction!BuildFail(n, type) = Construction!Built(x)
    BY DEF Construction!BuildFail
  <2>2. ASSUME operand.ir # <<>> PROVE StandsFor(x, n)
    <3>1. Yields(operand, n.children[1])
      BY <1>4, <1>5
    <3>2. operand.ir # <<>> => \E y : operand.ir = <<y>>
      <4>1. /\ \A code : Construction!Failed(code).ir = <<>>
            /\ \A z : Construction!Built(z).ir = <<z>>
        BY DEF Construction!Failed, Construction!Built
      <4>2. \/ \E code : operand = Construction!Failed(code)
            \/ \E z : operand = Construction!Built(z)
        BY DEF Construction!BuildTry
      <4> HIDE DEF operand
      <4> QED
        BY <4>1, <4>2
    <3> HIDE DEF operand
    <3>3. PICK y : operand.ir = <<y>>
      BY <2>2, <3>2
    <3>4. operand.ir[1] = y /\ y.range = n.children[1].range
      BY <3>1, <3>3, SingletonList DEF Yields
    <3> QED
      BY <1>7, <3>4 DEF StandsFor
  <2>3. operand.ir = <<>> => Gives(operand, n)
    BY OneIsNotNone DEF Gives
  <2> HIDE DEF x, operand
  <2> QED
    BY <1>1, <1>2, <2>1, <2>2, <2>3
<1>8. ASSUME NEW n, n.kind = "ReturnStatement" PROVE Gives(Construction!BuildReturn(n), n)
  <2> DEFINE x == [kind |-> "Return", range |-> n.range,
                   operand |-> Construction!Region(n.children[1])]
  <2>1. \/ \E code : Construction!BuildReturn(n) = Construction!Failed(code)
        \/ Construction!BuildReturn(n) = Construction!Built(x)
    BY DEF Construction!BuildReturn
  <2>2. StandsFor(x, n)
    BY <1>8 DEF StandsFor, Construction!Region
  <2> HIDE DEF x
  <2> QED
    BY <1>1, <1>2, <2>1, <2>2
<1>9. ASSUME NEW n, n.kind = "TryInitialization", NEW type
      PROVE  Gives(Construction!BuildTryInitialization(n, type), n)
  <2> DEFINE propagation == Construction!BuildTry(n.children[2], type)
             x == [kind |-> "TryInitialization", range |-> n.range,
                   declaration |-> n.children[1].range, propagation |-> propagation.ir[1]]
  <2>1. \/ \E code : Construction!BuildTryInitialization(n, type) = Construction!Failed(code)
        \/ /\ propagation.ir = <<>>
           /\ Construction!BuildTryInitialization(n, type) = propagation
        \/ /\ propagation.ir # <<>>
           /\ Construction!BuildTryInitialization(n, type) = Construction!Built(x)
    BY DEF Construction!BuildTryInitialization
  <2>2. ASSUME propagation.ir # <<>> PROVE StandsFor(x, n)
    <3>1. \E y : /\ propagation.ir = <<y>>
                 /\ y.operand.range = n.children[2].children[1].range
      <4> DEFINE y == [kind |-> "FailurePropagation", range |-> n.children[2].range,
                       failureType |-> type,
                       callee |-> resolutions[Construction!ResolutionOf(n.children[2])].callee,
                       operand |-> Construction!Region(n.children[2].children[1])]
      <4>1. \/ \E code : propagation = Construction!Failed(code)
            \/ propagation = Construction!Built(y)
        BY DEF Construction!BuildTry
      <4>2. \A code : Construction!Failed(code).ir = <<>>
        BY DEF Construction!Failed
      <4>3. Construction!Built(y).ir = <<y>>
        BY DEF Construction!Built
      <4>4. y.operand.range = n.children[2].children[1].range
        BY DEF Construction!Region
      <4> HIDE DEF y, propagation
      <4> QED
        BY <2>2, <4>1, <4>2, <4>3, <4>4
    <3> HIDE DEF propagation
    <3>2. PICK y : /\ propagation.ir = <<y>>
                   /\ y.operand.range = n.children[2].children[1].range
      BY <3>1
    <3>3. propagation.ir[1] = y
      BY <3>2, SingletonList
    <3> QED
      BY <1>9, <3>2, <3>3 DEF StandsFor
  <2>3. propagation.ir = <<>> => Gives(propagation, n)
    BY OneIsNotNone DEF Gives
  <2> HIDE DEF x, propagation
  <2> QED
    BY <1>1, <1>2, <2>1, <2>2, <2>3
<1>10. /\ Gives(Construction!BuildTry(node, failureType), node)
       /\ Gives(Construction!BuildSpecification(node), node)
       /\ Gives(Construction!Built(Construction!Region(node)), node)
  BY <1>3, <1>4, <1>5, <1>6
<1>11. Gives(Construction!Build(node, failureType), node)
  BY <1>7, <1>8, <1>9, <1>10 DEF Construction!Build
<1> QED
  BY <1>11 DEF Gives

\* A node of the program ends between two tokens, what the backend copies of it
\* lies in it, and it is longer than what is copied.
IrCut(stream, node) ==
  /\ node.kind # "FailureAwareFunction"
  /\ Aligned(stream, node.range)
  /\ node.kind \in {"Return", "Failure"} =>
       /\ node.range.begin < node.operand.range.begin
       /\ node.operand.range.begin < node.operand.range.end
       /\ node.operand.range.end < node.range.end
  /\ node.kind = "TryInitialization" =>
       LET declaration == node.declaration
           operand == node.propagation.operand.range
       IN  /\ node.range.begin <= declaration.begin /\ declaration.begin <= declaration.end
           /\ declaration.end <= operand.begin /\ node.range.begin + 4 <= operand.begin
           /\ operand.begin < operand.end /\ operand.end <= node.range.end

\* What the backend copies of a function: the parts follow one another in the
\* source, and each token of the function is in one of them or in its failure
\* specification.
PartsCut(stream, f) ==
  /\ IsRange(f.range) /\ IsRange(f.outcome.range)
  /\ Within(f.successType, f.range) /\ Within(f.declarator, f.range)
  /\ f.outcome.range.end <= f.range.end
  /\ f.successType.end <= f.declarator.begin
  /\ f.declarator.end <= f.outcome.range.begin /\ Within(f.outcome.failureType, f.outcome.range)
  /\ \A j \in 1..Len(f.children) :
       /\ IrCut(stream, f.children[j]) /\ IsRange(f.children[j].range)
       /\ f.children[j].range.begin <= f.children[j].range.end
       /\ f.children[j].range.end <= f.range.end
       /\ f.outcome.range.end <= f.children[j].range.begin
       /\ \A l \in 1..j-1 : f.children[l].range.end <= f.children[j].range.begin
  /\ \A i \in 1..Len(stream)-1 : Holds(stream, f.range, i) =>
       \/ Holds(stream, f.successType, i) \/ Holds(stream, f.declarator, i)
       \/ Holds(stream, f.outcome.range, i)
       \/ \E j \in 1..Len(f.children) : Holds(stream, f.children[j].range, i)

\* The functions of the program are cut as the backend copies them, and each
\* token is in one node of the program, which it does not stick out of.
ProgramCut(stream, nodes) ==
  /\ \A k \in 1..Len(nodes) :
       /\ Aligned(stream, nodes[k].range) /\ IsRange(nodes[k].range)
       /\ nodes[k].kind = "FailureAwareFunction" => PartsCut(stream, nodes[k])
  /\ \A i \in 1..Len(stream)-1 : \E k \in 1..Len(nodes) :
       \A l \in 1..Len(nodes) : Holds(stream, nodes[l].range, i) <=> l = k

\* A function of the program while its children are built, up to node "to" of
\* the declaration.
BuiltOf(f, node, to) ==
  LET nodes == node.children
      h == Construction!FirstOfKind(node, "FailureSpecification")
  IN  /\ f.range = node.range
      /\ h \in 1..Len(nodes) /\ Reached(node, h)
      /\ \E r, d \in 1..Len(nodes) :
           /\ HeaderAt(nodes, r, d, h)
           /\ f.successType = nodes[r].range /\ f.declarator = nodes[d].range
      /\ Within(f.successType, f.range) /\ Within(f.declarator, f.range)
      /\ f.outcome.range = nodes[h].range /\ Within(f.outcome.failureType, f.outcome.range)
      /\ h + Len(f.children) + 1 = to
      /\ \A j \in 1..Len(f.children) : StandsFor(f.children[j], nodes[h+j])

LEMMA IrIsCut ==
  ASSUME NEW stream, NEW node, CutNode(stream, node), NEW ir, StandsFor(ir, node)
  PROVE  IrCut(stream, ir)
<1>1. Aligned(stream, ir.range) /\ CutConstruct(node)
  BY DEF CutNode, StandsFor
<1>2. CASE ir.kind \in {"Return", "Failure"}
  BY <1>1, <1>2 DEF IrCut, StandsFor, CutConstruct
<1>3. CASE ir.kind = "TryInitialization"
  BY <1>1, <1>3 DEF IrCut, StandsFor, CutConstruct
<1>4. CASE ir.kind \notin {"Return", "Failure", "TryInitialization"}
  BY <1>1, <1>4 DEF IrCut, StandsFor
<1> QED
  BY <1>2, <1>3, <1>4

\* A function whose children are all built is cut like its declaration.
LEMMA BuiltFunctionIsCut ==
  ASSUME NEW stream, NEW node, Ranged(node), AllRanged(node.children), FunctionCut(stream, node),
         NEW f, IsList(f.children), BuiltOf(f, node, Len(node.children) + 1)
  PROVE  PartsCut(stream, f) /\ Complete(node)
<1> DEFINE nodes == node.children
           h == Construction!FirstOfKind(node, "FailureSpecification")
           n == Len(f.children)
<1>1. /\ h \in 1..Len(nodes) /\ Reached(node, h) /\ n \in Nat /\ Len(nodes) \in Nat
      /\ h + n + 1 = Len(nodes) + 1 /\ f.range = node.range
      /\ f.outcome.range = nodes[h].range /\ Within(f.outcome.failureType, f.outcome.range)
      /\ Within(f.successType, f.range) /\ Within(f.declarator, f.range)
      /\ \A j \in 1..n : StandsFor(f.children[j], nodes[h+j])
  <2>1. n \in Nat /\ Len(nodes) \in Nat
    BY DEF AllRanged, IsList
  <2> HIDE DEF n
  <2>2. /\ h \in 1..Len(nodes) /\ Reached(node, h)
        /\ f.range = node.range
        /\ f.outcome.range = nodes[h].range /\ Within(f.outcome.failureType, f.outcome.range)
        /\ Within(f.successType, f.range) /\ Within(f.declarator, f.range)
    BY DEF BuiltOf
  <2>3. h + n + 1 = Len(nodes) + 1 /\ \A j \in 1..n : StandsFor(f.children[j], nodes[h+j])
    BY DEF BuiltOf, n
  <2> QED
    BY <2>1, <2>2, <2>3
<1>2. PICK r, d \in 1..Len(nodes) :
        /\ HeaderAt(nodes, r, d, h)
        /\ f.successType = nodes[r].range /\ f.declarator = nodes[d].range
  BY DEF BuiltOf
<1> HIDE DEF h
<1>3. /\ Complete(node)
      /\ node.range.begin <= nodes[r].range.begin
      /\ nodes[r].range.end <= nodes[d].range.begin
      /\ nodes[d].range.end <= nodes[h].range.begin
      /\ \A k \in h..Len(nodes) :
           /\ ValidRange(nodes[k].range) /\ nodes[k].range.end <= node.range.end
           /\ CutNode(stream, nodes[k])
           /\ \A l \in h..k-1 : nodes[l].range.end <= nodes[k].range.begin
      /\ \A i \in 1..Len(stream)-1 : Holds(stream, node.range, i) =>
           \E k \in {r, d} \cup (h..Len(nodes)) : Holds(stream, nodes[k].range, i)
  BY <1>1, <1>2 DEF FunctionCut
<1> HIDE DEF n, nodes
<1>4. h \in Nat /\ n \in Nat /\ Len(nodes) = h + n
  <2>1. h \in Nat /\ n \in Nat /\ Len(nodes) \in Nat /\ h + n + 1 = Len(nodes) + 1
    BY <1>1
  <2> QED
    BY <2>1
<1>5. \A k, l \in h..Len(nodes) : l < k => nodes[l].range.end <= nodes[k].range.begin
  <2> SUFFICES ASSUME NEW k \in h..Len(nodes), NEW l \in h..Len(nodes), l < k
               PROVE  nodes[l].range.end <= nodes[k].range.begin
    OBVIOUS
  <2>1. l \in h..k-1
    BY <1>4
  <2> QED
    BY <1>3, <2>1
<1>8. ASSUME NEW j \in 1..n
      PROVE  h + j \in h..Len(nodes) /\ h \in h..Len(nodes) /\ h < h + j
  BY <1>4
<1>9. ASSUME NEW k \in h..Len(nodes), k # h PROVE k - h \in 1..n /\ k = h + (k - h)
  BY <1>4, <1>9
<1>10. ASSUME NEW j \in 1..n
      PROVE  /\ IrCut(stream, f.children[j])
             /\ IsRange(f.children[j].range)
             /\ f.children[j].range.begin <= f.children[j].range.end
             /\ f.children[j].range.end <= f.range.end
             /\ f.outcome.range.end <= f.children[j].range.begin
             /\ \A l \in 1..j-1 : f.children[l].range.end <= f.children[j].range.begin
  <2>1. StandsFor(f.children[j], nodes[h+j]) /\ h + j \in h..Len(nodes)
    BY <1>1, <1>8
  <2>2. f.children[j].range = nodes[h+j].range
    BY <2>1 DEF StandsFor
  <2>3. IrCut(stream, f.children[j])
    BY <1>3, <2>1, IrIsCut
  <2>4. nodes[h].range.end <= nodes[h+j].range.begin
    BY <1>5, <1>8
  <2>5. ASSUME NEW l \in 1..j-1 PROVE f.children[l].range.end <= f.children[j].range.begin
    <3>1. l \in 1..n /\ h + l < h + j
      BY <1>4
    <3>2. f.children[l].range = nodes[h+l].range
      BY <1>1, <3>1 DEF StandsFor
    <3>3. nodes[h+l].range.end <= nodes[h+j].range.begin
      BY <1>5, <1>8, <2>1, <3>1
    <3> QED
      BY <2>2, <3>2, <3>3
  <2>6. nodes[h+j].range.begin <= nodes[h+j].range.end /\ nodes[h+j].range.end <= node.range.end
    BY <1>3, <2>1 DEF ValidRange
  <2>7. IsRange(nodes[h+j].range)
    <3>1. h + j \in 1..Len(nodes)
      BY <1>4
    <3> QED
      BY <3>1 DEF AllRanged, RangedTwice, Ranged, nodes
  <2> QED
    BY <1>1, <2>2, <2>3, <2>4, <2>5, <2>6, <2>7
<1>6. ASSUME NEW i \in 1..Len(stream)-1, Holds(stream, f.range, i)
      PROVE  \/ Holds(stream, f.successType, i) \/ Holds(stream, f.declarator, i)
             \/ Holds(stream, f.outcome.range, i)
             \/ \E j \in 1..n : Holds(stream, f.children[j].range, i)
  <2>1. PICK k \in {r, d} \cup (h..Len(nodes)) : Holds(stream, nodes[k].range, i)
    BY <1>1, <1>3, <1>6
  <2>2. CASE k \in {r, d}
    BY <1>2, <2>1, <2>2 DEF nodes
  <2>3. CASE k = h
    BY <1>1, <2>1, <2>3
  <2>4. CASE k \in h..Len(nodes) /\ k # h
    <3>1. PICK j \in 1..n : k = h + j
      BY <1>9, <2>4
    <3>2. f.children[j].range = nodes[k].range
      BY <1>1, <3>1 DEF StandsFor
    <3> QED
      BY <2>1, <3>1, <3>2
  <2> QED
    BY <2>1, <2>2, <2>3, <2>4
<1>11. /\ IsRange(f.range) /\ IsRange(f.outcome.range)
       /\ f.outcome.range.end <= f.range.end
  <2>1. IsRange(nodes[h].range)
    BY <1>1 DEF AllRanged, RangedTwice, Ranged, nodes
  <2>2. nodes[h].range.end <= node.range.end
    BY <1>3, <1>4
  <2> QED
    BY <1>1, <2>1, <2>2 DEF Ranged
<1>7. /\ f.successType.end <= f.declarator.begin
      /\ f.declarator.end <= f.outcome.range.begin
  BY <1>1, <1>2, <1>3 DEF nodes
<1> QED
  BY <1>1, <1>3, <1>6, <1>7, <1>10, <1>11 DEF PartsCut, n

LEMMA FunctionStartsCut ==
  ASSUME NEW node, IsList(node.children), NEW f, Construction!BuildFunction(node).ir = <<f>>
  PROVE  BuiltOf(f, node, Construction!FirstOfKind(node, "FailureSpecification") + 1)
<1> DEFINE at == Construction!FirstOfKind(node, "FailureSpecification")
           header(kind) == Construction!Max({0} \cup {i \in 1..at-1 : node.children[i].kind = kind})
           part(kind) == node.children[header(kind)].range
           outcome == Construction!BuildSpecification(node.children[at])
           body == Construction!BodyRange(node, at)
           g == [kind |-> "FailureAwareFunction", range |-> node.range,
                 successType |-> part("FunctionReturnType"),
                 name |-> IF header("FunctionName") = 0 THEN Construction!NoRange ELSE part("FunctionName"),
                 declarator |-> part("FunctionDeclarator"),
                 body |-> body, outcome |-> outcome.ir[1],
                 children |-> <<>>, lowered |-> FALSE]
<1>1. /\ 0 \notin {at, header("FunctionReturnType"), header("FunctionDeclarator")}
      /\ outcome.ir # <<>> /\ f = g /\ Construction!FunctionRangesValid(g)
  <2>1. outcome.ir = <<>> => [outcome EXCEPT !.errors = @ \o <<"VIXC5016">>].ir = <<>>
    BY DEF Construction!BuildSpecification, Construction!Failed, Construction!Built
  <2>2. /\ \A code : Construction!Failed(code).ir = <<>>
        /\ Construction!Built(g).ir = <<g>>
    BY DEF Construction!Failed, Construction!Built
  <2> DEFINE absent == 0 \in {at, header("FunctionReturnType"), header("FunctionDeclarator")}
             refused == [outcome EXCEPT !.errors = @ \o <<"VIXC5016">>]
  <2>3. Construction!BuildFunction(node) =
          IF absent THEN Construction!Failed("VIXC5015")
          ELSE IF outcome.ir = <<>> THEN refused
          ELSE IF ~Construction!FunctionRangesValid(g) THEN Construction!Failed("VIXC5017")
          ELSE Construction!Built(g)
    BY DEF Construction!BuildFunction
  <2>4. outcome.ir = <<>> => refused.ir = <<>>
    BY <2>1
  <2> HIDE DEF absent, refused, g, outcome
  <2>5. ~absent /\ outcome.ir # <<>> /\ <<g>> = <<f>> /\ Construction!FunctionRangesValid(g)
    BY <2>2, <2>3, <2>4, OneIsNotNone
  <2>6. f = g
    BY <2>5, SingletonList
  <2> QED
    BY <2>5, <2>6 DEF absent
<1>2. Len(node.children) \in Nat /\ at \in 1..Len(node.children) /\ HeadsBody(node.children, at)
  <2> DEFINE n == Len(node.children)
             S == {i \in 1..n : node.children[i].kind = "FailureSpecification"}
  <2>1. at = IF S = {} THEN 0 ELSE Min(S)
    BY DEF Construction!FirstOfKind, Construction!SelectInSeq, Construction!Min, Min
  <2>2. at # 0 /\ n \in Nat
    <3>1. n \in Nat
      BY DEF IsList
    <3> HIDE DEF at, n, header
    <3> QED
      BY <1>1, <3>1
  <2>3. S # {} => Min(S) \in S /\ \A k \in S : Min(S) <= k
    <3>1. S \in SUBSET Nat
      OBVIOUS
    <3> HIDE DEF S
    <3> QED
      BY <3>1, MinOfNaturals
  <2>4. at \in S /\ \A k \in S : at <= k
    <3> HIDE DEF at, S
    <3> QED
      BY <2>1, <2>2, <2>3
  <2> HIDE DEF at
  <2>5. at \in 1..n /\ node.children[at].kind = "FailureSpecification"
    BY <2>4
  <2>6. ASSUME NEW k \in 1..at-1 PROVE node.children[k].kind # "FailureSpecification"
    <3>1. k \in 1..n /\ ~(at <= k)
      <4> HIDE DEF n, S
      <4> QED
        BY <2>2, <2>5
    <3> QED
      BY <2>4, <3>1
  <2> QED
    BY <2>2, <2>5, <2>6 DEF HeadsBody
<1> HIDE DEF at
<1>3. ASSUME NEW kind, header(kind) # 0
      PROVE  /\ header(kind) \in 1..Len(node.children) /\ header(kind) < at
             /\ node.children[header(kind)].kind = kind
  <2> DEFINE S == {0} \cup {i \in 1..at-1 : node.children[i].kind = kind}
  <2>1. S \in SUBSET (0..at-1) /\ S # {} /\ at - 1 \in Nat
    BY <1>2
  <2>2. Max(S) \in S
    <3> HIDE DEF S
    <3> QED
      BY <2>1, MaxOfNaturals
  <2>3. header(kind) = Max(S)
    BY DEF Construction!Max, Max
  <2>4. header(kind) \in 1..at-1 /\ node.children[header(kind)].kind = kind
    BY <1>3, <2>2, <2>3
  <2>5. header(kind) \in 1..Len(node.children) /\ header(kind) < at
    <3> HIDE DEF header
    <3> QED
      BY <1>2, <2>4
  <2> QED
    BY <2>4, <2>5
<1>4. /\ outcome.ir[1].range = node.children[at].range
      /\ Within(outcome.ir[1].failureType, node.children[at].range)
  <2> DEFINE n == node.children[at]
             x == [kind |-> "Outcome", range |-> n.range, failureType |-> n.children[1].range]
  <2>1. \/ \E code : outcome = Construction!Failed(code)
        \/ /\ Construction!Within(n.children[1].range, n.range)
           /\ outcome = Construction!Built(x)
    BY DEF Construction!BuildSpecification
  <2>2. (\A code : Construction!Failed(code).ir = <<>>) /\ Construction!Built(x).ir = <<x>>
    BY DEF Construction!Failed, Construction!Built
  <2>3. x.failureType = n.children[1].range /\ x.range = n.range
    OBVIOUS
  <2> HIDE DEF x, outcome
  <2>4. Construction!Within(n.children[1].range, n.range) /\ outcome.ir[1] = x
    BY <1>1, <2>1, <2>2, SingletonList
  <2>5. Within(n.children[1].range, n.range)
    BY <2>4 DEF Construction!Within, Within, Construction!ValidRange, ValidRange
  <2> QED
    BY <2>3, <2>4, <2>5
<1>5. /\ f.range = node.range
      /\ f.successType = part("FunctionReturnType") /\ f.declarator = part("FunctionDeclarator")
      /\ f.outcome = outcome.ir[1] /\ f.body = body /\ f.children = <<>>
      /\ Construction!FunctionRangesValid(f)
  BY <1>1
<1> HIDE DEF outcome, header, g
<1>6. /\ Within(f.successType, f.range) /\ Within(f.declarator, f.range)
      /\ Construction!NonEmpty(f.body) /\ Construction!Within(f.body, f.range)
  <2>1. \A piece \in {f.successType, f.declarator, f.body} :
          Construction!NonEmpty(piece) /\ Construction!Within(piece, f.range)
    BY <1>5 DEF Construction!FunctionRangesValid
  <2>2. \A piece : Construction!Within(piece, f.range) <=> Within(piece, f.range)
    BY DEF Construction!Within, Within, Construction!ValidRange, ValidRange
  <2> QED
    BY <2>1, <2>2
<1>7. Reached(node, at)
  <2>1. at < Len(node.children) /\ body.end = Last(node.children).range.end
    <3>1. body = IF at < Len(node.children)
                 THEN [begin |-> node.children[at + 1].range.begin,
                       end |-> Construction!Last(node.children).range.end]
                 ELSE Construction!NoRange
      BY DEF Construction!BodyRange
    <3>2. ~Construction!NonEmpty(Construction!NoRange)
      BY DEF Construction!NonEmpty, Construction!ValidRange, Construction!NoRange,
             Construction!Invalid
    <3>3. Construction!Last(node.children) = Last(node.children)
      BY DEF Construction!Last, Last
    <3> HIDE DEF body
    <3> QED
      BY <1>5, <1>6, <3>1, <3>2, <3>3
  <2>2. 0 <= node.range.begin /\ body.end <= node.range.end
    BY <1>5, <1>6 DEF Construction!Within, Construction!ValidRange
  <2> HIDE DEF body
  <2> QED
    BY <2>1, <2>2 DEF Reached
<1>8. PICK r \in 1..Len(node.children), d \in 1..Len(node.children) :
        /\ HeaderAt(node.children, r, d, at)
        /\ f.successType = node.children[r].range /\ f.declarator = node.children[d].range
  <2> DEFINE r == header("FunctionReturnType")
             d == header("FunctionDeclarator")
  <2>1. /\ r \in 1..Len(node.children) /\ r < at /\ node.children[r].kind = "FunctionReturnType"
        /\ d \in 1..Len(node.children) /\ d < at /\ node.children[d].kind = "FunctionDeclarator"
    BY <1>1, <1>3
  <2>2. f.successType = node.children[r].range /\ f.declarator = node.children[d].range
    BY <1>5
  <2> HIDE DEF r, d
  <2> QED
    BY <1>2, <2>1, <2>2 DEF HeaderAt
<1>9. /\ f.outcome.range = node.children[at].range
      /\ Within(f.outcome.failureType, f.outcome.range)
  BY <1>4, <1>5
<1>10. at + Len(f.children) + 1 = at + 1 /\ 1..Len(f.children) = {}
  BY <1>2, <1>5, EmptyList
<1> HIDE DEF body, part
<1>11. BuiltOf(f, node, at + 1)
  BY <1>2, <1>5, <1>6, <1>7, <1>8, <1>9, <1>10 DEF BuiltOf, at
<1> QED
  BY <1>11 DEF at

\* A node of the program and the top-level node it was built from.
BuiltTop(stream, ir, node) ==
  /\ ir.range = node.range /\ IsRange(ir.range)
  /\ ir.kind = "FailureAwareFunction" => PartsCut(stream, ir)
  /\ Complete(node)

IrInv ==
  /\ stage = "build" /\ construction \in {"building", "inFunction"} =>
       /\ Len(program) = child - 1
       /\ \A k \in 1..Len(program) : BuiltTop(tokens, program[k], unit.children[k])
  /\ stage = "build" /\ construction = "inFunction" =>
       /\ BuiltOf(irFunction[1], unit.children[child], bodyChild)
       /\ bodyChild <= Len(unit.children[child].children) + 1
  /\ stage \in {"lower", "emit"} \/ (stage = "build" /\ construction = "built") =>
       ProgramCut(tokens, program)

LEMMA BuiltTopGrows ==
  ASSUME IsList(program), NEW ir, NEW nodes, Len(program) + 1 \in 1..Len(nodes),
         \A k \in 1..Len(program) : BuiltTop(tokens, program[k], nodes[k]),
         BuiltTop(tokens, ir, nodes[Len(program) + 1])
  PROVE  /\ Len(program \o <<ir>>) = Len(program) + 1
         /\ \A k \in 1..Len(program \o <<ir>>) : BuiltTop(tokens, (program \o <<ir>>)[k], nodes[k])
<1> DEFINE grown == program \o <<ir>>
<1>1. /\ Len(grown) = Len(program) + 1 /\ grown[Len(program) + 1] = ir
      /\ \A k \in 1..Len(program) : grown[k] = program[k] /\ Len(program) \in Nat
  BY PushedElement DEF IsList
<1>2. Len(program) \in Nat
  BY DEF IsList
<1> HIDE DEF grown
<1>3. ASSUME NEW k \in 1..Len(grown) PROVE BuiltTop(tokens, grown[k], nodes[k])
  <2>1. k \in 1..Len(program) \/ k = Len(program) + 1
    BY <1>1, <1>2
  <2> QED
    BY <1>1, <2>1
<1>4. Len(grown) = Len(program) + 1 /\ \A k \in 1..Len(grown) : BuiltTop(tokens, grown[k], nodes[k])
  BY <1>1, <1>3
<1> QED
  BY <1>4 DEF grown

\* The program of a unit whose functions are all complete is cut.
LEMMA BuiltProgramIsCut ==
  ASSUME IsTokenStream(tokens), NEW nodes, AllCut(tokens, nodes), UnitTiled(nodes, Len(tokens)),
         NEW ir, Len(ir) = Len(nodes),
         \A k \in 1..Len(ir) : BuiltTop(tokens, ir[k], nodes[k])
  PROVE  ProgramCut(tokens, ir)
<1>1. AllComplete(nodes)
  BY DEF AllComplete, BuiltTop
<1>2. Tiles(nodes, 1, Len(tokens))
  BY <1>1 DEF UnitTiled
<1>3. ASSUME NEW k \in 1..Len(ir)
      PROVE  /\ Aligned(tokens, ir[k].range) /\ IsRange(ir[k].range)
             /\ ir[k].kind = "FailureAwareFunction" => PartsCut(tokens, ir[k])
  <2>1. BuiltTop(tokens, ir[k], nodes[k]) /\ UnitCut(tokens, nodes[k])
    BY DEF AllCut
  <2> QED
    BY <2>1 DEF BuiltTop, UnitCut
<1>4. ASSUME NEW i \in 1..Len(tokens)-1
      PROVE  \E k \in 1..Len(ir) : \A l \in 1..Len(ir) : Holds(tokens, ir[l].range, i) <=> l = k
  <2>1. PICK k \in 1..Len(nodes) : \A l \in 1..Len(nodes) : Owns(nodes[l], i) <=> l = k
    BY <1>2 DEF Tiles, OwnedOnce
  <2>2. \A l \in 1..Len(ir) : Holds(tokens, ir[l].range, i) <=> Owns(nodes[l], i)
    BY DEF BuiltTop, Holds, Owns
  <2>3. k \in 1..Len(ir) /\ 1..Len(ir) = 1..Len(nodes)
    OBVIOUS
  <2>4. \A l \in 1..Len(ir) : Holds(tokens, ir[l].range, i) <=> l = k
    BY <2>1, <2>2, <2>3
  <2> QED
    BY <2>3, <2>4
<1> QED
  BY <1>3, <1>4 DEF ProgramCut

LEMMA BuildKeepsCuts ==
  ASSUME CallInv, RangesInv, SourcesInv, CutsInv, IrInv, BuildIr
  PROVE  IrInv'
<1>1. /\ stage = "build" /\ stage' = "build" /\ UNCHANGED <<unit, tokens>>
      /\ BuildAt /\ IsList(program) /\ Len(unit.children) \in Nat
      /\ AllCut(tokens, unit.children) /\ UnitTiled(unit.children, Len(tokens))
      /\ AllUnitRanged(unit.children) /\ IsTokenStream(tokens)
  <2>1. stage = "build" /\ stage' = "build" /\ tokens' = tokens
    BY DEF BuildIr, controlVars
  <2>2. unit' = unit
    BY DEF BuildIr, Construction!Next, Construction!BuildTopLevel,
       Construction!BeginFunction, Construction!BuildBodyChild, Construction!EndFunction,
       Construction!FinishConstruction
  <2>3. phase = "done" /\ Clean
    BY <2>1 DEF CallInv, RInv, SInv, AnalysisInv, Clean
  <2>4. AllUnitRanged(unit.children) /\ Len(unit.children) \in Nat
    BY <2>3 DEF RangesInv, AllUnitRanged, IsList
  <2>5. AllCut(tokens, unit.children) /\ UnitTiled(unit.children, Len(tokens))
    BY <2>3 DEF CutsInv, CallInv, TreeInv
  <2>6. IsTokenStream(tokens)
    BY DEF CallInv, IInv, ParserTypeOK
  <2> QED
    BY <2>1, <2>2, <2>4, <2>5, <2>6 DEF CallInv, SourcesInv, ProgramInv, IsProgram
<1>2. CASE Construction!BuildTopLevel
  <2> DEFINE node == unit.children[child]
             built == Construction!Build(node, contract)
  <2>1. /\ construction = "building" /\ node.kind # "FunctionDeclaration"
        /\ child <= Len(unit.children)
        /\ \/ construction' = "failed"
           \/ /\ built.ir # <<>> /\ program' = program \o built.ir
              /\ construction' = construction /\ child' = child + 1
    BY <1>2 DEF Construction!BuildTopLevel, Construction!Stop
  <2>2. child \in 1..Len(unit.children) /\ Len(program) = child - 1
        /\ \A k \in 1..Len(program) : BuiltTop(tokens, program[k], unit.children[k])
    BY <1>1, <2>1 DEF BuildAt, IrInv
  <2>3. ASSUME built.ir # <<>>
        PROVE  /\ Len(program \o built.ir) = child
               /\ \A k \in 1..Len(program \o built.ir) :
                    BuiltTop(tokens, (program \o built.ir)[k], unit.children[k])
    <3>1. PICK ir : built.ir = <<ir>> /\ ir.kind # "FailureAwareFunction"
      BY <2>3, BuiltIsPlain
    <3>2. ir.range = node.range
      BY <3>1, BuiltStandsForIt DEF StandsFor
    <3>5. IsRange(node.range)
      BY <1>1, <2>1, <2>2 DEF AllUnitRanged, UnitRanged, RangedTwice, Ranged
    <3>3. BuiltTop(tokens, ir, node)
      BY <2>1, <3>1, <3>2, <3>5 DEF BuiltTop, Complete
    <3>4. Len(program) + 1 = child
      BY <2>2
    <3> HIDE DEF built
    <3> QED
      BY <1>1, <2>2, <3>1, <3>3, <3>4, BuiltTopGrows
  <2> HIDE DEF built, node
  <2>4. CASE construction' = "failed"
    BY <1>1, <2>4 DEF IrInv
  <2>5. CASE /\ built.ir # <<>> /\ program' = program \o built.ir
             /\ construction' = construction /\ child' = child + 1
    <3>1. Len(program') = child' - 1
      BY <2>2, <2>3, <2>5
    <3> QED
      BY <1>1, <2>1, <2>3, <2>5, <3>1 DEF IrInv
  <2> QED
    BY <2>1, <2>4, <2>5
<1>3. CASE Construction!BeginFunction
  <2> DEFINE node == unit.children[child]
             at == Construction!FirstOfKind(node, "FailureSpecification")
             built == Construction!BuildFunction(node)
  <2>1. /\ program' = program /\ construction = "building"
        /\ node.kind = "FunctionDeclaration" /\ child <= Len(unit.children) /\ child' = child
        /\ \/ construction' = "failed"
           \/ /\ built.ir # <<>> /\ irFunction' = built.ir /\ construction' = "inFunction"
              /\ bodyChild' = at + 1
    BY <1>3 DEF Construction!BeginFunction, Construction!Stop
  <2>2. child \in 1..Len(unit.children)
    BY <1>1, <2>1 DEF BuildAt
  <2>3. IsList(node.children)
    BY <1>1, <2>1, <2>2 DEF AllUnitRanged, UnitRanged, AllRanged
  <2>4. ASSUME built.ir # <<>>
        PROVE  BuiltOf(built.ir[1], node, at + 1) /\ at + 1 <= Len(node.children) + 1
    <3>1. PICK f : built.ir = <<f>>
      BY <2>4, BuiltFunctionIsValid
    <3>2. BuiltOf(f, node, at + 1)
      BY <2>3, <3>1, FunctionStartsCut
    <3>3. at \in 1..Len(node.children)
      BY <3>2 DEF BuiltOf
    <3>4. Len(node.children) \in Nat
      BY <2>3 DEF IsList
    <3>5. built.ir[1] = f
      <4> HIDE DEF built
      <4> QED
        BY <3>1, SingletonList
    <3> HIDE DEF built, at, node
    <3> QED
      BY <3>2, <3>3, <3>4, <3>5
  <2> HIDE DEF built, at
  <2> QED
    BY <1>1, <2>1, <2>4 DEF IrInv
<1>4. CASE Construction!BuildBodyChild
  <2> DEFINE decl == unit.children[child]
             body == decl.children
             built == Construction!Build(body[bodyChild], bodyContract)
  <2>1. /\ construction = "inFunction" /\ program' = program /\ bodyChild <= Len(body)
        /\ child' = child
        /\ \/ construction' = "failed"
           \/ /\ built.ir # <<>> /\ construction' = construction
              /\ irFunction' = <<[irFunction[1] EXCEPT !.children = @ \o built.ir]>>
              /\ bodyChild' = bodyChild + 1
    BY <1>4 DEF Construction!BuildBodyChild, Construction!Stop
  <2>2. PICK node : irFunction = <<node>> /\ IsIrFunction(node)
    BY <2>1 DEF CallInv, ProgramInv
  <2>3. irFunction[1] = node
    BY <2>2, SingletonList
  <2>4. BuiltOf(node, decl, bodyChild)
    BY <1>1, <2>1, <2>3 DEF IrInv
  <2>5. Len(body) \in Nat /\ bodyChild \in Nat
    <3>1. /\ child \in 1..Len(unit.children)+1 /\ child <= Len(unit.children)
          /\ decl.kind = "FunctionDeclaration" /\ bodyChild \in Nat \ {0}
      BY <1>1, <2>1 DEF BuildAt
    <3>2. child \in 1..Len(unit.children)
      <4> HIDE DEF decl
      <4> QED
        BY <1>1, <3>1
    <3> QED
      BY <1>1, <3>1, <3>2 DEF AllUnitRanged, UnitRanged, AllRanged, IsList
  <2>6. ASSUME built.ir # <<>>
        PROVE  BuiltOf([node EXCEPT !.children = @ \o built.ir], decl, bodyChild + 1)
    <3>1. PICK ir : built.ir = <<ir>>
      BY <2>6, BuiltIsPlain
    <3>2. StandsFor(ir, body[bodyChild])
      BY <3>1, BuiltStandsForIt
    <3> DEFINE old == node.children
               grown == old \o <<ir>>
               g == [node EXCEPT !.children = grown]
    <3>3. DOMAIN node = IrFunctionFields /\ IsList(old)
      BY <2>2 DEF IsIrFunction
    <3>4. /\ g.range = node.range /\ g.successType = node.successType
          /\ g.declarator = node.declarator /\ g.outcome = node.outcome /\ g.children = grown
      BY <3>3 DEF IrFunctionFields
    <3>5. [node EXCEPT !.children = @ \o built.ir] = g
      BY <3>1
    <3>6. /\ Len(old) \in Nat /\ Len(grown) = Len(old) + 1
          /\ \A k \in 1..Len(old) : grown[k] = old[k]
          /\ grown[Len(old) + 1] = ir
      <4> HIDE DEF old
      <4> QED
        BY <3>3, PushedElement DEF IsList
    <3> HIDE DEF g, grown, built
    <3> DEFINE h == Construction!FirstOfKind(decl, "FailureSpecification")
    <3>7. /\ h \in 1..Len(body) /\ h + Len(old) + 1 = bodyChild
          /\ \A j \in 1..Len(old) : StandsFor(old[j], body[h+j])
      BY <2>4 DEF BuiltOf
    <3>8. \A j \in 1..Len(grown) : StandsFor(grown[j], body[h+j])
      <4> SUFFICES ASSUME NEW j \in 1..Len(grown) PROVE StandsFor(grown[j], body[h+j])
        OBVIOUS
      <4> HIDE DEF h, old, body
      <4>1. j \in 1..Len(old) \/ j = Len(old) + 1
        BY <3>6
      <4>2. h + (Len(old) + 1) = bodyChild
        BY <2>5, <3>6, <3>7
      <4> QED
        BY <3>2, <3>6, <3>7, <4>1, <4>2
    <3>9. h + Len(grown) + 1 = bodyChild + 1
      <4>1. Len(grown) = Len(old) + 1 /\ Len(old) \in Nat
        BY <3>6
      <4>2. h + Len(old) + 1 = bodyChild /\ h \in 1..Len(body)
        BY <3>7
      <4> HIDE DEF h, old, body
      <4>3. h \in Int
        BY <4>2
      <4> QED
        BY <4>1, <4>2, <4>3
    <3>10. BuiltOf(g, decl, bodyChild + 1)
      <4>1. /\ h \in 1..Len(body) /\ Reached(decl, h) /\ g.range = decl.range
            /\ Within(g.successType, g.range) /\ Within(g.declarator, g.range)
            /\ g.outcome.range = body[h].range /\ Within(g.outcome.failureType, g.outcome.range)
        BY <2>4, <3>4 DEF BuiltOf
      <4>2. \E r, d \in 1..Len(body) :
              /\ HeaderAt(body, r, d, h)
              /\ g.successType = body[r].range /\ g.declarator = body[d].range
        BY <2>4, <3>4 DEF BuiltOf
      <4> HIDE DEF decl
      <4> QED
        BY <3>4, <3>8, <3>9, <4>1, <4>2 DEF BuiltOf
    <3> QED
      BY <3>5, <3>10
  <2>7. bodyChild + 1 <= Len(body) + 1
    <3>1. bodyChild <= Len(body)
      BY <2>1
    <3> HIDE DEF body
    <3> QED
      BY <2>5, <3>1
  <2> HIDE DEF built
  <2>8. CASE construction' = "failed"
    BY <1>1, <2>8 DEF IrInv
  <2>9. CASE /\ built.ir # <<>> /\ construction' = construction
             /\ irFunction' = <<[irFunction[1] EXCEPT !.children = @ \o built.ir]>>
             /\ bodyChild' = bodyChild + 1
    <3> DEFINE g == [node EXCEPT !.children = @ \o built.ir]
    <3>1. irFunction' = <<g>> /\ BuiltOf(g, decl, bodyChild + 1)
      BY <2>3, <2>6, <2>9
    <3> HIDE DEF g
    <3>2. irFunction'[1] = g
      BY <3>1, SingletonList
    <3> QED
      BY <1>1, <2>1, <2>7, <2>9, <3>1, <3>2 DEF IrInv
  <2> QED
    BY <2>1, <2>8, <2>9
<1>5. CASE Construction!EndFunction
  <2> DEFINE decl == unit.children[child]
  <2>1. /\ construction = "inFunction" /\ construction' = "building"
        /\ program' = program \o irFunction /\ child' = child + 1
        /\ bodyChild > Len(decl.children)
    BY <1>5 DEF Construction!EndFunction
  <2>2. PICK f : irFunction = <<f>> /\ IsIrFunction(f)
    BY <2>1 DEF CallInv, ProgramInv
  <2>3. irFunction[1] = f
    BY <2>2, SingletonList
  <2>4. /\ BuiltOf(f, decl, bodyChild) /\ bodyChild <= Len(decl.children) + 1
        /\ Len(program) = child - 1
        /\ \A k \in 1..Len(program) : BuiltTop(tokens, program[k], unit.children[k])
    BY <1>1, <2>1, <2>3 DEF IrInv
  <2>5. child \in 1..Len(unit.children) /\ decl.kind = "FunctionDeclaration" /\ bodyChild \in Nat
    <3>1. /\ child \in 1..Len(unit.children)+1 /\ child <= Len(unit.children)
          /\ decl.kind = "FunctionDeclaration" /\ bodyChild \in Nat \ {0}
      BY <1>1, <2>1 DEF BuildAt
    <3> HIDE DEF decl
    <3> QED
      BY <1>1, <3>1
  <2>6. /\ Ranged(decl) /\ AllRanged(decl.children) /\ IsList(decl.children)
        /\ FunctionCut(tokens, decl)
    BY <1>1, <2>5 DEF AllUnitRanged, UnitRanged, AllRanged, AllCut, UnitCut
  <2>7. BuiltOf(f, decl, Len(decl.children) + 1)
    <3>1. Len(decl.children) \in Nat
      BY <2>6 DEF IsList
    <3>2. bodyChild = Len(decl.children) + 1
      <4> HIDE DEF decl
      <4> QED
        BY <2>1, <2>4, <2>5, <3>1
    <3> QED
      BY <2>4, <3>2
  <2>8. PartsCut(tokens, f) /\ Complete(decl)
    BY <2>2, <2>6, <2>7, BuiltFunctionIsCut DEF IsIrFunction
  <2>9. BuiltTop(tokens, f, decl)
    BY <2>6, <2>7, <2>8 DEF BuiltTop, BuiltOf, Ranged
  <2>10. Len(program) + 1 = child
    BY <2>4, <2>5
  <2>11. /\ Len(program \o <<f>>) = child
         /\ \A k \in 1..Len(program \o <<f>>) :
              BuiltTop(tokens, (program \o <<f>>)[k], unit.children[k])
    BY <1>1, <2>4, <2>5, <2>9, <2>10, BuiltTopGrows
  <2>12. Len(program') = child' - 1
    BY <2>1, <2>2, <2>5, <2>11
  <2> QED
    BY <1>1, <2>1, <2>2, <2>11, <2>12 DEF IrInv
<1>6. CASE Construction!FinishConstruction
  <2>1. construction = "building" /\ child > Len(unit.children) /\ program' = program
        /\ construction' = "built"
    BY <1>6 DEF Construction!FinishConstruction
  <2>2. child \in 1..Len(unit.children)+1 /\ Len(program) = child - 1
        /\ \A k \in 1..Len(program) : BuiltTop(tokens, program[k], unit.children[k])
    BY <1>1, <2>1 DEF BuildAt, IrInv
  <2>3. Len(program) = Len(unit.children)
    BY <1>1, <2>1, <2>2
  <2>4. ProgramCut(tokens, program)
    BY <1>1, <2>2, <2>3, BuiltProgramIsCut
  <2> QED
    BY <1>1, <2>1, <2>4 DEF IrInv
<1> QED
  BY <1>2, <1>3, <1>4, <1>5, <1>6 DEF BuildIr, Construction!Next

\* A function keeps its cuts when its children are replaced by ones that are cut
\* alike.
LEMMA PartsStayCut ==
  ASSUME NEW stream, NEW f, PartsCut(stream, f), NEW g,
         g.range = f.range, g.successType = f.successType, g.declarator = f.declarator,
         g.outcome = f.outcome, Len(g.children) = Len(f.children),
         \A j \in 1..Len(f.children) :
           g.children[j].range = f.children[j].range /\ IrCut(stream, g.children[j])
  PROVE  PartsCut(stream, g)
<1>1. ASSUME NEW j \in 1..Len(g.children), NEW l \in 1..j-1
      PROVE  g.children[l].range = f.children[l].range
  <2>1. j \in 1..Len(f.children)
    OBVIOUS
  <2>2. CASE Len(f.children) \in Int
    <3>1. l \in 1..Len(f.children)
      BY <2>1, <2>2
    <3> QED
      BY <3>1
  <2>3. CASE Len(f.children) \notin Int
    BY <2>1, <2>3
  <2> QED
    BY <2>2, <2>3
<1>2. ASSUME NEW j \in 1..Len(g.children)
      PROVE  /\ IrCut(stream, g.children[j])
             /\ IsRange(g.children[j].range)
             /\ g.children[j].range.begin <= g.children[j].range.end
             /\ g.children[j].range.end <= g.range.end
             /\ g.outcome.range.end <= g.children[j].range.begin
             /\ \A l \in 1..j-1 : g.children[l].range.end <= g.children[j].range.begin
  <2>1. j \in 1..Len(f.children) /\ g.children[j].range = f.children[j].range
    OBVIOUS
  <2> QED
    BY <1>1, <2>1 DEF PartsCut
<1>3. ASSUME NEW i \in 1..Len(stream)-1, Holds(stream, g.range, i)
      PROVE  \/ Holds(stream, g.successType, i) \/ Holds(stream, g.declarator, i)
             \/ Holds(stream, g.outcome.range, i)
             \/ \E j \in 1..Len(g.children) : Holds(stream, g.children[j].range, i)
  BY <1>3 DEF PartsCut
<1> QED
  BY <1>2, <1>3 DEF PartsCut

LEMMA ProgramStaysCut ==
  ASSUME NEW stream, NEW nodes, IsList(nodes), ProgramCut(stream, nodes),
         NEW k \in 1..Len(nodes), NEW node, node.range = nodes[k].range, PartsCut(stream, node)
  PROVE  ProgramCut(stream, [nodes EXCEPT ![k] = node])
<1> DEFINE new == [nodes EXCEPT ![k] = node]
<1>1. /\ Len(new) = Len(nodes) /\ new[k] = node
      /\ \A l \in 1..Len(nodes) : l # k => new[l] = nodes[l]
  BY NodeReplaced
<1> HIDE DEF new
<1>2. \A l \in 1..Len(nodes) : new[l].range = nodes[l].range
  BY <1>1
<1>3. ASSUME NEW l \in 1..Len(new)
      PROVE  /\ Aligned(stream, new[l].range) /\ IsRange(new[l].range)
             /\ new[l].kind = "FailureAwareFunction" => PartsCut(stream, new[l])
  <2>1. l \in 1..Len(nodes) /\ new[l].range = nodes[l].range
    BY <1>1, <1>2
  <2>2. Aligned(stream, new[l].range) /\ IsRange(new[l].range)
    BY <2>1 DEF ProgramCut
  <2>3. l # k /\ new[l].kind = "FailureAwareFunction" => PartsCut(stream, new[l])
    BY <1>1, <2>1 DEF ProgramCut
  <2> QED
    BY <1>1, <2>2, <2>3
<1>4. ASSUME NEW i \in 1..Len(stream)-1
      PROVE  \E j \in 1..Len(new) : \A l \in 1..Len(new) : Holds(stream, new[l].range, i) <=> l = j
  <2>1. PICK j \in 1..Len(nodes) : \A l \in 1..Len(nodes) : Holds(stream, nodes[l].range, i) <=> l = j
    BY DEF ProgramCut
  <2>2. 1..Len(new) = 1..Len(nodes)
    BY <1>1
  <2>3. \A l \in 1..Len(new) : Holds(stream, new[l].range, i) <=> l = j
    BY <1>2, <2>1, <2>2
  <2> QED
    BY <2>1, <2>2, <2>3
<1>5. ProgramCut(stream, new)
  BY <1>3, <1>4 DEF ProgramCut
<1> QED
  BY <1>5 DEF new

LEMMA LowerKeepsCuts ==
  ASSUME CallInv, IrInv, Lower
  PROVE  IrInv'
<1> DEFINE f == program[child]
<1>1. /\ stage = "lower" /\ stage' = "lower" /\ LoweringStage!Next
      /\ IsProgram(program) /\ IsList(program) /\ Len(program) \in Nat /\ LoweringAt
      /\ ProgramCut(tokens, program)
  BY DEF Lower, controlVars, CallInv, ProgramInv, IrInv, IsProgram, IsList
<1>2. tokens' = tokens
  BY <1>1 DEF LoweringStage!Next, LoweringStage!LowerNode, LoweringStage!RefuseVoidFunction,
     LoweringStage!BeginFunction, LoweringStage!NumberInitialization,
     LoweringStage!MarkLowered, LoweringStage!FinishLowering
<1>3. ASSUME ProgramCut(tokens, program') PROVE IrInv'
  BY <1>1, <1>2, <1>3 DEF IrInv
<1>4. CASE \/ LoweringStage!LowerNode \/ LoweringStage!RefuseVoidFunction
           \/ LoweringStage!BeginFunction \/ LoweringStage!FinishLowering
  <2>1. program' = program
    BY <1>4 DEF LoweringStage!LowerNode, LoweringStage!RefuseVoidFunction,
       LoweringStage!BeginFunction, LoweringStage!FinishLowering
  <2> QED
    BY <1>1, <1>3, <2>1
<1>5. CASE LoweringStage!NumberInitialization
  <2> DEFINE body == f.children
             old == body[bodyChild]
             node == LoweringStage!Numbered(old, LoweringStage!FreshId(f.range))
             nodes == [body EXCEPT ![bodyChild] = node]
             g == [f EXCEPT !.children = nodes]
  <2>1. /\ lowering = "numbering" /\ child <= Len(program) /\ bodyChild <= Len(body)
        /\ \/ /\ old.kind = "TryInitialization"
              /\ program' = [program EXCEPT ![child] = g]
           \/ program' = program
    BY <1>5 DEF LoweringStage!NumberInitialization, LoweringStage!InFunction
  <2>2. child \in 1..Len(program) /\ f.kind = "FailureAwareFunction" /\ IsIrFunction(f)
        /\ PartsCut(tokens, f) /\ bodyChild \in 1..Len(body)
    <3>1. child \in 1..Len(program) /\ f.kind = "FailureAwareFunction" /\ IsIrFunction(f)
      BY <1>1, <2>1 DEF LoweringAt, IsProgram
    <3>2. Len(f.children) \in Nat /\ bodyChild \in 1..Len(f.children)+1
      BY <1>1, <2>1, <3>1 DEF LoweringAt, IsIrFunction, IsList
    <3>3. PartsCut(tokens, f)
      BY <1>1, <3>1 DEF ProgramCut
    <3> QED
      BY <2>1, <3>1, <3>2, <3>3
  <2>3. old.kind = "TryInitialization" => node.range = old.range /\ IrCut(tokens, node)
    <3>1. IrCut(tokens, old)
      BY <2>2 DEF PartsCut
    <3>2. node.kind = "TryInitialization" /\ node.declaration = old.declaration
          /\ node.propagation = old.propagation /\ node.range = old.range
      BY DEF LoweringStage!Numbered
    <3> HIDE DEF node, old
    <3> QED
      BY <3>1, <3>2 DEF IrCut
  <2>4. IsList(body) /\ \A j \in 1..Len(body) : IrCut(tokens, body[j])
    BY <2>2 DEF IsIrFunction, PartsCut
  <2>5. /\ g.range = f.range /\ g.successType = f.successType
        /\ g.declarator = f.declarator /\ g.outcome = f.outcome /\ g.children = nodes
    <3> HIDE DEF nodes
    <3> QED
      BY <2>2 DEF IsIrFunction, IrFunctionFields
  <2> HIDE DEF node, old, g
  <2>6. ASSUME old.kind = "TryInitialization" PROVE PartsCut(tokens, g)
    <3>1. /\ Len(nodes) = Len(body) /\ nodes[bodyChild] = node
          /\ \A l \in 1..Len(body) : l # bodyChild => nodes[l] = body[l]
      <4> HIDE DEF body
      <4> QED
        BY <2>2, <2>4, NodeReplaced
    <3> HIDE DEF nodes
    <3>2. \A j \in 1..Len(body) : nodes[j].range = body[j].range /\ IrCut(tokens, nodes[j])
      BY <2>3, <2>4, <2>6, <3>1 DEF old
    <3> HIDE DEF f
    <3> QED
      BY <2>2, <2>5, <3>1, <3>2, PartsStayCut
  <2>7. old.kind = "TryInitialization" => ProgramCut(tokens, [program EXCEPT ![child] = g])
    <3> HIDE DEF nodes
    <3> QED
      BY <1>1, <2>2, <2>5, <2>6, ProgramStaysCut
  <2> HIDE DEF nodes
  <2> QED
    BY <1>1, <1>3, <2>1, <2>7
<1>6. CASE LoweringStage!MarkLowered
  <2> DEFINE g == [f EXCEPT !.lowered = TRUE]
  <2>1. /\ lowering = "numbering"
        /\ child <= Len(program) /\ program' = [program EXCEPT ![child] = g]
    BY <1>6 DEF LoweringStage!MarkLowered, LoweringStage!InFunction
  <2>2. child \in 1..Len(program) /\ IsIrFunction(f) /\ PartsCut(tokens, f)
    <3>1. child \in 1..Len(program) /\ f.kind = "FailureAwareFunction"
      BY <1>1, <2>1 DEF LoweringAt
    <3> QED
      BY <1>1, <3>1 DEF IsProgram, ProgramCut
  <2>3. /\ g.range = f.range /\ g.successType = f.successType
        /\ g.declarator = f.declarator /\ g.outcome = f.outcome /\ g.children = f.children
    <3> HIDE DEF f
    <3> QED
      BY <2>2 DEF IsIrFunction, IrFunctionFields
  <2> HIDE DEF g
  <2>4. PartsCut(tokens, g)
    <3>1. \A j \in 1..Len(f.children) : IrCut(tokens, f.children[j])
      BY <2>2 DEF PartsCut
    <3> HIDE DEF f
    <3> QED
      BY <2>2, <2>3, <3>1, PartsStayCut
  <2>5. ProgramCut(tokens, program')
    BY <1>1, <2>1, <2>2, <2>3, <2>4, ProgramStaysCut
  <2> QED
    BY <1>3, <2>5
<1> QED
  BY <1>1, <1>4, <1>5, <1>6 DEF LoweringStage!Next

LEMMA InitHasCuts == Init => CutsInv /\ IrInv
BY InitIsCut DEF Init, IrInv

LEMMA CutsAreKeptInCall == IInv /\ TreeInv /\ RangesInv /\ CutsInv /\ [Next]_vars => CutsInv'
BY ParserRunsAlone, CutsAreKept, CutsStay

LEMMA IrIsKept ==
  CallInv /\ RangesInv /\ SourcesInv /\ CutsInv /\ IrInv /\ [Next]_vars => IrInv'
<1> SUFFICES ASSUME CallInv, RangesInv, SourcesInv, CutsInv, IrInv, [Next]_vars PROVE IrInv'
  OBVIOUS
<1>1. /\ workVars' = workVars => UNCHANGED <<program, tokens, unit, construction, irFunction, child, bodyChild>>
      /\ SInv
  BY DEF workVars, cursor, irVars, parserVars, CallInv, RInv
<1>2. CASE BuildIr
  BY <1>2, BuildKeepsCuts
<1>3. CASE Lower
  BY <1>3, LowerKeepsCuts
<1>4. CASE Emit
  <2>1. stage = "emit" /\ stage' = "emit"
    BY <1>4 DEF Emit, controlVars
  <2>2. UNCHANGED <<tokens, program>>
    BY <1>4, Zenon DEF Emit, Emission!Next, Emission!EmitSupport, Emission!EmitTopLevel,
       Emission!EnterFunction, Emission!EmitBodyChild, Emission!LeaveFunction,
       Emission!FinishEmission
  <2> QED
    BY <2>1, <2>2 DEF IrInv
<1>5. CASE FinishAnalyzing
  <2>1. /\ stage = "analyze" /\ stage' \in {"build", "done"} /\ workVars' = workVars
        /\ analysis \in {"accepted", "rejected"}
    BY <1>5 DEF FinishAnalyzing, Proceed, Refuse, MakeResult
  <2>2. child = 1 /\ construction = "building" /\ program = <<>>
    BY <1>1, <2>1 DEF SourcesInv, SInv, CallInv, ProgramInv
  <2>3. program' = <<>> /\ construction' = "building" /\ child' = 1
    BY <1>1, <2>1, <2>2
  <2>4. Len(<<>>) = 1 - 1 /\ 1..Len(<<>>) = {}
    BY EmptyList
  <2> QED
    BY <2>1, <2>3, <2>4 DEF IrInv
<1>6. CASE FinishBuilding
  <2>1. /\ stage = "build" /\ workVars' = workVars /\ stage' \in {"lower", "done"}
        /\ stage' = "lower" => construction = "built"
    BY <1>6 DEF FinishBuilding, Proceed, Refuse, MakeResult
  <2> QED
    BY <1>1, <2>1 DEF IrInv
<1>7. CASE FinishLowering
  <2>1. stage = "lower" /\ workVars' = workVars /\ stage' \in {"emit", "done"}
    BY <1>7 DEF FinishLowering, Proceed, Refuse, MakeResult
  <2> QED
    BY <1>1, <2>1 DEF IrInv
<1>8. CASE Lex \/ FinishLexing \/ Parse \/ FinishParsing \/ Analyze \/ FinishEmitting
  <2>1. stage' \notin {"build", "lower", "emit"}
    BY <1>8 DEF Lex, FinishLexing, Parse, FinishParsing, Analyze, FinishEmitting, Proceed, Refuse,
       MakeResult, controlVars
  <2> QED
    BY <2>1 DEF IrInv
<1>9. CASE UNCHANGED vars
  <2>1. UNCHANGED <<stage, program, tokens, unit, construction, irFunction, child, bodyChild>>
    BY <1>1, <1>9 DEF vars, controlVars
  <2> QED
    BY <2>1 DEF IrInv
<1> QED
  BY <1>2, <1>3, <1>4, <1>5, <1>6, <1>7, <1>8, <1>9 DEF Next, Process, Returned

-----------------------------------------------------------------------------
(* Where the source map traces a token to.                                 *)

\* One unit of the output stands for the first byte of a token, as one entry of
\* the source map tells.
CopyAt(stream, index, entry, output, offset) ==
  /\ entry.begin <= offset - 1 /\ offset - 1 < entry.end
  /\ entry.end - entry.begin = entry.original.end - entry.original.begin
  /\ offset - 1 - entry.begin = stream[index].begin - entry.original.begin
  /\ output[offset] = stream[index].text

NotCopied(stream, index, e) ==
  \A k \in 1..Len(e.sourceMap), offset \in 1..Len(e.output) :
    ~CopyAt(stream, index, e.sourceMap[k], e.output, offset)

CopiedOnce(stream, index, e) ==
  \E at \in 1..Len(e.sourceMap), to \in 1..Len(e.output) :
    \A k \in 1..Len(e.sourceMap), offset \in 1..Len(e.output) :
      CopyAt(stream, index, e.sourceMap[k], e.output, offset) <=> k = at /\ offset = to

\* A piece copies the token: its text and its range are equally long, and the
\* token is where it stands in the range.
Touches(stream, index, piece) ==
  /\ 0 <= piece.original.begin
  /\ Len(piece.text) = piece.original.end - piece.original.begin
  /\ \E t \in 1..Len(piece.text) :
       /\ t - 1 = stream[index].begin - piece.original.begin
       /\ piece.text[t] = stream[index].text

Writable(piece) == IsList(piece.text) /\ IsRange(piece.original)

\* An emitter whose entries lie within its output.
EmitterMapped(e) ==
  /\ EmitterGood(e) /\ IsList(e.sourceMap)
  /\ \A k \in 1..Len(e.sourceMap) :
       LET entry == e.sourceMap[k]
       IN  entry.begin \in Nat /\ entry.end \in Nat /\ entry.end <= Len(e.output)

\* What one write does to the output and to the source map.
LEMMA OneWrite ==
  ASSUME NEW e, EmitterMapped(e), NEW piece, Writable(piece)
  PROVE  /\ EmitterGood(WriteOne(e, piece))
         /\ WriteOne(e, piece).output = e.output \o piece.text
         /\ WriteOne(e, piece).sourceMap =
              IF /\ 0 <= piece.original.begin /\ piece.original.begin <= piece.original.end
                 /\ piece.text # <<>>
              THEN e.sourceMap \o <<[begin |-> Len(e.output),
                                     end |-> Len(e.output) + Len(piece.text),
                                     original |-> piece.original]>>
              ELSE e.sourceMap
<1> DEFINE mapped == Emission!Mapped(e, piece.text, piece.original)
           g == WriteOne(e, piece)
           entry == [begin |-> Len(e.output), end |-> Len(e.output) + Len(piece.text),
                     original |-> piece.original]
<1>1. DOMAIN g = {"output", "sourceMap", "indentation"}
      /\ g.output = e.output \o piece.text /\ g.sourceMap = mapped
  BY DEF EmitterMapped, EmitterGood, WriteOne, Emission!Write
<1>2. EmitterGood(g)
  BY WriteOneIsGood DEF EmitterMapped, Writable
<1>3. /\ entry.begin = Len(e.output) /\ entry.end = Len(e.output) + Len(piece.text)
      /\ entry.original = piece.original /\ Len(e.output) \in Nat /\ Len(piece.text) \in Nat
  BY DEF EmitterMapped, EmitterGood, Writable, IsList
<1>4. mapped = IF ~(0 <= piece.original.begin /\ piece.original.begin <= piece.original.end)
                  \/ piece.text = <<>>
               THEN e.sourceMap ELSE Emission!Add(e.sourceMap, entry)
  BY DEF Emission!Mapped, Emission!ValidRange, Emission!MapEntry
<1> HIDE DEF mapped, g, entry
<1>5. ASSUME 0 <= piece.original.begin, piece.original.begin <= piece.original.end
      PROVE  Emission!Add(e.sourceMap, entry) = e.sourceMap \o <<entry>>
  <2>1. Emission!ValidEntry(entry)
    <3>3. ASSUME NEW m \in Nat, NEW n \in Nat PROVE m <= m + n
      OBVIOUS
    <3>4. Len(e.output) <= Len(e.output) + Len(piece.text)
      BY <1>3, <3>3
    <3>1. entry.begin <= entry.end
      BY <1>3, <3>4
    <3>2. Emission!ValidRange(entry.original)
      BY <1>3, <1>5 DEF Emission!ValidRange
    <3> QED
      BY <3>1, <3>2 DEF Emission!ValidEntry
  <2>2. e.sourceMap = <<>> \/ e.sourceMap[Len(e.sourceMap)].end <= entry.begin
    <3>1. e.sourceMap # <<>> => Len(e.sourceMap) \in 1..Len(e.sourceMap)
      BY DEF EmitterMapped, IsList
    <3> QED
      BY <1>3, <3>1 DEF EmitterMapped
  <2>3. Emission!Accepts(e.sourceMap, entry)
    BY <2>1, <2>2 DEF Emission!Accepts
  <2>4. Emission!Add(e.sourceMap, entry) = Append(e.sourceMap, entry)
    BY <2>3 DEF Emission!Add
  <2> QED
    BY <2>4, AppendIsConcat DEF EmitterMapped, IsList
<1> QED
  BY <1>1, <1>2, <1>4, <1>5 DEF g, entry

\* A unit of the output is where it was after a write, and the units after it
\* are those of the piece.
LEMMA WriteKeepsUnits ==
  ASSUME NEW e, EmitterMapped(e), NEW piece, Writable(piece)
  PROVE  /\ Len(e.output) \in Nat /\ Len(piece.text) \in Nat
         /\ Len(WriteOne(e, piece).output) = Len(e.output) + Len(piece.text)
         /\ \A offset \in 1..Len(e.output) :
              WriteOne(e, piece).output[offset] = e.output[offset]
         /\ \A t \in 1..Len(piece.text) :
              WriteOne(e, piece).output[Len(e.output) + t] = piece.text[t]
<1> DEFINE output == e.output
           text == piece.text
           new == WriteOne(e, piece).output
<1>1. IsList(output) /\ IsList(text) /\ new = output \o text
  BY OneWrite DEF EmitterMapped, EmitterGood, Writable
<1> HIDE DEF output, text, new
<1>2. /\ Len(output) \in Nat /\ Len(text) \in Nat
      /\ Len(new) = Len(output) + Len(text)
      /\ \A offset \in 1..Len(output) : new[offset] = output[offset]
      /\ \A t \in 1..Len(text) : new[Len(output) + t] = text[t]
  BY <1>1, ConcatOfLists
<1> QED
  BY <1>2 DEF output, text, new

LEMMA WriteKeepsMapping ==
  ASSUME NEW e, EmitterMapped(e), NEW piece, Writable(piece)
  PROVE  EmitterMapped(WriteOne(e, piece))
<1> DEFINE g == WriteOne(e, piece)
           entry == [begin |-> Len(e.output), end |-> Len(e.output) + Len(piece.text),
                     original |-> piece.original]
<1>1. /\ EmitterGood(g)
      /\ g.sourceMap = e.sourceMap \/ g.sourceMap = e.sourceMap \o <<entry>>
  BY OneWrite
<1> DEFINE n == Len(e.output)
           m == Len(piece.text)
<1>2. n \in Nat /\ m \in Nat /\ Len(g.output) = n + m
  BY WriteKeepsUnits
<1>3. entry.begin = n /\ entry.end = n + m
  OBVIOUS
<1>8. \A k \in 1..Len(e.sourceMap) :
        e.sourceMap[k].begin \in Nat /\ e.sourceMap[k].end \in Nat /\ e.sourceMap[k].end <= n
  BY DEF EmitterMapped
<1> HIDE DEF g, entry, n, m
<1>4. \A k \in 1..Len(e.sourceMap) :
        /\ e.sourceMap[k].begin \in Nat /\ e.sourceMap[k].end \in Nat
        /\ e.sourceMap[k].end <= Len(g.output)
  BY <1>2, <1>8
<1>5. entry.begin \in Nat /\ entry.end \in Nat /\ entry.end <= Len(g.output)
  BY <1>2, <1>3
<1>6. ASSUME g.sourceMap = e.sourceMap PROVE EmitterMapped(g)
  BY <1>1, <1>4, <1>6 DEF EmitterMapped
<1>7. ASSUME g.sourceMap = e.sourceMap \o <<entry>> PROVE EmitterMapped(g)
  <2> DEFINE new == e.sourceMap \o <<entry>>
  <2>1. /\ IsList(new) /\ Len(e.sourceMap) \in Nat /\ Len(new) = Len(e.sourceMap) + 1
        /\ \A k \in 1..Len(e.sourceMap) : new[k] = e.sourceMap[k]
        /\ new[Len(e.sourceMap) + 1] = entry
    BY PushedElement DEF EmitterMapped
  <2> HIDE DEF new
  <2>2. \A k \in 1..Len(new) : k \in 1..Len(e.sourceMap) \/ k = Len(e.sourceMap) + 1
    BY <2>1
  <2>3. \A k \in 1..Len(new) :
          new[k].begin \in Nat /\ new[k].end \in Nat /\ new[k].end <= Len(g.output)
    BY <1>4, <1>5, <2>1, <2>2
  <2> QED
    BY <1>1, <1>7, <2>1, <2>3 DEF EmitterMapped, new
<1> QED
  BY <1>1, <1>6, <1>7 DEF g, entry

\* The entries there were copy what they copied.
LEMMA OldCopiesStay ==
  ASSUME NEW stream, NEW index, NEW e, EmitterMapped(e), NEW piece, Writable(piece),
         NEW k \in 1..Len(e.sourceMap), NEW offset \in 1..Len(WriteOne(e, piece).output)
  PROVE  CopyAt(stream, index, e.sourceMap[k], WriteOne(e, piece).output, offset)
           <=> /\ offset \in 1..Len(e.output)
               /\ CopyAt(stream, index, e.sourceMap[k], e.output, offset)
<1> DEFINE entry == e.sourceMap[k]
           n == Len(e.output)
           output == WriteOne(e, piece).output
<1>1. n \in Nat /\ Len(output) \in Nat /\ \A o \in 1..n : output[o] = e.output[o]
  <2>1. n \in Nat /\ Len(piece.text) \in Nat /\ Len(output) = n + Len(piece.text)
        /\ \A o \in 1..n : output[o] = e.output[o]
    BY WriteKeepsUnits
  <2> HIDE DEF output, n
  <2> QED
    BY <2>1
<1>2. entry.end \in Nat /\ entry.end <= n
  BY DEF EmitterMapped
<1>3. offset \in 1..Len(output)
  OBVIOUS
<1> HIDE DEF entry, n, output
<1>4. offset \in Nat \ {0} /\ (offset - 1 < entry.end => offset \in 1..n)
  BY <1>1, <1>2, <1>3
<1>5. CopyAt(stream, index, entry, output, offset)
        <=> offset \in 1..n /\ CopyAt(stream, index, entry, e.output, offset)
  BY <1>1, <1>4 DEF CopyAt
<1> QED
  BY <1>5 DEF entry, n, output

\* The entry that is added copies the token if the piece does, at one offset.
LEMMA NewCopies ==
  ASSUME NEW stream, NEW index, stream[index].begin \in Nat,
         NEW e, EmitterMapped(e), NEW piece, Writable(piece), NEW entry,
         entry.begin = Len(e.output), entry.end = Len(e.output) + Len(piece.text),
         entry.original = piece.original, 0 <= piece.original.begin
  PROVE  /\ ~Touches(stream, index, piece) =>
              \A offset \in 1..Len(WriteOne(e, piece).output) :
                ~CopyAt(stream, index, entry, WriteOne(e, piece).output, offset)
         /\ Touches(stream, index, piece) =>
              \E to \in 1..Len(WriteOne(e, piece).output) :
                \A offset \in 1..Len(WriteOne(e, piece).output) :
                  CopyAt(stream, index, entry, WriteOne(e, piece).output, offset)
                    <=> offset = to
<1> DEFINE n == Len(e.output)
           m == Len(piece.text)
           output == WriteOne(e, piece).output
           b == piece.original.begin
           z == piece.original.end
           s == stream[index].begin
           Here(t) == t - 1 = s - b /\ piece.text[t] = stream[index].text
<1>1. /\ n \in Nat /\ m \in Nat /\ Len(output) = n + m
      /\ \A t \in 1..m : output[n + t] = piece.text[t]
  BY WriteKeepsUnits
<1>2. b \in Int /\ z \in Int /\ 0 <= b /\ s \in Nat
  BY DEF Writable, IsRange
<1>3. entry.begin = n /\ entry.end = n + m /\ entry.original.begin = b /\ entry.original.end = z
  OBVIOUS
<1>4. Touches(stream, index, piece) <=> m = z - b /\ \E t \in 1..m : Here(t)
  BY <1>2 DEF Touches
<1>5. SUFFICES
        /\ ~(m = z - b /\ \E t \in 1..m : Here(t)) =>
             \A o \in 1..n+m : ~CopyAt(stream, index, entry, output, o)
        /\ m = z - b /\ (\E t \in 1..m : Here(t)) =>
             \E to \in 1..n+m : \A o \in 1..n+m :
               CopyAt(stream, index, entry, output, o) <=> o = to
  <2>1. 1..Len(output) = 1..n+m
    BY <1>1
  <2> DEFINE copied == m = z - b /\ \E t \in 1..m : Here(t)
             C(o) == CopyAt(stream, index, entry, output, o)
  <2>2. Touches(stream, index, piece) <=> copied
    BY <1>4
  <2>3. /\ ~copied => \A o \in 1..n+m : ~C(o)
        /\ copied => \E to \in 1..n+m : \A o \in 1..n+m : C(o) <=> o = to
    OBVIOUS
  <2> HIDE DEF copied, C, m, n
  <2>4. /\ ~copied => \A o \in 1..Len(output) : ~C(o)
        /\ copied => \E to \in 1..Len(output) : \A o \in 1..Len(output) : C(o) <=> o = to
    BY <2>1, <2>3
  <2> HIDE DEF output
  <2> QED
    BY <2>2, <2>4 DEF C, output
<1> HIDE DEF n, m, output, b, z, s
<1>6. ASSUME NEW o \in 1..n+m
      PROVE  CopyAt(stream, index, entry, output, o)
               <=> o - n \in 1..m /\ m = z - b /\ Here(o - n)
  <2>1. /\ (n <= o - 1 /\ o - 1 < n + m) <=> o - n \in 1..m
        /\ (n + m) - n = m /\ (o - 1) - n = (o - n) - 1 /\ n + (o - n) = o
    BY <1>1
  <2>2. CopyAt(stream, index, entry, output, o)
          <=> /\ n <= o - 1 /\ o - 1 < n + m /\ (n + m) - n = z - b
              /\ (o - 1) - n = s - b /\ output[o] = stream[index].text
    BY <1>3 DEF CopyAt, s
  <2>3. o - n \in 1..m => output[o] = piece.text[o - n]
    <3>1. o - n \in 1..m => output[n + (o - n)] = piece.text[o - n]
      BY <1>1
    <3> QED
      BY <2>1, <3>1
  <2> QED
    BY <2>1, <2>2, <2>3
<1>7. \A t, u \in 1..m : Here(t) /\ Here(u) => t = u
  BY <1>1, <1>2
<1> HIDE DEF Here
<1>8. ASSUME ~(m = z - b /\ \E t \in 1..m : Here(t))
      PROVE  \A o \in 1..n+m : ~CopyAt(stream, index, entry, output, o)
  BY <1>6, <1>8
<1>9. ASSUME m = z - b, NEW t \in 1..m, Here(t)
      PROVE  \E to \in 1..n+m : \A o \in 1..n+m :
               CopyAt(stream, index, entry, output, o) <=> o = to
  <2>1. n + t \in 1..n+m /\ (n + t) - n = t
    BY <1>1
  <2>2. ASSUME NEW o \in 1..n+m PROVE CopyAt(stream, index, entry, output, o) <=> o = n + t
    <3>1. o - n = t => o = n + t
      BY <1>1
    <3>2. o - n \in 1..m /\ Here(o - n) => o - n = t
      BY <1>7, <1>9
    <3> QED
      BY <1>6, <1>9, <2>1, <3>1, <3>2
  <2> QED
    BY <2>1, <2>2
<1> QED
  BY <1>8, <1>9

\* One write copies the token if the piece does, and copies nothing else of it.
LEMMA WriteOneCopies ==
  ASSUME NEW stream, NEW index, stream[index].begin \in Nat,
         NEW e, EmitterMapped(e), NEW piece, Writable(piece)
  PROVE  /\ ~Touches(stream, index, piece) =>
              /\ NotCopied(stream, index, e) => NotCopied(stream, index, WriteOne(e, piece))
              /\ CopiedOnce(stream, index, e) => CopiedOnce(stream, index, WriteOne(e, piece))
         /\ Touches(stream, index, piece) /\ NotCopied(stream, index, e) =>
              CopiedOnce(stream, index, WriteOne(e, piece))
<1> DEFINE g == WriteOne(e, piece)
           old == e.sourceMap
           entry == [begin |-> Len(e.output), end |-> Len(e.output) + Len(piece.text),
                     original |-> piece.original]
           valid == /\ 0 <= piece.original.begin /\ piece.original.begin <= piece.original.end
                    /\ piece.text # <<>>
           C(k, o) == CopyAt(stream, index, old[k], e.output, o)
           D(k, o) == CopyAt(stream, index, g.sourceMap[k], g.output, o)
           touches == Touches(stream, index, piece)
           n == Len(old)
           m == Len(g.output)
<1>1. g.sourceMap = IF valid THEN old \o <<entry>> ELSE old
  BY OneWrite
<1>2. Len(e.output) \in Nat /\ m \in Nat /\ n \in Nat /\ Len(e.output) <= m
  <2>1. Len(e.output) \in Nat /\ Len(piece.text) \in Nat /\ m = Len(e.output) + Len(piece.text)
    BY WriteKeepsUnits
  <2>2. n \in Nat
    BY DEF EmitterMapped, IsList
  <2>3. ASSUME NEW i \in Nat, NEW j \in Nat PROVE i <= i + j /\ i + j \in Nat
    OBVIOUS
  <2> HIDE DEF n, m
  <2> QED
    BY <2>1, <2>2, <2>3
<1>3. valid => /\ Len(g.sourceMap) = n + 1 /\ g.sourceMap[n + 1] = entry
               /\ \A k \in 1..n : g.sourceMap[k] = old[k]
  <2>1. IsList(old)
    BY DEF EmitterMapped
  <2> HIDE DEF g, entry, old, valid
  <2> QED
    BY <1>1, <2>1, PushedElement DEF n
<1>4. touches => valid
  <2> SUFFICES ASSUME touches PROVE valid
    OBVIOUS
  <2>1. PICK t \in 1..Len(piece.text) : TRUE
    BY DEF Touches
  <2>2. Len(piece.text) \in Nat /\ piece.text # <<>>
    BY <2>1, EmptyList DEF Writable, IsList
  <2>3. /\ 0 <= piece.original.begin /\ piece.original.begin \in Int /\ piece.original.end \in Int
        /\ Len(piece.text) = piece.original.end - piece.original.begin
    BY DEF Touches, Writable, IsRange
  <2>4. piece.original.begin <= piece.original.end
    BY <2>2, <2>3
  <2> QED
    BY <2>2, <2>3, <2>4
<1>5. ASSUME NEW k \in 1..n, NEW o \in 1..m
      PROVE  D(k, o) <=> o \in 1..Len(e.output) /\ C(k, o)
  <2>1. g.sourceMap[k] = old[k]
    <3> HIDE DEF g, old, valid, entry
    <3> QED
      BY <1>1, <1>3
  <2>2. CopyAt(stream, index, old[k], g.output, o) <=> o \in 1..Len(e.output) /\ C(k, o)
    BY OldCopiesStay
  <2> HIDE DEF g, old
  <2> QED
    BY <2>1, <2>2
<1>6. valid => /\ ~touches => \A o \in 1..m : ~D(n + 1, o)
               /\ touches => \E to \in 1..m : \A o \in 1..m : D(n + 1, o) <=> o = to
  <2> SUFFICES ASSUME valid
               PROVE  /\ ~touches => \A o \in 1..m : ~D(n + 1, o)
                      /\ touches => \E to \in 1..m : \A o \in 1..m : D(n + 1, o) <=> o = to
    OBVIOUS
  <2>1. /\ ~touches => \A o \in 1..m : ~CopyAt(stream, index, entry, g.output, o)
        /\ touches => \E to \in 1..m : \A o \in 1..m :
                        CopyAt(stream, index, entry, g.output, o) <=> o = to
    <3>1. /\ entry.begin = Len(e.output) /\ entry.end = Len(e.output) + Len(piece.text)
          /\ entry.original = piece.original
      OBVIOUS
    <3> HIDE DEF entry
    <3> QED
      BY <3>1, NewCopies
  <2>2. g.sourceMap[n + 1] = entry
    BY <1>3
  <2> HIDE DEF entry, g, n
  <2> QED
    BY <2>1, <2>2
<1> SUFFICES /\ ~touches => /\ NotCopied(stream, index, e) => NotCopied(stream, index, g)
                            /\ CopiedOnce(stream, index, e) => CopiedOnce(stream, index, g)
             /\ touches /\ NotCopied(stream, index, e) => CopiedOnce(stream, index, g)
  OBVIOUS
<1>7. \/ Len(g.sourceMap) = n
      \/ valid /\ Len(g.sourceMap) = n + 1
  <2> HIDE DEF g, old, valid, entry
  <2> QED
    BY <1>1, <1>3 DEF n
<1>8. /\ NotCopied(stream, index, e) <=> \A k \in 1..n, o \in 1..Len(e.output) : ~C(k, o)
      /\ CopiedOnce(stream, index, e) <=>
           \E at \in 1..n, to \in 1..Len(e.output) : \A k \in 1..n, o \in 1..Len(e.output) :
             C(k, o) <=> k = at /\ o = to
      /\ NotCopied(stream, index, g) <=> \A k \in 1..Len(g.sourceMap), o \in 1..m : ~D(k, o)
      /\ CopiedOnce(stream, index, g) <=>
           \E at \in 1..Len(g.sourceMap), to \in 1..m : \A k \in 1..Len(g.sourceMap), o \in 1..m :
             D(k, o) <=> k = at /\ o = to
  BY DEF NotCopied, CopiedOnce
<1>9. \A k \in 1..Len(g.sourceMap) : k \in 1..n \/ (valid /\ k = n + 1)
  <2> HIDE DEF n, g, valid
  <2> QED
    BY <1>2, <1>7
<1>10. \A o \in 1..Len(e.output) : o \in 1..m
  <2> HIDE DEF m
  <2> QED
    BY <1>2
<1>11. \A k \in 1..n : k \in 1..Len(g.sourceMap) /\ k # n + 1
  <2> HIDE DEF n, g, valid
  <2> QED
    BY <1>2, <1>7
<1>12. touches => n + 1 \in 1..Len(g.sourceMap)
  <2>1. touches => Len(g.sourceMap) = n + 1
    BY <1>3, <1>4
  <2> HIDE DEF n, g
  <2> QED
    BY <1>2, <2>1
<1> HIDE DEF g, old, entry, valid, C, D, touches, n, m
<1>13. ASSUME ~touches, NotCopied(stream, index, e) PROVE NotCopied(stream, index, g)
  BY <1>5, <1>6, <1>8, <1>9, <1>13
<1>14. ASSUME ~touches, CopiedOnce(stream, index, e) PROVE CopiedOnce(stream, index, g)
  <2>1. PICK at \in 1..n, to \in 1..Len(e.output) :
          \A k \in 1..n, o \in 1..Len(e.output) : C(k, o) <=> k = at /\ o = to
    BY <1>8, <1>14
  <2>2. at \in 1..Len(g.sourceMap) /\ to \in 1..m
    BY <1>10, <1>11
  <2>3. ASSUME NEW k \in 1..Len(g.sourceMap), NEW o \in 1..m PROVE D(k, o) <=> k = at /\ o = to
    <3>1. CASE k \in 1..n
      BY <1>5, <2>1, <3>1
    <3>2. CASE valid /\ k = n + 1
      BY <1>6, <1>11, <1>14, <3>2
    <3> QED
      BY <1>9, <3>1, <3>2
  <2> QED
    BY <1>8, <2>2, <2>3
<1>15. ASSUME touches, NotCopied(stream, index, e) PROVE CopiedOnce(stream, index, g)
  <2>1. PICK to \in 1..m : \A o \in 1..m : D(n + 1, o) <=> o = to
    BY <1>4, <1>6, <1>15
  <2>2. ASSUME NEW k \in 1..Len(g.sourceMap), NEW o \in 1..m
        PROVE  D(k, o) <=> k = n + 1 /\ o = to
    <3>1. CASE k \in 1..n
      BY <1>5, <1>8, <1>11, <1>15, <3>1
    <3>2. CASE k = n + 1
      BY <2>1, <3>2
    <3> QED
      BY <1>9, <3>1, <3>2
  <2> QED
    BY <1>8, <1>12, <1>15, <2>2
<1> QED
  BY <1>13, <1>14, <1>15

\* What the first writes of several have copied of the token.
CopiedSoFar(stream, index, e, pieces, to, state) ==
  /\ EmitterMapped(state)
  /\ NotCopied(stream, index, e) =>
       IF \E k \in 1..to : Touches(stream, index, pieces[k])
       THEN CopiedOnce(stream, index, state)
       ELSE NotCopied(stream, index, state)
  /\ CopiedOnce(stream, index, e) /\ (\A k \in 1..to : ~Touches(stream, index, pieces[k])) =>
       CopiedOnce(stream, index, state)

\* Several writes copy the token once if one of the pieces does, and not
\* otherwise.
LEMMA WrittenCopies ==
  ASSUME NEW stream, NEW index, stream[index].begin \in Nat,
         NEW e, EmitterMapped(e),
         NEW pieces, IsList(pieces), \A k \in 1..Len(pieces) : Writable(pieces[k]),
         \A k, l \in 1..Len(pieces) :
           Touches(stream, index, pieces[k]) /\ Touches(stream, index, pieces[l]) => k = l
  PROVE  CopiedSoFar(stream, index, e, pieces, Len(pieces), Written(e, pieces))
<1>1. Len(pieces) \in Nat
  BY DEF IsList
<1>2. PICK w : Turns(w, e, pieces)
  BY WritesInTurn
<1>3. /\ w[0] = e
      /\ \A k \in 1..Len(pieces) : w[k] = WriteOne(w[k-1], pieces[k])
      /\ Written(e, pieces) = w[Len(pieces)]
  BY <1>2 DEF Turns
<1> DEFINE T(k) == Touches(stream, index, pieces[k])
           Holding(k) == CopiedSoFar(stream, index, e, pieces, k, w[k])
           bad == {k \in 0..Len(pieces) : ~Holding(k)}
<1>4. Holding(0)
  BY <1>3 DEF CopiedSoFar
<1>5. ASSUME NEW k \in 1..Len(pieces), Holding(k-1) PROVE Holding(k)
  <2>1. /\ EmitterMapped(w[k-1]) /\ Writable(pieces[k]) /\ w[k] = WriteOne(w[k-1], pieces[k])
    BY <1>3, <1>5 DEF CopiedSoFar
  <2>2. EmitterMapped(w[k])
    BY <2>1, WriteKeepsMapping
  <2>3. /\ ~T(k) => /\ NotCopied(stream, index, w[k-1]) => NotCopied(stream, index, w[k])
                    /\ CopiedOnce(stream, index, w[k-1]) => CopiedOnce(stream, index, w[k])
        /\ T(k) /\ NotCopied(stream, index, w[k-1]) => CopiedOnce(stream, index, w[k])
    BY <2>1, WriteOneCopies
  <2>4. /\ NotCopied(stream, index, e) =>
             IF \E l \in 1..k-1 : T(l)
             THEN CopiedOnce(stream, index, w[k-1]) ELSE NotCopied(stream, index, w[k-1])
        /\ CopiedOnce(stream, index, e) /\ (\A l \in 1..k-1 : ~T(l)) =>
             CopiedOnce(stream, index, w[k-1])
    BY <1>5 DEF CopiedSoFar
  <2>5. /\ \A l \in 1..k : l \in 1..k-1 \/ l = k
        /\ \A l \in 1..k-1 : l \in 1..k /\ l \in 1..Len(pieces) /\ l # k
        /\ k \in 1..k
    BY <1>1
  <2>6. T(k) => \A l \in 1..k-1 : ~T(l)
    BY <2>5
  <2> HIDE DEF T
  <2>7. NotCopied(stream, index, e) =>
          IF \E l \in 1..k : T(l)
          THEN CopiedOnce(stream, index, w[k]) ELSE NotCopied(stream, index, w[k])
    <3> SUFFICES ASSUME NotCopied(stream, index, e)
                 PROVE  IF \E l \in 1..k : T(l)
                        THEN CopiedOnce(stream, index, w[k]) ELSE NotCopied(stream, index, w[k])
      OBVIOUS
    <3>1. CASE T(k)
      <4>1. NotCopied(stream, index, w[k-1])
        BY <2>4, <2>6, <3>1
      <4> QED
        BY <2>3, <2>5, <3>1, <4>1
    <3>2. CASE ~T(k)
      <4>1. (\E l \in 1..k : T(l)) <=> \E l \in 1..k-1 : T(l)
        BY <2>5, <3>2
      <4> QED
        BY <2>3, <2>4, <3>2, <4>1
    <3> QED
      BY <3>1, <3>2
  <2>8. CopiedOnce(stream, index, e) /\ (\A l \in 1..k : ~T(l)) => CopiedOnce(stream, index, w[k])
    BY <2>3, <2>4, <2>5
  <2> QED
    BY <2>2, <2>7, <2>8 DEF CopiedSoFar, T
<1>6. bad = {}
  <2> SUFFICES ASSUME bad # {} PROVE FALSE
    OBVIOUS
  <2> HIDE DEF Holding
  <2>1. bad \in SUBSET Nat
    OBVIOUS
  <2>2. Min(bad) \in bad /\ \A k \in bad : Min(bad) <= k
    <3> HIDE DEF bad
    <3> QED
      BY <2>1, MinOfNaturals
  <2>3. PICK k \in 0..Len(pieces) : k = Min(bad)
    BY <2>2
  <2>4. k # 0
    BY <1>4, <2>2, <2>3
  <2>5. k \in 1..Len(pieces) /\ k - 1 \in 0..Len(pieces)
    BY <1>1, <2>4
  <2>6. k - 1 \notin bad
    <3>1. \A l \in bad : k <= l
      BY <2>2, <2>3
    <3> HIDE DEF bad
    <3> QED
      BY <2>5, <3>1
  <2>7. Holding(k-1)
    BY <2>5, <2>6
  <2>8. Holding(k)
    BY <1>5, <2>5, <2>7
  <2> QED
    BY <2>2, <2>3, <2>8
<1>7. Len(pieces) \in 0..Len(pieces)
  BY <1>1
<1> HIDE DEF Holding
<1>8. Holding(Len(pieces))
  BY <1>6, <1>7
<1> QED
  BY <1>3, <1>8 DEF Holding

-----------------------------------------------------------------------------
(* Which token the pieces of the backend copy.                             *)

LEMMA UnitOfToken ==
  ASSUME IsTokenStream(tokens), NEW i \in 1..Len(tokens)-1
  PROVE  Emission!SourceUnit(tokens[i].begin) = tokens[i].text
<1> DEFINE s == tokens[i].begin
           at == {j \in 1..Len(tokens) : tokens[j].begin <= s /\ s < tokens[j].end}
<1>1. i \in 1..Len(tokens) /\ i < Len(tokens) /\ Len(tokens) \in Nat
  BY StreamFacts
<1>2. s \in Nat /\ s < tokens[i].end
  BY <1>1, StreamFacts
<1>3. ASSUME NEW j \in 1..Len(tokens), tokens[j].begin <= s, s < tokens[j].end PROVE j = i
  <2>1. /\ tokens[j].begin \in Nat /\ tokens[j].end \in Nat /\ tokens[i].end \in Nat
        /\ j < i => tokens[j].end <= s
        /\ i < j => tokens[i].end <= tokens[j].begin
    BY <1>1, StreamFacts
  <2> HIDE DEF s
  <2>2. ~(j < i) /\ ~(i < j)
    BY <1>2, <1>3, <2>1
  <2> QED
    BY <1>1, <2>2
<1>4. at = {i}
  BY <1>1, <1>2, <1>3
<1>5. Emission!Min({i}) = i
  <2>1. Min({i}) = i
    BY MinIs
  <2> QED
    BY <2>1 DEF Emission!Min, Min
<1>6. Emission!SourceUnit(s) = IF at = {} THEN Emission!Trivia ELSE tokens[Emission!Min(at)].text
  BY DEF Emission!SourceUnit
<1> HIDE DEF at, s
<1>7. Emission!SourceUnit(s) = tokens[i].text
  BY <1>4, <1>5, <1>6
<1> QED
  BY <1>7 DEF s

\* Copied source text copies the tokens that begin in its range.
LEMMA CopiedTouches ==
  ASSUME IsTokenStream(tokens), NEW i \in 1..Len(tokens)-1,
         NEW range, IsRange(range), BeginsIn(tokens, i, range) => 0 <= range.begin
  PROVE  Touches(tokens, i, Emission!Copied(range)) <=> BeginsIn(tokens, i, range)
<1> DEFINE b == range.begin
           z == range.end
           s == tokens[i].begin
           text == [k \in 1..(z - b) |-> Emission!SourceUnit(b + k - 1)]
<1>1. b \in Int /\ z \in Int /\ s \in Nat
  <2>1. i \in 1..Len(tokens)
    BY StreamFacts
  <2> QED
    BY <2>1, StreamFacts DEF IsRange
<1>2. Emission!Copied(range).text = text /\ Emission!Copied(range).original = range
  BY DEF Emission!Copied, Emission!SourceText
<1>3. /\ Touches(tokens, i, Emission!Copied(range))
           <=> /\ 0 <= b /\ Len(text) = z - b
               /\ \E t \in 1..Len(text) : t - 1 = s - b /\ text[t] = tokens[i].text
      /\ BeginsIn(tokens, i, range) <=> b <= s /\ s < z
  BY <1>2 DEF Touches, BeginsIn
<1>4. b <= s /\ s < z => 0 <= b
  BY <1>3
<1>5. Emission!SourceUnit(s) = tokens[i].text
  BY UnitOfToken
<1>6. z - b \in Nat => Len(text) = z - b
  <2> DEFINE R == {Emission!SourceUnit(b + k - 1) : k \in 1..(z - b)}
  <2>1. text \in [1..(z - b) -> R]
    OBVIOUS
  <2> HIDE DEF text, R, b, z
  <2> QED
    BY <2>1, FunctionIsSequence
<1>7. ASSUME b <= s, s < z
      PROVE  /\ z - b \in Nat /\ s - b + 1 \in 1..(z - b) /\ (s - b + 1) - 1 = s - b
             /\ text[s - b + 1] = tokens[i].text
  <2>1. z - b \in Nat /\ s - b + 1 \in 1..(z - b) /\ b + (s - b + 1) - 1 = s
        /\ (s - b + 1) - 1 = s - b
    <3> HIDE DEF b, z, s
    <3> QED
      BY <1>1, <1>7
  <2>2. text[s - b + 1] = Emission!SourceUnit(b + (s - b + 1) - 1)
    BY <2>1
  <2> HIDE DEF text, b, z, s
  <2> QED
    BY <1>5, <2>1, <2>2
<1> HIDE DEF text, b, z, s
<1>8. ASSUME Len(text) = z - b, NEW t \in 1..Len(text), t - 1 = s - b PROVE b <= s /\ s < z
  BY <1>1, <1>8
<1>9. (b <= s /\ s < z) <=>
        /\ 0 <= b /\ Len(text) = z - b
        /\ \E t \in 1..Len(text) : t - 1 = s - b /\ text[t] = tokens[i].text
  <2>1. ASSUME b <= s, s < z
        PROVE  /\ 0 <= b /\ Len(text) = z - b
               /\ \E t \in 1..Len(text) : t - 1 = s - b /\ text[t] = tokens[i].text
    <3>1. s - b + 1 \in 1..Len(text) /\ (s - b + 1) - 1 = s - b /\ text[s - b + 1] = tokens[i].text
      BY <1>6, <1>7, <2>1
    <3> QED
      BY <1>4, <1>6, <1>7, <2>1, <3>1
  <2> QED
    BY <1>8, <2>1
<1> QED
  BY <1>3, <1>9

\* Text without a range copies nothing.
LEMMA UnmappedTouches ==
  ASSUME NEW stream, NEW i
  PROVE  /\ \A words : ~Touches(stream, i, Emission!Glue(words))
         /\ \A range : ~Touches(stream, i, Emission!Quoted(range))
<1>1. /\ \A words : Emission!Glue(words).original = Emission!NoRange
      /\ \A range : Emission!Quoted(range).original = Emission!NoRange
  BY DEF Emission!Glue, Emission!Quoted
<1>2. ~(0 <= Emission!NoRange.begin)
  BY DEF Emission!NoRange, Emission!Invalid
<1> QED
  BY <1>1, <1>2 DEF Touches

\* Generated text is as long as its range only if the range is that short.
LEMMA GeneratedTouches ==
  ASSUME NEW stream, NEW i, NEW words, NEW range, Touches(stream, i, Emission!Generated(words, range))
  PROVE  /\ Len(words) = range.end - range.begin
         /\ \E t \in 1..Len(words) :
              t - 1 = stream[i].begin - range.begin /\ words[t] = stream[i].text
BY DEF Touches, Emission!Generated

\* The token is one the construct spends (see SpentBy).
Spends(stream, node, i) ==
  CASE node.kind \in {"Return", "Failure"} ->
         Holds(stream, node.range, i) /\ ~Holds(stream, node.operand.range, i)
    [] node.kind = "TryInitialization" ->
         /\ Holds(stream, node.range, i) /\ ~Holds(stream, node.declaration, i)
         /\ ~Holds(stream, node.propagation.operand.range, i)
    [] node.kind = "Outcome" -> Holds(stream, node.range, i)
    [] node.kind = "FailureAwareFunction" ->
         Holds(stream, node.outcome.range, i) /\ ~Holds(stream, node.outcome.failureType, i)
    [] OTHER -> FALSE

\* The pieces copy the token, in one of them, if it begins in what is emitted.
CopyWhen(stream, i, pieces, begins) ==
  /\ IsList(pieces) /\ \A k \in 1..Len(pieces) : Writable(pieces[k])
  /\ \A k, l \in 1..Len(pieces) :
       Touches(stream, i, pieces[k]) /\ Touches(stream, i, pieces[l]) => k = l
  /\ (\E k \in 1..Len(pieces) : Touches(stream, i, pieces[k])) <=> begins

\* The offsets of a token and of a range, by name.
LEMMA TokenIn ==
  ASSUME IsTokenStream(tokens), NEW i \in 1..Len(tokens)-1, NEW range, IsRange(range)
  PROVE  /\ tokens[i].begin \in Nat /\ tokens[i].end \in Nat /\ tokens[i].begin < tokens[i].end
         /\ BeginsIn(tokens, i, range) <=>
              range.begin <= tokens[i].begin /\ tokens[i].begin < range.end
         /\ Holds(tokens, range, i) <=>
              0 <= range.begin /\ range.begin <= tokens[i].begin /\ tokens[i].end <= range.end
<1>1. i \in 1..Len(tokens) /\ i < Len(tokens)
  BY StreamFacts
<1>2. /\ tokens[i].begin \in Nat /\ tokens[i].end \in Nat /\ tokens[i].begin < tokens[i].end
  BY <1>1, StreamFacts
<1> DEFINE token == [begin |-> tokens[i].begin, end |-> tokens[i].end]
<1>3. token.begin = tokens[i].begin /\ token.end = tokens[i].end
  OBVIOUS
<1>4. Within(token, range) <=>
        0 <= range.begin /\ range.begin <= tokens[i].begin /\ tokens[i].end <= range.end
  <2> HIDE DEF token
  <2> QED
    BY <1>2, <1>3 DEF Within, ValidRange, IsRange
<1> QED
  BY <1>2, <1>4 DEF BeginsIn, Holds

\* The generated text of a return or a fail copies no token: its keyword is spent,
\* and what follows it is no word of the source.
LEMMA OutcomeTouches ==
  ASSUME IsTokenStream(tokens), tokens \in Streams, NEW i \in 1..Len(tokens)-1,
         NEW range, IsRange(range), NEW operand, IsRange(operand),
         range.begin < operand.begin, operand.begin < operand.end, operand.end < range.end,
         Aligned(tokens, range), Holds(tokens, range, i) => Holds(tokens, operand, i)
  PROVE  /\ ~Touches(tokens, i, Emission!Generated(Emission!ReturnOutcome, range))
         /\ ~Touches(tokens, i, Emission!Generated(<<")", ";">>, range))
         /\ BeginsIn(tokens, i, operand) <=> BeginsIn(tokens, i, range)
         /\ BeginsIn(tokens, i, operand) => 0 <= operand.begin
<1> DEFINE s == tokens[i].begin
           e == tokens[i].end
           b == range.begin
           z == range.end
           x == operand.begin
           y == operand.end
<1>1. /\ s \in Nat /\ e \in Nat /\ s < e /\ b \in Int /\ z \in Int /\ x \in Int /\ y \in Int
      /\ b < x /\ x < y /\ y < z
      /\ b <= s /\ s < z => 0 <= b /\ e <= z
      /\ 0 <= b /\ b <= s /\ e <= z => x <= s /\ e <= y
      /\ BeginsIn(tokens, i, operand) <=> x <= s /\ s < y
      /\ BeginsIn(tokens, i, range) <=> b <= s /\ s < z
  BY TokenIn DEF IsRange, Aligned
<1>2. /\ tokens[i].text \notin {" ", "::Outcome<"}
      /\ tokens[i].text = "vixc_generated" => s + 14 <= e
  <2>1. i \in 1..Len(tokens)
    BY StreamFacts
  <2> QED
    BY <2>1, WordsAssumption, Zenon
<1> HIDE DEF s, e, b, z, x, y
<1>3. b <= s /\ s < z => x <= s /\ e <= y
  BY <1>1
<1>4. ~Touches(tokens, i, Emission!Generated(Emission!ReturnOutcome, range))
  <2> SUFFICES ASSUME Touches(tokens, i, Emission!Generated(Emission!ReturnOutcome, range))
               PROVE  FALSE
    OBVIOUS
  <2> DEFINE words == Emission!ReturnOutcome
  <2>2. /\ Len(words) = 4 /\ words[2] = " " /\ words[3] = "vixc_generated"
        /\ words[4] = "::Outcome<"
    <3> DEFINE one == <<"return", " ">>
               two == <<"vixc_generated", "::Outcome<">>
    <3>1. IsList(one) /\ IsList(two)
      BY ShortLists, Zenon
    <3>2. one[2] = " " /\ two[1] = "vixc_generated" /\ two[2] = "::Outcome<"
      OBVIOUS
    <3>7. Len(one) = 2 /\ Len(two) = 2
      OBVIOUS
    <3>3. words = one \o two
      BY Zenon DEF Emission!ReturnOutcome, Emission!OutcomeOf
    <3> HIDE DEF one, two, words
    <3>4. /\ Len(words) = Len(one) + Len(two)
          /\ \A k \in 1..Len(one) : words[k] = one[k]
          /\ \A k \in 1..Len(two) : words[Len(one) + k] = two[k]
      BY <3>1, <3>3, ConcatOfLists
    <3>5. words[2] = one[2] /\ words[2 + 1] = two[1] /\ words[2 + 2] = two[2]
      <4>1. 2 \in 1..Len(one) /\ 1 \in 1..Len(two) /\ 2 \in 1..Len(two)
        BY <3>7
      <4> QED
        BY <3>4, <3>7, <4>1
    <3>6. Len(words) = 4 /\ 2 + 1 = 3 /\ 2 + 2 = 4
      BY <3>4, <3>7
    <3> QED
      BY <3>2, <3>5, <3>6, Zenon
  <2> HIDE DEF words
  <2>3. Len(words) = z - b
        /\ \E t \in 1..Len(words) : t - 1 = s - b /\ words[t] = tokens[i].text
    BY GeneratedTouches DEF words, s, b, z
  <2>4. z - b = 4 /\ \E t \in 1..4 : t - 1 = s - b /\ words[t] = tokens[i].text
    BY <2>2, <2>3, Zenon
  <2>5. PICK t \in 1..4 : t - 1 = s - b /\ words[t] = tokens[i].text
    BY <2>4
  <2>6. b <= s /\ s < z
    BY <1>1, <2>4, <2>5
  <2>7. t # 1 /\ ~(s + 14 <= e)
    BY <1>1, <1>3, <2>4, <2>5, <2>6
  <2>8. t = 2 \/ t = 3 \/ t = 4
    BY <2>7
  <2> QED
    BY <1>2, <2>2, <2>5, <2>7, <2>8, Zenon
<1>5. ~Touches(tokens, i, Emission!Generated(<<")", ";">>, range))
  <2>1. ASSUME NEW words, Len(words) = 2
        PROVE  ~Touches(tokens, i, Emission!Generated(words, range))
    <3>1. Touches(tokens, i, Emission!Generated(words, range)) => Len(words) = z - b
      BY GeneratedTouches DEF z, b
    <3>2. ~(z - b = 2)
      BY <1>1
    <3> QED
      BY <2>1, <3>1, <3>2
  <2>2. Len(<<")", ";">>) = 2
    OBVIOUS
  <2> QED
    BY <2>1, <2>2, Zenon
<1>6. BeginsIn(tokens, i, operand) <=> BeginsIn(tokens, i, range)
  BY <1>1, <1>3
<1>7. BeginsIn(tokens, i, operand) => 0 <= x
  BY <1>1, <1>6
<1> QED
  BY <1>4, <1>5, <1>6, <1>7, Zenon DEF x

\* So does that of a try initialization, which is longer than any of it.
LEMMA InitializationTouches ==
  ASSUME IsTokenStream(tokens), NEW i \in 1..Len(tokens)-1,
         NEW range, IsRange(range), NEW declaration, IsRange(declaration),
         NEW operand, IsRange(operand),
         range.begin <= declaration.begin, declaration.begin <= declaration.end,
         declaration.end <= operand.begin, range.begin + 4 <= operand.begin,
         operand.begin < operand.end, operand.end <= range.end,
         Aligned(tokens, range),
         Holds(tokens, range, i) => Holds(tokens, declaration, i) \/ Holds(tokens, operand, i),
         NEW name
  PROVE  /\ ~Touches(tokens, i, Emission!Generated(<<"auto", " ", name, " = ">>, range))
         /\ ~Touches(tokens, i, Emission!Generated(<<" = std::move(", name, ").take_value();">>,
                                                   range))
         /\ BeginsIn(tokens, i, range) <=>
              BeginsIn(tokens, i, declaration) \/ BeginsIn(tokens, i, operand)
         /\ ~(BeginsIn(tokens, i, declaration) /\ BeginsIn(tokens, i, operand))
         /\ BeginsIn(tokens, i, declaration) => 0 <= declaration.begin
         /\ BeginsIn(tokens, i, operand) => 0 <= operand.begin
<1> DEFINE s == tokens[i].begin
           e == tokens[i].end
           b == range.begin
           z == range.end
           u == declaration.begin
           v == declaration.end
           x == operand.begin
           y == operand.end
<1>1. /\ s \in Nat /\ e \in Nat /\ s < e /\ b \in Int /\ z \in Int /\ x \in Int /\ y \in Int
      /\ u \in Int /\ v \in Int
      /\ b <= u /\ u <= v /\ v <= x /\ b + 4 <= x /\ x < y /\ y <= z
      /\ b <= s /\ s < z => 0 <= b /\ e <= z
      /\ 0 <= b /\ b <= s /\ e <= z => (u <= s /\ e <= v) \/ (x <= s /\ e <= y)
      /\ BeginsIn(tokens, i, operand) <=> x <= s /\ s < y
      /\ BeginsIn(tokens, i, declaration) <=> u <= s /\ s < v
      /\ BeginsIn(tokens, i, range) <=> b <= s /\ s < z
  BY TokenIn DEF IsRange, Aligned
<1> HIDE DEF s, e, b, z, u, v, x, y
<1>2. ASSUME NEW words, Len(words) \in {3, 4}
      PROVE  ~Touches(tokens, i, Emission!Generated(words, range))
  <2> SUFFICES ASSUME Touches(tokens, i, Emission!Generated(words, range)) PROVE FALSE
    OBVIOUS
  <2>1. Len(words) = z - b
    BY GeneratedTouches DEF z, b
  <2> QED
    BY <1>1, <1>2, <2>1
<1>3. Len(<<"auto", " ", name, " = ">>) = 4 /\ Len(<<" = std::move(", name, ").take_value();">>) = 3
  OBVIOUS
<1>4. (b <= s /\ s < z) <=> (u <= s /\ s < v) \/ (x <= s /\ s < y)
  BY <1>1
<1>5. ~((u <= s /\ s < v) /\ (x <= s /\ s < y))
  BY <1>1
<1>6. /\ u <= s /\ s < v => 0 <= u
      /\ x <= s /\ s < y => 0 <= x
  BY <1>1
<1>7. /\ ~Touches(tokens, i, Emission!Generated(<<"auto", " ", name, " = ">>, range))
      /\ ~Touches(tokens, i, Emission!Generated(<<" = std::move(", name, ").take_value();">>,
                                                range))
  <2> DEFINE opening == <<"auto", " ", name, " = ">>
             closing == <<" = std::move(", name, ").take_value();">>
  <2>1. Len(opening) = 4 /\ Len(closing) = 3
    BY <1>3
  <2> HIDE DEF opening, closing
  <2>2. /\ ~Touches(tokens, i, Emission!Generated(opening, range))
        /\ ~Touches(tokens, i, Emission!Generated(closing, range))
    BY <1>2, <2>1
  <2> QED
    BY <2>2, Zenon DEF opening, closing
<1>8. /\ BeginsIn(tokens, i, range) <=>
           BeginsIn(tokens, i, declaration) \/ BeginsIn(tokens, i, operand)
      /\ ~(BeginsIn(tokens, i, declaration) /\ BeginsIn(tokens, i, operand))
      /\ BeginsIn(tokens, i, declaration) => 0 <= u
      /\ BeginsIn(tokens, i, operand) => 0 <= x
  BY <1>1, <1>4, <1>5, <1>6
<1> QED
  BY <1>7, <1>8, Zenon DEF u, x

LEMMA PiecesAreWritable ==
  ASSUME NEW range, IsRange(range), NEW words, IsList(words)
  PROVE  /\ Writable(Emission!Copied(range)) /\ Writable(Emission!Quoted(range))
         /\ Writable(Emission!Generated(words, range)) /\ Writable(Emission!Glue(words))
<1>1. /\ IsList(Emission!Copied(range).text) /\ IsList(Emission!Quoted(range).text)
      /\ IsList(Emission!Generated(words, range).text) /\ IsList(Emission!Glue(words).text)
  BY SourceIsText, GeneratedIsText
<1>2. /\ Emission!Copied(range).original = range
      /\ Emission!Quoted(range).original = Emission!NoRange
      /\ Emission!Generated(words, range).original = range
      /\ Emission!Glue(words).original = Emission!NoRange
  BY DEF Emission!Copied, Emission!Quoted, Emission!Generated, Emission!Glue
<1>3. IsRange(Emission!NoRange)
  BY DEF IsRange, Emission!NoRange, Emission!Invalid
<1> QED
  BY <1>1, <1>2, <1>3 DEF Writable

LEMMA NothingCopies ==
  ASSUME NEW stream, NEW i
  PROVE  CopyWhen(stream, i, <<>>, FALSE)
<1>1. IsList(<<>>) /\ 1..Len(<<>>) = {}
  BY EmptyList
<1> QED
  BY <1>1 DEF CopyWhen

LEMMA OneCopies ==
  ASSUME NEW stream, NEW i, NEW piece, Writable(piece)
  PROVE  CopyWhen(stream, i, <<piece>>, Touches(stream, i, piece))
<1> DEFINE pieces == <<piece>>
<1>1. IsList(pieces) /\ Len(pieces) = 1 /\ pieces[1] = piece
  BY SingletonList
<1>2. \A k : k \in 1..1 <=> k = 1
  OBVIOUS
<1> HIDE DEF pieces
<1>3. CopyWhen(stream, i, pieces, Touches(stream, i, piece))
  BY <1>1, <1>2 DEF CopyWhen
<1> QED
  BY <1>3 DEF pieces

\* A return or a fail copies its operand.
LEMMA OutcomeCopies ==
  ASSUME IsTokenStream(tokens), tokens \in Streams, NEW i \in 1..Len(tokens)-1,
         NEW f, activeFunction = <<f>>, HeaderSourced(f),
         NEW node, node.kind \in {"Return", "Failure"}, IrCut(tokens, node),
         IsRange(node.range), IsRange(node.operand.range), ~Spends(tokens, node, i), NEW factory
  PROVE  CopyWhen(tokens, i, Emission!EmitOutcome(node, factory).pieces,
                  BeginsIn(tokens, i, node.range))
<1> DEFINE a == Emission!Generated(Emission!ReturnOutcome, node.range)
           b == Emission!SuccessType
           c == Emission!Glue(<<", ">>)
           d == Emission!FailureType
           g == Emission!Glue(<<factory>>)
           h == Emission!Copied(node.operand.range)
           j == Emission!Generated(<<")", ";">>, node.range)
           pieces == <<a, b, c, d, g, h, j>>
           S == {a, b, c, d, g, h, j}
           T(p) == Touches(tokens, i, p)
           begins == BeginsIn(tokens, i, node.range)
<1>1. Emission!EmitOutcome(node, factory).pieces = pieces
  BY Zenon DEF Emission!EmitOutcome, Emission!Emitted
<1>2. activeFunction[1] = f
  BY SingletonList
<1>3. b = Emission!Quoted(f.successType) /\ d = Emission!Quoted(f.outcome.failureType)
  BY <1>2 DEF Emission!SuccessType, Emission!FailureType
<1>4. \A p \in S : Writable(p)
  <2>1. /\ IsList(Emission!ReturnOutcome) /\ IsList(<<", ">>) /\ IsList(<<factory>>)
        /\ IsList(<<")", ";">>)
    BY OutcomeIsText, SingletonList, ShortLists, Zenon
  <2>2. Writable(a) /\ Writable(c) /\ Writable(g) /\ Writable(h) /\ Writable(j)
    BY <2>1, PiecesAreWritable, Zenon
  <2>3. Writable(b) /\ Writable(d)
    BY <1>3, <2>1, PiecesAreWritable, Zenon DEF HeaderSourced
  <2> HIDE DEF a, b, c, d, g, h, j
  <2> QED
    BY <2>2, <2>3
<1>5. /\ ~T(a) /\ ~T(j)
      /\ BeginsIn(tokens, i, node.operand.range) <=> begins
      /\ BeginsIn(tokens, i, node.operand.range) => 0 <= node.operand.range.begin
  <2>1. Aligned(tokens, node.range)
        /\ node.range.begin < node.operand.range.begin
        /\ node.operand.range.begin < node.operand.range.end
        /\ node.operand.range.end < node.range.end
    BY DEF IrCut
  <2>2. Holds(tokens, node.range, i) => Holds(tokens, node.operand.range, i)
    BY DEF Spends
  <2> QED
    BY <2>1, <2>2, OutcomeTouches, Zenon
<1>6. T(h) <=> begins
  BY <1>5, CopiedTouches, Zenon
<1>7. ~T(b) /\ ~T(c) /\ ~T(d) /\ ~T(g)
  BY <1>3, UnmappedTouches, Zenon
<1> HIDE DEF a, b, c, d, g, h, j, begins, T
<1>8. pieces \in Seq(S) /\ Len(pieces) = 7
  OBVIOUS
<1>9. /\ pieces[1] = a /\ pieces[2] = b /\ pieces[3] = c /\ pieces[4] = d
      /\ pieces[5] = g /\ pieces[6] = h /\ pieces[7] = j
  OBVIOUS
<1> HIDE DEF pieces, S
<1>10. IsList(pieces) /\ \A k \in 1..Len(pieces) : Writable(pieces[k])
  BY <1>4, <1>8, SequenceElements
<1>11. ASSUME NEW k \in 1..7 PROVE T(pieces[k]) <=> k = 6 /\ begins
  <2>1. k = 1 \/ k = 2 \/ k = 3 \/ k = 4 \/ k = 5 \/ k = 6 \/ k = 7
    OBVIOUS
  <2>2. CASE k = 6
    BY <1>6, <1>9, <2>2
  <2>3. CASE k # 6
    BY <1>5, <1>7, <1>9, <2>1, <2>3
  <2> QED
    BY <2>2, <2>3
<1>12. 6 \in 1..7
  OBVIOUS
<1>13. CopyWhen(tokens, i, pieces, begins)
  BY <1>8, <1>10, <1>11, <1>12 DEF CopyWhen, T
<1> QED
  BY <1>1, <1>13 DEF begins

\* A try initialization copies its declaration and its operand.
LEMMA InitializationCopies ==
  ASSUME IsTokenStream(tokens), NEW i \in 1..Len(tokens)-1,
         NEW f, activeFunction = <<f>>, HeaderSourced(f),
         NEW node, node.kind = "TryInitialization", IrCut(tokens, node),
         IsRange(node.range), IsRange(node.declaration),
         IsRange(node.propagation.operand.range), ~Spends(tokens, node, i)
  PROVE  CopyWhen(tokens, i, Emission!EmitTryInitialization(node).pieces,
                  BeginsIn(tokens, i, node.range))
<1> DEFINE name == Emission!SyntheticName(node.syntheticId)
           a == Emission!Generated(<<"auto", " ", name, " = ">>, node.range)
           b == Emission!Copied(node.propagation.operand.range)
           opening == <<";\nif (!", name, ".has_value())\n{\n  return ">>
           c == Emission!Glue(opening \o Emission!OutcomeOf)
           d == Emission!SuccessType
           g == Emission!Glue(<<", ">>)
           h == Emission!FailureType
           j == Emission!Glue(<<">::failure(std::move(", name, ").take_error());\n}\n">>)
           m == Emission!Copied(node.declaration)
           n == Emission!Generated(<<" = std::move(", name, ").take_value();">>, node.range)
           pieces == <<a, b, c, d, g, h, j, m, n>>
           S == {a, b, c, d, g, h, j, m, n}
           T(p) == Touches(tokens, i, p)
           begins == BeginsIn(tokens, i, node.range)
           first == BeginsIn(tokens, i, node.propagation.operand.range)
           second == BeginsIn(tokens, i, node.declaration)
<1>1. Emission!EmitTryInitialization(node).pieces = pieces
  BY Zenon DEF Emission!EmitTryInitialization, Emission!Emitted
<1>2. activeFunction[1] = f
  BY SingletonList
<1>3. d = Emission!Quoted(f.successType) /\ h = Emission!Quoted(f.outcome.failureType)
  BY <1>2 DEF Emission!SuccessType, Emission!FailureType
<1> HIDE DEF name
<1>4. \A p \in S : Writable(p)
  <2>1. /\ IsList(<<", ">>) /\ IsList(<<"auto", " ", name, " = ">>)
        /\ IsList(<<">::failure(std::move(", name, ").take_error());\n}\n">>)
        /\ IsList(<<" = std::move(", name, ").take_value();">>)
    BY SingletonList, ShortLists, Zenon
  <2>2. IsList(opening \o Emission!OutcomeOf)
    <3>1. IsList(opening)
      BY ShortLists, Zenon
    <3> HIDE DEF opening
    <3> QED
      BY <3>1, OutcomeIsText, ConcatOfLists
  <2> HIDE DEF opening
  <2>3. Writable(a) /\ Writable(b) /\ Writable(c) /\ Writable(g) /\ Writable(j) /\ Writable(m)
        /\ Writable(n)
    BY <2>1, <2>2, PiecesAreWritable, Zenon
  <2>4. Writable(d) /\ Writable(h)
    BY <1>3, <2>1, PiecesAreWritable, Zenon DEF HeaderSourced
  <2> HIDE DEF a, b, c, d, g, h, j, m, n
  <2> QED
    BY <2>3, <2>4
<1>5. /\ ~T(a) /\ ~T(n)
      /\ begins <=> second \/ first
      /\ ~(second /\ first)
      /\ second => 0 <= node.declaration.begin
      /\ first => 0 <= node.propagation.operand.range.begin
  <2> DEFINE x == node.declaration
             y == node.propagation.operand.range
  <2>1. /\ Aligned(tokens, node.range)
        /\ node.range.begin <= x.begin /\ x.begin <= x.end
        /\ x.end <= y.begin /\ node.range.begin + 4 <= y.begin
        /\ y.begin < y.end /\ y.end <= node.range.end
    BY DEF IrCut
  <2>2. Holds(tokens, node.range, i) => Holds(tokens, x, i) \/ Holds(tokens, y, i)
    BY DEF Spends
  <2> QED
    BY <2>1, <2>2, InitializationTouches, Zenon
<1>6. (T(b) <=> first) /\ (T(m) <=> second)
  BY <1>5, CopiedTouches, Zenon
<1>7. ~T(c) /\ ~T(d) /\ ~T(g) /\ ~T(h) /\ ~T(j)
  BY <1>3, UnmappedTouches, Zenon
<1> HIDE DEF a, b, c, d, g, h, j, m, n, opening, begins, first, second, T
<1>8. pieces \in Seq(S) /\ Len(pieces) = 9
  OBVIOUS
<1>9. /\ pieces[1] = a /\ pieces[2] = b /\ pieces[3] = c /\ pieces[4] = d
      /\ pieces[5] = g /\ pieces[6] = h /\ pieces[7] = j /\ pieces[8] = m /\ pieces[9] = n
  OBVIOUS
<1> HIDE DEF pieces, S
<1>10. IsList(pieces) /\ \A k \in 1..Len(pieces) : Writable(pieces[k])
  BY <1>4, <1>8, SequenceElements
<1>11. ASSUME NEW k \in 1..9 PROVE T(pieces[k]) <=> (k = 2 /\ first) \/ (k = 8 /\ second)
  <2>1. k = 1 \/ k = 2 \/ k = 3 \/ k = 4 \/ k = 5 \/ k = 6 \/ k = 7 \/ k = 8 \/ k = 9
    OBVIOUS
  <2>2. CASE k = 2
    BY <1>6, <1>9, <2>2
  <2>3. CASE k = 8
    BY <1>6, <1>9, <2>3
  <2>4. CASE k # 2 /\ k # 8
    BY <1>5, <1>7, <1>9, <2>1, <2>4
  <2> QED
    BY <2>2, <2>3, <2>4
<1>12. 2 \in 1..9 /\ 8 \in 1..9
  OBVIOUS
<1>13. \A k, l \in 1..9 : T(pieces[k]) /\ T(pieces[l]) => k = l
  BY <1>5, <1>11
<1>14. (\E k \in 1..9 : T(pieces[k])) <=> begins
  BY <1>5, <1>11, <1>12
<1>15. CopyWhen(tokens, i, pieces, begins)
  BY <1>8, <1>10, <1>13, <1>14 DEF CopyWhen, T
<1> QED
  BY <1>1, <1>15 DEF begins

\* What one piece of the source copies: the tokens that begin in it.
LEMMA RegionCopies ==
  ASSUME IsTokenStream(tokens), NEW i \in 1..Len(tokens)-1,
         NEW range, IsRange(range), Aligned(tokens, range)
  PROVE  CopyWhen(tokens, i, <<Emission!Copied(range)>>, BeginsIn(tokens, i, range))
<1>1. BeginsIn(tokens, i, range) => 0 <= range.begin
  BY TokenIn DEF Aligned
<1>2. Touches(tokens, i, Emission!Copied(range)) <=> BeginsIn(tokens, i, range)
  BY <1>1, CopiedTouches
<1>3. Writable(Emission!Copied(range))
  BY EmptyList, PiecesAreWritable
<1>4. CopyWhen(tokens, i, <<Emission!Copied(range)>>, Touches(tokens, i, Emission!Copied(range)))
  BY <1>3, OneCopies
<1> QED
  BY <1>2, <1>4 DEF CopyWhen

\* A node that is emitted copies the tokens that begin in it, but the ones it
\* spends; a node that is refused copies none.
LEMMA NodeCopies ==
  ASSUME IsTokenStream(tokens), tokens \in Streams, NEW i \in 1..Len(tokens)-1,
         activeFunction = <<>> \/ \E f : activeFunction = <<f>> /\ HeaderSourced(f),
         NEW node, Sourced(node), IsRange(node.range), Aligned(tokens, node.range),
         activeFunction # <<>> => IrCut(tokens, node)
  PROVE  LET emitted == Emission!Emit(node)
         IN  /\ emitted.errors = <<>> /\ ~Spends(tokens, node, i) =>
                  CopyWhen(tokens, i, emitted.pieces, BeginsIn(tokens, i, node.range))
             /\ emitted.errors # <<>> => emitted.pieces = <<>>
<1> DEFINE emitted == Emission!Emit(node)
<1>1. /\ \A code : Emission!Refused(code).pieces = <<>>
      /\ \A code : Emission!Refused(code).errors = <<code>>
      /\ \A pieces : Emission!Emitted(pieces).pieces = pieces
      /\ \A pieces : Emission!Emitted(pieces).errors = <<>>
  BY DEF Emission!Refused, Emission!Emitted
<1>2. CASE \E code : emitted = Emission!Refused(code)
  <2>1. emitted.pieces = <<>> /\ emitted.errors # <<>>
    BY <1>1, <1>2, OneIsNotNone
  <2> QED
    BY <2>1
<1>3. CASE node.kind = "CxxRegion"
  <2>1. emitted = Emission!Emitted(<<Emission!Copied(node.range)>>)
    BY <1>3 DEF Emission!Emit
  <2>2. emitted.errors = <<>> /\ emitted.pieces = <<Emission!Copied(node.range)>>
    BY <1>1, <2>1
  <2> QED
    BY <2>2, RegionCopies
<1>4. CASE node.kind = "Outcome"
  <2>1. emitted = Emission!Emitted(<<>>)
    BY <1>4 DEF Emission!Emit
  <2>2. emitted.errors = <<>> /\ emitted.pieces = <<>>
    BY <1>1, <2>1
  <2>3. ~Spends(tokens, node, i) => ~BeginsIn(tokens, i, node.range)
    BY <1>4 DEF Spends, Aligned
  <2>4. CopyWhen(tokens, i, <<>>, FALSE)
    BY NothingCopies
  <2>5. ~BeginsIn(tokens, i, node.range) => CopyWhen(tokens, i, <<>>, BeginsIn(tokens, i, node.range))
    BY <2>4 DEF CopyWhen
  <2> QED
    BY <2>2, <2>3, <2>5
<1>5. CASE node.kind = "FailurePropagation"
  <2>1. emitted = Emission!Refused("VIXC4016")
    BY <1>5 DEF Emission!Emit, Emission!EmitPropagation
  <2> QED
    BY <1>2, <2>1
<1>6. CASE node.kind \in {"Return", "Failure"}
  <2>1. ASSUME NEW factory, emitted = Emission!EmitOutcome(node, factory), activeFunction # <<>>
        PROVE  /\ emitted.errors = <<>>
               /\ ~Spends(tokens, node, i) =>
                    CopyWhen(tokens, i, emitted.pieces, BeginsIn(tokens, i, node.range))
    <3>1. emitted.errors = <<>>
      BY <1>1, <2>1, Zenon DEF Emission!EmitOutcome
    <3>2. PICK f : activeFunction = <<f>> /\ HeaderSourced(f)
      BY <2>1
    <3>3. IrCut(tokens, node) /\ IsRange(node.operand.range)
      BY <1>6, <2>1 DEF Sourced
    <3>4. ~Spends(tokens, node, i) =>
            CopyWhen(tokens, i, Emission!EmitOutcome(node, factory).pieces,
                     BeginsIn(tokens, i, node.range))
      BY <1>6, <3>2, <3>3, OutcomeCopies
    <3> QED
      BY <2>1, <3>1, <3>4
  <2>2. \/ \E code : emitted = Emission!Refused(code)
        \/ activeFunction # <<>> /\ \E factory : emitted = Emission!EmitOutcome(node, factory)
    BY <1>6 DEF Emission!Emit
  <2> QED
    BY <1>2, <2>1, <2>2
<1>7. CASE node.kind = "TryInitialization"
  <2>1. ASSUME emitted = Emission!EmitTryInitialization(node), activeFunction # <<>>
        PROVE  /\ emitted.errors = <<>>
               /\ ~Spends(tokens, node, i) =>
                    CopyWhen(tokens, i, emitted.pieces, BeginsIn(tokens, i, node.range))
    <3>1. emitted.errors = <<>>
      BY <1>1, <2>1, Zenon DEF Emission!EmitTryInitialization
    <3>2. PICK f : activeFunction = <<f>> /\ HeaderSourced(f)
      BY <2>1
    <3>3. IrCut(tokens, node) /\ IsRange(node.declaration)
          /\ IsRange(node.propagation.operand.range)
      BY <1>7, <2>1 DEF Sourced
    <3>4. ~Spends(tokens, node, i) =>
            CopyWhen(tokens, i, Emission!EmitTryInitialization(node).pieces,
                     BeginsIn(tokens, i, node.range))
      BY <1>7, <3>2, <3>3, InitializationCopies
    <3> QED
      BY <2>1, <3>1, <3>4
  <2>2. \/ \E code : emitted = Emission!Refused(code)
        \/ activeFunction # <<>> /\ emitted = Emission!EmitTryInitialization(node)
    BY <1>7 DEF Emission!Emit
  <2> QED
    BY <1>2, <2>1, <2>2
<1> QED
  BY <1>3, <1>4, <1>5, <1>6, <1>7 DEF Sourced

\* The token begins in what is copied of a function before its body.
InHeader(stream, f, i) ==
  \/ BeginsIn(stream, i, f.successType) \/ BeginsIn(stream, i, f.declarator)
  \/ BeginsIn(stream, i, f.outcome.failureType)

\* The parts of a function are in it and apart from one another.
LEMMA PartsAreApart ==
  ASSUME IsTokenStream(tokens), NEW i \in 1..Len(tokens)-1,
         NEW f, HeaderSourced(f), PartsCut(tokens, f)
  PROVE  /\ InHeader(tokens, f, i) => BeginsIn(tokens, i, f.range)
         /\ ~(BeginsIn(tokens, i, f.successType) /\ BeginsIn(tokens, i, f.declarator))
         /\ ~(BeginsIn(tokens, i, f.successType) /\ BeginsIn(tokens, i, f.outcome.failureType))
         /\ ~(BeginsIn(tokens, i, f.declarator) /\ BeginsIn(tokens, i, f.outcome.failureType))
         /\ \A j \in 1..Len(f.children) : BeginsIn(tokens, i, f.children[j].range) =>
              /\ BeginsIn(tokens, i, f.range) /\ ~InHeader(tokens, f, i)
              /\ \A l \in 1..j-1 : ~BeginsIn(tokens, i, f.children[l].range)
<1> DEFINE t == tokens[i].begin
           s == f.successType
           d == f.declarator
           o == f.outcome.range
           m == f.outcome.failureType
           r == f.range
<1>1. t \in Nat
  BY EmptyList, TokenIn DEF HeaderSourced
<1>2. /\ IsRange(s) /\ IsRange(d) /\ IsRange(o) /\ IsRange(m) /\ IsRange(r)
      /\ r.begin <= s.begin /\ s.begin <= s.end /\ s.end <= d.begin /\ d.begin <= d.end
      /\ d.end <= o.begin /\ o.begin <= m.begin /\ m.begin <= m.end /\ m.end <= o.end
      /\ o.end <= r.end
  BY DEF HeaderSourced, PartsCut, Within, ValidRange
<1>3. /\ BeginsIn(tokens, i, s) <=> s.begin <= t /\ t < s.end
      /\ BeginsIn(tokens, i, d) <=> d.begin <= t /\ t < d.end
      /\ BeginsIn(tokens, i, m) <=> m.begin <= t /\ t < m.end
      /\ BeginsIn(tokens, i, r) <=> r.begin <= t /\ t < r.end
  BY DEF BeginsIn
<1>4. InHeader(tokens, f, i) =>
        BeginsIn(tokens, i, s) \/ BeginsIn(tokens, i, d) \/ BeginsIn(tokens, i, m)
  BY DEF InHeader
<1>5. ASSUME NEW j \in 1..Len(f.children), BeginsIn(tokens, i, f.children[j].range)
      PROVE  /\ o.end <= t /\ t < r.end
             /\ \A l \in 1..j-1 : ~BeginsIn(tokens, i, f.children[l].range)
  <2> DEFINE c == f.children[j].range
  <2>1. /\ IsRange(c) /\ c.end <= r.end /\ o.end <= c.begin
        /\ \A l \in 1..j-1 : f.children[l].range.end <= c.begin
    BY DEF PartsCut
  <2>2. c.begin <= t /\ t < c.end
    BY <1>5 DEF BeginsIn
  <2>3. ASSUME NEW l \in 1..j-1, BeginsIn(tokens, i, f.children[l].range) PROVE FALSE
    <3>1. l \in 1..Len(f.children)
      <4>1. CASE Len(f.children) \in Int
        BY <4>1
      <4>2. CASE Len(f.children) \notin Int
        BY <4>2
      <4> QED
        BY <4>1, <4>2
    <3>2. IsRange(f.children[l].range) /\ f.children[l].range.end <= c.begin
      BY <2>1, <3>1 DEF PartsCut
    <3>3. t < f.children[l].range.end
      BY <2>3 DEF BeginsIn
    <3> HIDE DEF c, t
    <3> QED
      BY <1>1, <2>1, <2>2, <3>2, <3>3 DEF IsRange
  <2> HIDE DEF c, t, o, r
  <2> QED
    BY <1>1, <1>2, <2>1, <2>2, <2>3 DEF IsRange
<1> HIDE DEF t, s, d, o, m, r
<1>8. /\ s.begin <= t /\ t < s.end =>
           r.begin <= t /\ t < r.end /\ t < o.end /\ ~(d.begin <= t) /\ ~(m.begin <= t)
      /\ d.begin <= t /\ t < d.end => r.begin <= t /\ t < r.end /\ t < o.end /\ ~(m.begin <= t)
      /\ m.begin <= t /\ t < m.end => r.begin <= t /\ t < r.end /\ t < o.end
      /\ o.end <= t => r.begin <= t /\ ~(t < o.end)
  <2>1. /\ t \in Int /\ r.begin \in Int /\ r.end \in Int /\ s.begin \in Int /\ s.end \in Int
        /\ d.begin \in Int /\ d.end \in Int /\ o.begin \in Int /\ o.end \in Int
        /\ m.begin \in Int /\ m.end \in Int
    BY <1>1, <1>2 DEF IsRange
  <2>2. /\ r.begin <= s.begin /\ s.end <= d.begin /\ s.begin <= s.end
        /\ d.begin <= d.end /\ d.end <= o.begin /\ o.begin <= m.begin
        /\ m.begin <= m.end /\ m.end <= o.end /\ o.end <= r.end
    BY <1>2
  <2>3. s.end <= m.begin /\ s.end <= o.end /\ d.end <= m.begin /\ d.end <= o.end
    <3>1. d.end <= m.begin /\ o.begin <= o.end
      BY <2>1, <2>2
    <3>2. s.end <= d.end /\ d.end <= o.end
      BY <2>1, <2>2, <3>1
    <3> QED
      BY <2>1, <2>2, <3>1, <3>2
  <2>4. r.begin <= d.begin /\ r.begin <= m.begin /\ r.begin <= o.end
    <3>1. r.begin <= s.end
      BY <2>1, <2>2
    <3>2. r.begin <= d.begin /\ r.begin <= o.end
      BY <2>1, <2>2, <2>3, <3>1
    <3> QED
      BY <2>1, <2>2, <2>3, <3>1, <3>2
  <2>11. s.end <= r.end /\ d.end <= r.end /\ m.end <= r.end
    BY <2>1, <2>2, <2>3
  <2>5. \A a, b \in Int : t < a /\ a <= b => t < b /\ ~(b <= t)
    BY <2>1
  <2>6. \A a, b \in Int : a <= b /\ b <= t => a <= t
    BY <2>1
  <2>7. s.begin <= t /\ t < s.end =>
           r.begin <= t /\ t < r.end /\ t < o.end /\ ~(d.begin <= t) /\ ~(m.begin <= t)
    BY <2>1, <2>2, <2>3, <2>4, <2>11, <2>5, <2>6, Zenon
  <2>8. d.begin <= t /\ t < d.end => r.begin <= t /\ t < r.end /\ t < o.end /\ ~(m.begin <= t)
    BY <2>1, <2>2, <2>3, <2>4, <2>11, <2>5, <2>6, Zenon
  <2>9. m.begin <= t /\ t < m.end => r.begin <= t /\ t < r.end /\ t < o.end
    BY <2>1, <2>2, <2>3, <2>4, <2>11, <2>5, <2>6, Zenon
  <2>10. o.end <= t => r.begin <= t /\ ~(t < o.end)
    BY <2>1, <2>4
  <2> QED
    BY <2>7, <2>8, <2>9, <2>10
<1>6. /\ InHeader(tokens, f, i) => BeginsIn(tokens, i, r) /\ t < o.end
      /\ ~(BeginsIn(tokens, i, s) /\ BeginsIn(tokens, i, d))
      /\ ~(BeginsIn(tokens, i, s) /\ BeginsIn(tokens, i, m))
      /\ ~(BeginsIn(tokens, i, d) /\ BeginsIn(tokens, i, m))
  BY <1>3, <1>4, <1>8, Zenon
<1>7. ASSUME NEW j \in 1..Len(f.children), BeginsIn(tokens, i, f.children[j].range)
      PROVE  BeginsIn(tokens, i, r) /\ ~InHeader(tokens, f, i)
  <2>1. o.end <= t /\ t < r.end
    BY <1>5, <1>7
  <2>2. ~(t < o.end) /\ r.begin <= t
    BY <1>8, <2>1
  <2> QED
    BY <1>3, <1>6, <2>1, <2>2, Zenon
<1> QED
  BY <1>5, <1>6, <1>7 DEF s, d, m, r

\* A header copies the tokens that begin in its parts.
LEMMA HeaderCopies ==
  ASSUME IsTokenStream(tokens), NEW i \in 1..Len(tokens)-1,
         NEW f, HeaderSourced(f), PartsCut(tokens, f)
  PROVE  LET emitted == Emission!EmitHeader(f)
         IN  /\ emitted.errors = <<>> => CopyWhen(tokens, i, emitted.pieces, InHeader(tokens, f, i))
             /\ emitted.errors # <<>> => emitted.pieces = <<>>
<1> DEFINE emitted == Emission!EmitHeader(f)
           a == Emission!Glue(Emission!OutcomeOf)
           b == Emission!Copied(f.successType)
           c == Emission!Glue(<<", ">>)
           d == Emission!Copied(f.outcome.failureType)
           g == Emission!Glue(<<">", "\n">>)
           h == Emission!Copied(f.declarator)
           pieces == <<a, b, c, d, g, h>>
           S == {a, b, c, d, g, h}
           T(p) == Touches(tokens, i, p)
           first == BeginsIn(tokens, i, f.successType)
           second == BeginsIn(tokens, i, f.outcome.failureType)
           third == BeginsIn(tokens, i, f.declarator)
           begins == InHeader(tokens, f, i)
<1>1. CASE emitted = Emission!Refused("VIXC4013")
  <2>1. emitted.pieces = <<>> /\ emitted.errors = <<"VIXC4013">>
    BY <1>1 DEF Emission!Refused
  <2>2. emitted.errors # <<>>
    BY <2>1, OneIsNotNone
  <2> QED
    BY <2>1, <2>2
<1>2. CASE emitted = Emission!Emitted(pieces)
  <2>1. emitted.pieces = pieces /\ emitted.errors = <<>>
    <3> HIDE DEF pieces, emitted
    <3> QED
      BY <1>2 DEF Emission!Emitted
  <2>2. \A p \in S : Writable(p)
    <3>1. IsList(Emission!OutcomeOf) /\ IsList(<<", ">>) /\ IsList(<<">", "\n">>)
      BY OutcomeIsText, SingletonList, ShortLists, Zenon
    <3>2. Writable(a) /\ Writable(b) /\ Writable(c) /\ Writable(d) /\ Writable(g) /\ Writable(h)
      BY <3>1, PiecesAreWritable, Zenon DEF HeaderSourced
    <3> HIDE DEF a, b, c, d, g, h
    <3> QED
      BY <3>2
  <2>3. /\ begins <=> first \/ second \/ third
        /\ ~(first /\ second) /\ ~(first /\ third) /\ ~(second /\ third)
    <3>1. begins <=> first \/ second \/ third
      BY DEF InHeader
    <3>2. ~(first /\ second) /\ ~(first /\ third) /\ ~(second /\ third)
      BY PartsAreApart
    <3> QED
      BY <3>1, <3>2
  <2>4. (T(b) <=> first) /\ (T(d) <=> second) /\ (T(h) <=> third)
    <3>1. IsRange(f.successType) /\ IsRange(f.outcome.failureType) /\ IsRange(f.declarator)
      BY DEF HeaderSourced
    <3>2. 0 <= f.successType.begin /\ 0 <= f.outcome.failureType.begin /\ 0 <= f.declarator.begin
      BY DEF PartsCut, Within, ValidRange
    <3> QED
      BY <3>1, <3>2, CopiedTouches
  <2>5. ~T(a) /\ ~T(c) /\ ~T(g)
    BY UnmappedTouches, Zenon
  <2> HIDE DEF a, b, c, d, g, h, T, first, second, third, begins
  <2>6. pieces \in Seq(S) /\ Len(pieces) = 6
    OBVIOUS
  <2>7. /\ pieces[1] = a /\ pieces[2] = b /\ pieces[3] = c /\ pieces[4] = d
        /\ pieces[5] = g /\ pieces[6] = h
    OBVIOUS
  <2> HIDE DEF pieces, S, emitted
  <2>8. IsList(pieces) /\ \A k \in 1..Len(pieces) : Writable(pieces[k])
    BY <2>2, <2>6, SequenceElements
  <2>9. ASSUME NEW k \in 1..6
        PROVE  T(pieces[k]) <=> (k = 2 /\ first) \/ (k = 4 /\ second) \/ (k = 6 /\ third)
    <3>1. k = 1 \/ k = 2 \/ k = 3 \/ k = 4 \/ k = 5 \/ k = 6
      OBVIOUS
    <3>2. CASE k = 2
      BY <2>4, <2>7, <3>2
    <3>3. CASE k = 4
      BY <2>4, <2>7, <3>3
    <3>4. CASE k = 6
      BY <2>4, <2>7, <3>4
    <3>5. CASE k # 2 /\ k # 4 /\ k # 6
      BY <2>5, <2>7, <3>1, <3>5
    <3> QED
      BY <3>2, <3>3, <3>4, <3>5
  <2>10. 2 \in 1..6 /\ 4 \in 1..6 /\ 6 \in 1..6
    OBVIOUS
  <2>11. \A k, l \in 1..6 : T(pieces[k]) /\ T(pieces[l]) => k = l
    BY <2>3, <2>9
  <2>12. (\E k \in 1..6 : T(pieces[k])) <=> begins
    BY <2>3, <2>9, <2>10
  <2>13. CopyWhen(tokens, i, pieces, begins)
    BY <2>6, <2>8, <2>11, <2>12 DEF CopyWhen, T
  <2> QED
    BY <2>1, <2>13 DEF begins, emitted
<1>3. emitted = Emission!Refused("VIXC4013") \/ emitted = Emission!Emitted(pieces)
  BY Zenon DEF Emission!EmitHeader
<1> HIDE DEF emitted, pieces
<1> QED
  BY <1>1, <1>2, <1>3 DEF emitted

-----------------------------------------------------------------------------
(* What has been copied when.                                              *)

\* No construct of the program spends the token.
Unspent(stream, nodes, i) ==
  \A k \in 1..Len(nodes) :
    /\ ~Spends(stream, nodes[k], i)
    /\ nodes[k].kind = "FailureAwareFunction" =>
         \A j \in 1..Len(nodes[k].children) : ~Spends(stream, nodes[k].children[j], i)

\* The token begins in one of the nodes before an index.
Passed(stream, nodes, to, i) ==
  \E k \in 1..Len(nodes) : k < to /\ BeginsIn(stream, i, nodes[k].range)

\* The token begins in the header of a function or in a child before an index.
PassedIn(stream, f, to, i) ==
  InHeader(stream, f, i) \/ Passed(stream, f.children, to, i)

\* The emitter has copied the token if it was passed, and not otherwise.
CopiedIf(stream, i, e, passed) ==
  /\ EmitterMapped(e)
  /\ IF passed THEN CopiedOnce(stream, i, e) ELSE NotCopied(stream, i, e)

LEMMA CopiesAreAdded ==
  ASSUME IsTokenStream(tokens), NEW i \in 1..Len(tokens)-1,
         NEW e, NEW passed, CopiedIf(tokens, i, e, passed),
         NEW pieces, NEW begins, CopyWhen(tokens, i, pieces, begins), ~(passed /\ begins)
  PROVE  CopiedIf(tokens, i, Written(e, pieces), passed \/ begins)
<1>1. tokens[i].begin \in Nat
  <2>1. IsRange(NoRange)
    BY DEF IsRange, NoRange, Invalid
  <2> QED
    BY <2>1, TokenIn
<1>2. CopiedSoFar(tokens, i, e, pieces, Len(pieces), Written(e, pieces))
  BY <1>1, WrittenCopies DEF CopiedIf, CopyWhen
<1>3. CASE passed
  <2>1. CopiedOnce(tokens, i, e) /\ \A k \in 1..Len(pieces) : ~Touches(tokens, i, pieces[k])
    BY <1>3 DEF CopiedIf, CopyWhen
  <2> QED
    BY <1>2, <1>3, <2>1 DEF CopiedSoFar, CopiedIf
<1>4. CASE ~passed
  <2>1. /\ NotCopied(tokens, i, e)
        /\ (\E k \in 1..Len(pieces) : Touches(tokens, i, pieces[k])) <=> begins
    BY <1>4 DEF CopiedIf, CopyWhen
  <2>2. CASE begins
    BY <1>2, <2>1, <2>2 DEF CopiedSoFar, CopiedIf
  <2>3. CASE ~begins
    BY <1>2, <1>4, <2>1, <2>3 DEF CopiedSoFar, CopiedIf
  <2> QED
    BY <2>2, <2>3
<1> QED
  BY <1>3, <1>4

LEMMA PassedByOne ==
  ASSUME NEW stream, NEW nodes, Len(nodes) \in Nat, NEW k \in 1..Len(nodes), NEW i
  PROVE  Passed(stream, nodes, k + 1, i) <=>
           Passed(stream, nodes, k, i) \/ BeginsIn(stream, i, nodes[k].range)
<1>1. \A l \in 1..Len(nodes) : l < k + 1 <=> l < k \/ l = k
  OBVIOUS
<1> QED
  BY <1>1 DEF Passed

\* A token begins in one node of the program at most.
LEMMA NodesAreApart ==
  ASSUME IsTokenStream(tokens), NEW i \in 1..Len(tokens)-1,
         NEW nodes, ProgramCut(tokens, nodes), Len(nodes) \in Nat, NEW k \in 1..Len(nodes),
         BeginsIn(tokens, i, nodes[k].range)
  PROVE  ~Passed(tokens, nodes, k, i)
<1>1. \A l \in 1..Len(nodes) : BeginsIn(tokens, i, nodes[l].range) => Holds(tokens, nodes[l].range, i)
  BY DEF ProgramCut, Aligned
<1>2. PICK j \in 1..Len(nodes) : \A l \in 1..Len(nodes) : Holds(tokens, nodes[l].range, i) <=> l = j
  BY DEF ProgramCut
<1>3. \A l \in 1..Len(nodes) : BeginsIn(tokens, i, nodes[l].range) => l = k
  BY <1>1, <1>2
<1> QED
  BY <1>3 DEF Passed

\* A token that no construct spends begins in a part of its function.
LEMMA PartsAreAll ==
  ASSUME IsTokenStream(tokens), NEW i \in 1..Len(tokens)-1,
         NEW f, f.kind = "FailureAwareFunction", HeaderSourced(f), PartsCut(tokens, f),
         Aligned(tokens, f.range), Len(f.children) \in Nat, NEW to, to > Len(f.children), to \in Nat,
         ~Spends(tokens, f, i)
  PROVE  PassedIn(tokens, f, to, i) <=> BeginsIn(tokens, i, f.range)
<1>1. PassedIn(tokens, f, to, i) => BeginsIn(tokens, i, f.range)
  BY PartsAreApart DEF PassedIn, Passed
<1>2. ASSUME NEW range, IsRange(range), Holds(tokens, range, i) PROVE BeginsIn(tokens, i, range)
  <2>1. /\ tokens[i].begin \in Nat /\ tokens[i].end \in Nat /\ tokens[i].begin < tokens[i].end
        /\ BeginsIn(tokens, i, range) <=>
             range.begin <= tokens[i].begin /\ tokens[i].begin < range.end
        /\ Holds(tokens, range, i) <=>
             0 <= range.begin /\ range.begin <= tokens[i].begin /\ tokens[i].end <= range.end
    BY <1>2, TokenIn
  <2> QED
    BY <1>2, <2>1 DEF IsRange
<1>3. ASSUME BeginsIn(tokens, i, f.range) PROVE PassedIn(tokens, f, to, i)
  <2>1. Holds(tokens, f.range, i)
    BY <1>3 DEF Aligned
  <2>2. \/ Holds(tokens, f.successType, i) \/ Holds(tokens, f.declarator, i)
        \/ Holds(tokens, f.outcome.failureType, i)
        \/ \E j \in 1..Len(f.children) : Holds(tokens, f.children[j].range, i)
    BY <2>1 DEF PartsCut, Spends
  <2>3. CASE \/ Holds(tokens, f.successType, i) \/ Holds(tokens, f.declarator, i)
             \/ Holds(tokens, f.outcome.failureType, i)
    BY <1>2, <2>3 DEF HeaderSourced, InHeader, PassedIn
  <2>4. CASE \E j \in 1..Len(f.children) : Holds(tokens, f.children[j].range, i)
    <3>1. PICK j \in 1..Len(f.children) : Holds(tokens, f.children[j].range, i)
      BY <2>4
    <3>2. j < to
      OBVIOUS
    <3>3. BeginsIn(tokens, i, f.children[j].range)
      BY <1>2, <3>1 DEF PartsCut
    <3> QED
      BY <3>2, <3>3 DEF Passed, PassedIn
  <2> QED
    BY <2>2, <2>3, <2>4
<1> QED
  BY <1>1, <1>3

\* Every token but the last has been passed when all nodes have.
LEMMA AllIsPassed ==
  ASSUME IsTokenStream(tokens), NEW i \in 1..Len(tokens)-1,
         NEW nodes, ProgramCut(tokens, nodes), Len(nodes) \in Nat, NEW to \in Nat, to > Len(nodes)
  PROVE  Passed(tokens, nodes, to, i)
<1>1. PICK k \in 1..Len(nodes) : \A l \in 1..Len(nodes) : Holds(tokens, nodes[l].range, i) <=> l = k
  BY DEF ProgramCut
<1>2. Holds(tokens, nodes[k].range, i) /\ IsRange(nodes[k].range) /\ k < to
  BY <1>1 DEF ProgramCut
<1>3. /\ tokens[i].begin \in Nat /\ tokens[i].end \in Nat /\ tokens[i].begin < tokens[i].end
      /\ BeginsIn(tokens, i, nodes[k].range) <=>
           nodes[k].range.begin <= tokens[i].begin /\ tokens[i].begin < nodes[k].range.end
      /\ Holds(tokens, nodes[k].range, i) <=>
           /\ 0 <= nodes[k].range.begin /\ nodes[k].range.begin <= tokens[i].begin
           /\ tokens[i].end <= nodes[k].range.end
  BY <1>2, TokenIn
<1>4. BeginsIn(tokens, i, nodes[k].range)
  BY <1>2, <1>3 DEF IsRange
<1> QED
  BY <1>2, <1>4 DEF Passed

\* What the backend has passed of the source.
SoFar(i) ==
  \/ Passed(tokens, program, child, i)
  \/ emission = "inFunction" /\ PassedIn(tokens, program[child], bodyChild, i)

CopiesSoFar ==
  \A i \in 1..Len(tokens)-1 :
    Unspent(tokens, program, i) => CopiedIf(tokens, i, emitter, SoFar(i))

AllCopied ==
  \A i \in 1..Len(tokens)-1 : Unspent(tokens, program, i) => CopiedOnce(tokens, i, emitter)

Emits == emission \in {"support", "emitting", "inFunction"}

CopyInv ==
  /\ tokens \in Streams
  /\ stage \in EarlyStages => emission = "support" /\ emitter = Emission!EmptyEmitter
  /\ stage = "emit" =>
       /\ emission = "support" => child = 1
       /\ emission \in {"support", "emitting"} => activeFunction = <<>>
       /\ backendErrors = <<>> /\ Emits => CopiesSoFar
  /\ emission = "generated" => AllCopied

LEMMA NothingCopied ==
  ASSUME NEW i, emitter = Emission!EmptyEmitter, child = 1, emission = "support"
  PROVE  CopiedIf(tokens, i, emitter, SoFar(i))
<1>1. emitter.output = <<>> /\ emitter.sourceMap = <<>>
      /\ DOMAIN emitter = {"output", "sourceMap", "indentation"}
  BY DEF Emission!EmptyEmitter
<1>2. IsList(<<>>) /\ 1..Len(<<>>) = {}
  BY EmptyList
<1>3. EmitterMapped(emitter)
  BY <1>1, <1>2 DEF EmitterMapped, EmitterGood
<1>4. NotCopied(tokens, i, emitter)
  BY <1>1, <1>2 DEF NotCopied
<1>5. ~SoFar(i)
  <2>1. \A k \in 1..Len(program) : ~(k < 1)
    OBVIOUS
  <2> QED
    BY <2>1 DEF SoFar, Passed
<1> QED
  BY <1>3, <1>4, <1>5 DEF CopiedIf

LEMMA InitCopiesNothing == Init => CopyInv
<1> SUFFICES ASSUME Init PROVE CopyInv
  OBVIOUS
<1>1. stage = "lex" /\ ParserInit /\ Emission!Init
  BY DEF Init
<1> QED
  BY <1>1 DEF ParserInit, Emission!Init, CopyInv

\* What holds while the backend runs.
LEMMA EmitFacts ==
  ASSUME CallInv, SourcesInv, IrInv, CopyInv, AnswerInv, Emit
  PROVE  /\ stage = "emit" /\ stage' = "emit" /\ Emission!Next /\ UNCHANGED <<tokens, program>>
         /\ IsTokenStream(tokens) /\ tokens \in Streams
         /\ IsProgram(program) /\ Len(program) \in Nat /\ ProgramCut(tokens, program)
         /\ ProgramSourced(program) /\ EmitAt /\ IsList(backendErrors)
<1>1. stage = "emit" /\ stage' = "emit" /\ Emission!Next
  BY DEF Emit, controlVars
<1>2. UNCHANGED <<tokens, program>>
  BY <1>1, Zenon DEF Emission!Next, Emission!EmitSupport, Emission!EmitTopLevel,
     Emission!EnterFunction, Emission!EmitBodyChild, Emission!LeaveFunction,
     Emission!FinishEmission
<1>3. IsTokenStream(tokens) /\ tokens \in Streams
  BY DEF CallInv, IInv, ParserTypeOK, CopyInv
<1>4. IsProgram(program) /\ Len(program) \in Nat
  BY <1>1 DEF CallInv, ProgramInv, IsProgram, IsList
<1>5. ProgramCut(tokens, program) /\ ProgramSourced(program) /\ EmitAt /\ IsList(backendErrors)
  BY <1>1 DEF IrInv, SourcesInv, AnswerInv
<1> QED
  BY <1>1, <1>2, <1>3, <1>4, <1>5

\* The step writes one list of pieces, which copy a token or none.
LEMMA WriteCopies ==
  ASSUME IsTokenStream(tokens), NEW i \in 1..Len(tokens)-1,
         NEW emitted, Emission!WriteAll(emitted), emitted.errors = <<>>,
         NEW passed, CopiedIf(tokens, i, emitter, passed),
         NEW begins, CopyWhen(tokens, i, emitted.pieces, begins), ~(passed /\ begins)
  PROVE  CopiedIf(tokens, i, emitter', passed \/ begins)
<1>1. emitter' = Written(emitter, emitted.pieces)
  BY WritesAll
<1>2. CopiedIf(tokens, i, Written(emitter, emitted.pieces), passed \/ begins)
  BY CopiesAreAdded
<1> QED
  BY <1>1, <1>2

\* What is reported now was reported, unless it was reported before.
LEMMA NoErrorReported ==
  ASSUME NEW emitted, Emission!WriteAll(emitted), IsList(backendErrors), IsList(emitted.errors),
         backendErrors' = <<>>
  PROVE  backendErrors = <<>> /\ emitted.errors = <<>>
<1>1. backendErrors' = backendErrors \o emitted.errors
  BY WritesAll
<1> QED
  BY <1>1, NothingReported

\* A node or a header reports at most one error.
LEMMA ErrorsAreListed ==
  /\ \A node : Sourced(node) => IsList(Emission!Emit(node).errors)
  /\ \A f : IsList(Emission!EmitHeader(f).errors)
  /\ \A pieces : IsList(Emission!Emitted(pieces).errors)
<1> DEFINE Listed(emitted) == IsList(emitted.errors)
<1>1. \A pieces : Listed(Emission!Emitted(pieces))
  BY EmptyList DEF Emission!Emitted
<1>2. \A code : Listed(Emission!Refused(code))
  BY SingletonList, Zenon DEF Emission!Refused
<1> HIDE DEF Listed
<1>3. ASSUME NEW node, Sourced(node) PROVE Listed(Emission!Emit(node))
  BY <1>1, <1>2, <1>3, Zenon DEF Sourced, Emission!Emit, Emission!EmitOutcome,
     Emission!EmitTryInitialization, Emission!EmitPropagation
<1>4. \A f : Listed(Emission!EmitHeader(f))
  BY <1>1, <1>2, Zenon DEF Emission!EmitHeader
<1> QED
  BY <1>1, <1>3, <1>4 DEF Listed

\* A step that goes on emitting.
LEMMA EmitsOn ==
  ASSUME CallInv, SourcesInv, IrInv, CopyInv, AnswerInv, Emit,
         emission' \in {"emitting", "inFunction"},
         emission' = "emitting" => activeFunction' = <<>>,
         backendErrors' = <<>> =>
           \A i \in 1..Len(tokens)-1 : Unspent(tokens, program, i) =>
             CopiedIf(tokens, i, emitter', SoFar(i)')
  PROVE  CopyInv'
<1>1. /\ stage' = "emit" /\ tokens' = tokens /\ program' = program /\ tokens' \in Streams
  BY EmitFacts
<1>2. stage' \notin EarlyStages /\ emission' # "generated" /\ emission' # "support"
  BY <1>1 DEF EarlyStages
<1>3. backendErrors' = <<>> => CopiesSoFar'
  BY <1>1 DEF CopiesSoFar
<1> QED
  BY <1>1, <1>2, <1>3 DEF CopyInv

LEMMA SupportKeepsCopies ==
  ASSUME CallInv, SourcesInv, IrInv, CopyInv, AnswerInv, Emit, Emission!EmitSupport
  PROVE  CopyInv'
<1> DEFINE glue == Emission!Glue(<<"#include <utility> ...}\n\n">>)
           support == IF \E f \in Emission!ToSet(program) :
                           f.kind = "FailureAwareFunction" /\ f.lowered
                      THEN <<glue>> ELSE <<>>
           emitted == Emission!Emitted(support)
<1>1. /\ emission = "support" /\ emission' = "emitting" /\ Emission!WriteAll(emitted)
      /\ UNCHANGED <<tokens, program, child, bodyChild, activeFunction>>
  BY Zenon DEF Emission!EmitSupport
<1>2. /\ IsTokenStream(tokens) /\ IsList(backendErrors) /\ stage = "emit"
  BY EmitFacts
<1>3. emitted.pieces = support /\ emitted.errors = <<>> /\ IsList(emitted.errors)
  BY EmptyList DEF Emission!Emitted
<1>4. \A i : CopyWhen(tokens, i, support, FALSE)
  <2> TAKE i
  <2>1. Writable(glue)
    <3>1. IsRange(NoRange)
      BY DEF IsRange, NoRange, Invalid
    <3>2. IsList(<<"#include <utility> ...}\n\n">>)
      BY SingletonList, Zenon
    <3> QED
      BY <3>1, <3>2, PiecesAreWritable, Zenon
  <2>2. ~Touches(tokens, i, glue)
    BY UnmappedTouches, Zenon
  <2> HIDE DEF glue
  <2>3. CopyWhen(tokens, i, <<glue>>, Touches(tokens, i, glue))
    BY <2>1, OneCopies
  <2>4. CopyWhen(tokens, i, <<glue>>, FALSE) /\ CopyWhen(tokens, i, <<>>, FALSE)
    BY <2>2, <2>3, NothingCopies DEF CopyWhen
  <2> QED
    BY <2>4
<1> HIDE DEF support, emitted
<1>5. activeFunction' = <<>>
  BY <1>1, <1>2 DEF CopyInv
<1>6. ASSUME backendErrors' = <<>>, NEW i \in 1..Len(tokens)-1, Unspent(tokens, program, i)
      PROVE  CopiedIf(tokens, i, emitter', SoFar(i)')
  <2>1. backendErrors = <<>>
    BY <1>1, <1>2, <1>3, <1>6, NoErrorReported
  <2>2. CopiedIf(tokens, i, emitter, SoFar(i))
    BY <1>1, <1>2, <1>6, <2>1 DEF CopyInv, Emits, CopiesSoFar
  <2> DEFINE begins == FALSE
  <2>5. CopyWhen(tokens, i, emitted.pieces, begins) /\ ~(SoFar(i) /\ begins)
    BY <1>3, <1>4
  <2> HIDE DEF begins
  <2>3. CopiedIf(tokens, i, emitter', SoFar(i) \/ begins)
    BY <1>1, <1>2, <1>3, <2>2, <2>5, WriteCopies
  <2>4. SoFar(i)' <=> SoFar(i)
    BY <1>1 DEF SoFar
  <2> QED
    BY <2>3, <2>4 DEF CopiedIf, begins
<1> QED
  BY <1>1, <1>5, <1>6, EmitsOn

LEMMA TopLevelKeepsCopies ==
  ASSUME CallInv, SourcesInv, IrInv, CopyInv, AnswerInv, Emit, Emission!EmitTopLevel
  PROVE  CopyInv'
<1> DEFINE node == program[child]
           emitted == Emission!Emit(node)
<1>1. /\ emission = "emitting" /\ emission' = "emitting" /\ child <= Len(program)
      /\ node.kind # "FailureAwareFunction" /\ Emission!WriteAll(emitted)
      /\ child' = child + 1 /\ UNCHANGED <<tokens, program, bodyChild, activeFunction>>
  BY DEF Emission!EmitTopLevel
<1>2. /\ IsTokenStream(tokens) /\ tokens \in Streams /\ IsList(backendErrors) /\ stage = "emit"
      /\ Len(program) \in Nat /\ ProgramCut(tokens, program) /\ ProgramSourced(program) /\ EmitAt
  BY EmitFacts
<1>3. child \in 1..Len(program) /\ activeFunction = <<>>
  BY <1>1, <1>2 DEF EmitAt, CopyInv
<1>4. Sourced(node) /\ Aligned(tokens, node.range) /\ IsRange(node.range)
  BY <1>1, <1>2, <1>3 DEF ProgramSourced, ProgramCut
<1>5. IsList(emitted.errors)
  BY <1>4, ErrorsAreListed
<1> HIDE DEF emitted
<1>6. ASSUME backendErrors' = <<>>, NEW i \in 1..Len(tokens)-1, Unspent(tokens, program, i)
      PROVE  CopiedIf(tokens, i, emitter', SoFar(i)')
  <2> DEFINE begins == BeginsIn(tokens, i, node.range)
  <2>1. backendErrors = <<>> /\ emitted.errors = <<>>
    BY <1>1, <1>2, <1>5, <1>6, NoErrorReported
  <2>2. CopiedIf(tokens, i, emitter, SoFar(i))
    BY <1>1, <1>2, <1>6, <2>1 DEF CopyInv, Emits, CopiesSoFar
  <2>3. ~Spends(tokens, node, i)
    BY <1>3, <1>6 DEF Unspent
  <2>4. CopyWhen(tokens, i, emitted.pieces, begins)
    BY <1>2, <1>3, <1>4, <2>1, <2>3, NodeCopies DEF emitted
  <2>5. SoFar(i) <=> Passed(tokens, program, child, i)
    BY <1>1 DEF SoFar
  <2>6. SoFar(i)' <=> SoFar(i) \/ begins
    <3>1. SoFar(i)' <=> Passed(tokens, program, child + 1, i)
      BY <1>1 DEF SoFar
    <3> QED
      BY <1>2, <1>3, <2>5, <3>1, PassedByOne
  <2>7. ~(SoFar(i) /\ begins)
    BY <1>2, <1>3, <2>5, NodesAreApart
  <2> HIDE DEF begins
  <2>8. CopiedIf(tokens, i, emitter', SoFar(i) \/ begins)
    BY <1>1, <1>2, <2>1, <2>2, <2>4, <2>7, WriteCopies
  <2> QED
    BY <2>6, <2>8 DEF CopiedIf
<1> QED
  BY <1>1, <1>3, <1>6, EmitsOn

LEMMA HeaderKeepsCopies ==
  ASSUME CallInv, SourcesInv, IrInv, CopyInv, AnswerInv, Emit, Emission!EnterFunction
  PROVE  CopyInv'
<1> DEFINE f == program[child]
           emitted == Emission!EmitHeader(f)
<1>1. /\ emission = "emitting" /\ child <= Len(program)
      /\ f.kind = "FailureAwareFunction" /\ Emission!WriteAll(emitted)
      /\ UNCHANGED <<tokens, program>>
      /\ \/ emitted.errors # <<>> /\ emission' = emission /\ activeFunction' = activeFunction
         \/ emission' = "inFunction" /\ bodyChild' = 1 /\ child' = child
  BY DEF Emission!EnterFunction
<1>2. /\ IsTokenStream(tokens) /\ IsList(backendErrors) /\ stage = "emit"
      /\ IsProgram(program)
      /\ Len(program) \in Nat /\ ProgramCut(tokens, program) /\ ProgramSourced(program) /\ EmitAt
  BY EmitFacts
<1>3. child \in 1..Len(program) /\ activeFunction = <<>>
  BY <1>1, <1>2 DEF EmitAt, CopyInv
<1>4. HeaderSourced(f) /\ PartsCut(tokens, f)
  BY <1>1, <1>2, <1>3 DEF ProgramSourced, FunctionSourced, ProgramCut
<1>5. IsList(emitted.errors)
  BY ErrorsAreListed
<1> HIDE DEF emitted
<1>6. ASSUME backendErrors' = <<>>, NEW i \in 1..Len(tokens)-1, Unspent(tokens, program, i)
      PROVE  CopiedIf(tokens, i, emitter', SoFar(i)')
  <2> DEFINE begins == InHeader(tokens, f, i)
  <2>1. backendErrors = <<>> /\ emitted.errors = <<>>
    BY <1>1, <1>2, <1>5, <1>6, NoErrorReported
  <2>2. CopiedIf(tokens, i, emitter, SoFar(i))
    BY <1>1, <1>2, <1>6, <2>1 DEF CopyInv, Emits, CopiesSoFar
  <2>3. CopyWhen(tokens, i, emitted.pieces, begins)
    BY <1>2, <1>4, <2>1, HeaderCopies DEF emitted
  <2>4. SoFar(i) <=> Passed(tokens, program, child, i)
    BY <1>1 DEF SoFar
  <2>5. SoFar(i)' <=> SoFar(i) \/ begins
    <3>1. emission' = "inFunction" /\ bodyChild' = 1 /\ child' = child
      BY <1>1, <2>1
    <3>2. ~Passed(tokens, f.children, 1, i)
      <4>1. \A k \in 1..Len(f.children) : ~(k < 1)
        OBVIOUS
      <4> QED
        BY <4>1 DEF Passed
    <3>3. PassedIn(tokens, f, 1, i) <=> begins
      BY <3>2 DEF PassedIn
    <3>4. SoFar(i)' <=> Passed(tokens, program, child, i) \/ PassedIn(tokens, f, 1, i)
      BY <1>1, <3>1 DEF SoFar
    <3> QED
      BY <2>4, <3>3, <3>4
  <2>6. ~(SoFar(i) /\ begins)
    <3>1. begins => BeginsIn(tokens, i, f.range)
      BY <1>2, <1>4, PartsAreApart
    <3> QED
      BY <1>2, <1>3, <2>4, <3>1, NodesAreApart
  <2> HIDE DEF begins
  <2>7. CopiedIf(tokens, i, emitter', SoFar(i) \/ begins)
    BY <1>1, <1>2, <2>1, <2>2, <2>3, <2>6, WriteCopies
  <2> QED
    BY <2>5, <2>7 DEF CopiedIf
<1>7. emission' \in {"emitting", "inFunction"} /\ (emission' = "emitting" => activeFunction' = <<>>)
  BY <1>1, <1>3
<1> QED
  BY <1>6, <1>7, EmitsOn

LEMMA BodyKeepsCopies ==
  ASSUME CallInv, SourcesInv, IrInv, CopyInv, AnswerInv, Emit, Emission!EmitBodyChild
  PROVE  CopyInv'
<1> DEFINE f == program[child]
           body == f.children
           node == body[bodyChild]
           emitted == Emission!Emit(node)
<1>1. /\ emission = "inFunction" /\ emission' = "inFunction" /\ bodyChild <= Len(body)
      /\ Emission!WriteAll(emitted)
      /\ bodyChild' = bodyChild + 1 /\ UNCHANGED <<tokens, program, child, activeFunction>>
  BY DEF Emission!EmitBodyChild
<1>2. /\ IsTokenStream(tokens) /\ tokens \in Streams /\ IsList(backendErrors) /\ stage = "emit"
      /\ IsProgram(program)
      /\ Len(program) \in Nat /\ ProgramCut(tokens, program) /\ ProgramSourced(program) /\ EmitAt
  BY EmitFacts
<1>3. /\ child \in 1..Len(program) /\ f.kind = "FailureAwareFunction" /\ bodyChild \in Nat \ {0}
      /\ activeFunction = <<>> \/ \E g : activeFunction = <<g>> /\ HeaderSourced(g)
  BY <1>1, <1>2 DEF EmitAt
<1>4. FunctionSourced(f) /\ PartsCut(tokens, f) /\ IsIrFunction(f)
  BY <1>2, <1>3 DEF ProgramSourced, ProgramCut, IsProgram
<1>5. Len(body) \in Nat /\ bodyChild \in 1..Len(body)
  <2>1. Len(body) \in Nat
    BY <1>4 DEF IsIrFunction, IsList
  <2> HIDE DEF body
  <2> QED
    BY <1>1, <1>3, <2>1
<1>6. Sourced(node) /\ IrCut(tokens, node) /\ IsRange(node.range) /\ Aligned(tokens, node.range)
  BY <1>4, <1>5 DEF FunctionSourced, PartsCut, IrCut
<1>7. IsList(emitted.errors)
  BY <1>6, ErrorsAreListed
<1> HIDE DEF emitted
<1>8. ASSUME backendErrors' = <<>>, NEW i \in 1..Len(tokens)-1, Unspent(tokens, program, i)
      PROVE  CopiedIf(tokens, i, emitter', SoFar(i)')
  <2> DEFINE begins == BeginsIn(tokens, i, node.range)
  <2>1. backendErrors = <<>> /\ emitted.errors = <<>>
    BY <1>1, <1>2, <1>7, <1>8, NoErrorReported
  <2>2. CopiedIf(tokens, i, emitter, SoFar(i))
    BY <1>1, <1>2, <1>8, <2>1 DEF CopyInv, Emits, CopiesSoFar
  <2>3. ~Spends(tokens, node, i)
    BY <1>3, <1>5, <1>8 DEF Unspent
  <2>4. CopyWhen(tokens, i, emitted.pieces, begins)
    BY <1>2, <1>3, <1>6, <2>1, <2>3, NodeCopies DEF emitted
  <2>5. SoFar(i) <=> Passed(tokens, program, child, i) \/ PassedIn(tokens, f, bodyChild, i)
    BY <1>1 DEF SoFar
  <2>6. SoFar(i)' <=> SoFar(i) \/ begins
    <3>1. SoFar(i)' <=> Passed(tokens, program, child, i) \/ PassedIn(tokens, f, bodyChild + 1, i)
      BY <1>1 DEF SoFar
    <3>2. Passed(tokens, body, bodyChild + 1, i) <=> Passed(tokens, body, bodyChild, i) \/ begins
      <4> HIDE DEF body
      <4> QED
        BY <1>5, PassedByOne
    <3> QED
      BY <2>5, <3>1, <3>2 DEF PassedIn
  <2>7. ~(SoFar(i) /\ begins)
    <3>1. begins => /\ BeginsIn(tokens, i, f.range) /\ ~InHeader(tokens, f, i)
                    /\ \A l \in 1..bodyChild-1 : ~BeginsIn(tokens, i, body[l].range)
      BY <1>2, <1>4, <1>5, PartsAreApart DEF FunctionSourced
    <3>2. begins => ~Passed(tokens, program, child, i)
      BY <1>2, <1>3, <3>1, NodesAreApart
    <3>3. begins => ~Passed(tokens, body, bodyChild, i)
      <4>1. \A k \in 1..Len(body) : k < bodyChild => k \in 1..bodyChild-1
        <5> HIDE DEF body
        <5> QED
          BY <1>5
      <4> QED
        BY <3>1, <4>1 DEF Passed
    <3> QED
      BY <2>5, <3>1, <3>2, <3>3 DEF PassedIn
  <2> HIDE DEF begins
  <2>8. CopiedIf(tokens, i, emitter', SoFar(i) \/ begins)
    BY <1>1, <1>2, <2>1, <2>2, <2>4, <2>7, WriteCopies
  <2> QED
    BY <2>6, <2>8 DEF CopiedIf
<1> QED
  BY <1>1, <1>8, EmitsOn

LEMMA LeavingKeepsCopies ==
  ASSUME CallInv, SourcesInv, IrInv, CopyInv, AnswerInv, Emit, Emission!LeaveFunction
  PROVE  CopyInv'
<1> DEFINE f == program[child]
           body == f.children
<1>1. /\ emission = "inFunction" /\ emission' = "emitting" /\ bodyChild > Len(body)
      /\ activeFunction' = <<>> /\ child' = child + 1
      /\ UNCHANGED <<tokens, program, bodyChild, emitter, backendErrors>>
  BY DEF Emission!LeaveFunction
<1>2. /\ IsTokenStream(tokens) /\ stage = "emit" /\ IsProgram(program)
      /\ Len(program) \in Nat /\ ProgramCut(tokens, program) /\ ProgramSourced(program) /\ EmitAt
  BY EmitFacts
<1>3. child \in 1..Len(program) /\ f.kind = "FailureAwareFunction" /\ bodyChild \in Nat
  BY <1>1, <1>2 DEF EmitAt
<1>4. HeaderSourced(f) /\ PartsCut(tokens, f) /\ Aligned(tokens, f.range) /\ Len(body) \in Nat
  BY <1>2, <1>3 DEF ProgramSourced, FunctionSourced, ProgramCut, IsProgram, IsIrFunction, IsList
<1>5. ASSUME backendErrors' = <<>>, NEW i \in 1..Len(tokens)-1, Unspent(tokens, program, i)
      PROVE  CopiedIf(tokens, i, emitter', SoFar(i)')
  <2>1. CopiedIf(tokens, i, emitter, SoFar(i))
    BY <1>1, <1>2, <1>5 DEF CopyInv, Emits, CopiesSoFar
  <2>2. PassedIn(tokens, f, bodyChild, i) <=> BeginsIn(tokens, i, f.range)
    <3>1. ~Spends(tokens, f, i)
      BY <1>3, <1>5 DEF Unspent
    <3> HIDE DEF f
    <3> QED
      BY <1>1, <1>2, <1>3, <1>4, <3>1, PartsAreAll
  <2>3. SoFar(i) <=> Passed(tokens, program, child, i) \/ PassedIn(tokens, f, bodyChild, i)
    BY <1>1 DEF SoFar
  <2>4. SoFar(i)' <=> Passed(tokens, program, child + 1, i)
    BY <1>1 DEF SoFar
  <2>5. SoFar(i)' <=> SoFar(i)
    BY <1>2, <1>3, <2>2, <2>3, <2>4, PassedByOne
  <2> QED
    BY <1>1, <2>1, <2>5 DEF CopiedIf
<1> QED
  BY <1>1, <1>5, EmitsOn

LEMMA FinishingKeepsCopies ==
  ASSUME CallInv, SourcesInv, IrInv, CopyInv, AnswerInv, Emit, Emission!FinishEmission
  PROVE  CopyInv'
<1>1. /\ emission = "emitting" /\ child > Len(program)
      /\ emission' = IF backendErrors = <<>> THEN "generated" ELSE "failed"
      /\ UNCHANGED <<tokens, program, emitter>>
  BY DEF Emission!FinishEmission
<1>2. /\ IsTokenStream(tokens) /\ tokens \in Streams /\ stage = "emit" /\ stage' = "emit"
      /\ Len(program) \in Nat /\ ProgramCut(tokens, program) /\ child \in Nat
  BY EmitFacts DEF EmitAt
<1>3. ASSUME backendErrors = <<>>, NEW i \in 1..Len(tokens)-1, Unspent(tokens, program, i)
      PROVE  CopiedOnce(tokens, i, emitter)
  <2>1. CopiedIf(tokens, i, emitter, SoFar(i))
    BY <1>1, <1>2, <1>3 DEF CopyInv, Emits, CopiesSoFar
  <2>2. SoFar(i)
    BY <1>1, <1>2, AllIsPassed DEF SoFar
  <2> QED
    BY <2>1, <2>2 DEF CopiedIf
<1>4. emission' = "generated" => AllCopied'
  BY <1>1, <1>3 DEF AllCopied
<1>5. stage' \notin EarlyStages /\ emission' \in {"generated", "failed"}
  BY <1>1, <1>2 DEF EarlyStages
<1> QED
  BY <1>1, <1>2, <1>4, <1>5 DEF CopyInv, Emits

LEMMA EmittingKeepsCopies ==
  ASSUME CallInv, SourcesInv, IrInv, CopyInv, AnswerInv, Emit
  PROVE  CopyInv'
BY EmitFacts, SupportKeepsCopies, TopLevelKeepsCopies, HeaderKeepsCopies, BodyKeepsCopies,
   LeavingKeepsCopies, FinishingKeepsCopies DEF Emission!Next

LEMMA CopiesAreKept ==
  CallInv /\ SourcesInv /\ IrInv /\ CopyInv /\ AnswerInv /\ [Next]_vars => CopyInv'
<1> SUFFICES ASSUME CallInv, SourcesInv, IrInv, CopyInv, AnswerInv, [Next]_vars PROVE CopyInv'
  OBVIOUS
<1>1. tokens' = tokens /\ tokens' \in Streams
  BY TokensStay DEF CopyInv
<1>2. workVars' = workVars =>
        UNCHANGED <<tokens, program, child, bodyChild, emission, emitter, activeFunction, backendErrors>>
  BY DEF workVars, cursor, emissionVars
<1>3. CASE Emit
  BY <1>3, EmittingKeepsCopies
<1>4. CASE FinishLowering
  <2>1. /\ stage = "lower" /\ workVars' = workVars /\ stage' \in {"emit", "done"}
        /\ lowering \in {"lowered", "failed"}
    BY <1>4 DEF FinishLowering, Proceed, Refuse, MakeResult
  <2>2. /\ child = 1 /\ activeFunction = <<>>
        /\ emission = "support" /\ emitter = Emission!EmptyEmitter
    BY <2>1 DEF SourcesInv, CopyInv, EarlyStages
  <2>3. UNCHANGED <<tokens, program, child, bodyChild, emission, emitter, activeFunction, backendErrors>>
    BY <1>2, <2>1
  <2>4. \A i : SoFar(i)' <=> SoFar(i)
    BY <2>3 DEF SoFar
  <2>5. CopiesSoFar'
    <3>1. \A i : CopiedIf(tokens, i, emitter, SoFar(i))
      BY <2>2, NothingCopied
    <3>2. \A i : CopiedIf(tokens, i, emitter', SoFar(i)')
      BY <2>3, <2>4, <3>1 DEF CopiedIf
    <3> QED
      BY <2>3, <3>2 DEF CopiesSoFar
  <2>6. stage' \notin EarlyStages
    BY <2>1 DEF EarlyStages
  <2>7. child' = 1 /\ activeFunction' = <<>> /\ emission' = "support"
    BY <2>2, <2>3
  <2> QED
    BY <1>1, <2>5, <2>6, <2>7 DEF CopyInv
<1>5. CASE FinishEmitting
  <2>1. stage = "emit" /\ workVars' = workVars /\ stage' = "done"
    BY <1>5 DEF FinishEmitting, Refuse, MakeResult
  <2>2. UNCHANGED <<tokens, program, emission, emitter>>
    BY <1>2, <2>1
  <2>3. emission' = "generated" => AllCopied'
    BY <2>2 DEF CopyInv, AllCopied
  <2> QED
    BY <1>1, <2>1, <2>3 DEF CopyInv, EarlyStages
<1>6. ASSUME stage \in EarlyStages, stage' # "emit", UNCHANGED <<emission, emitter>> PROVE CopyInv'
  <2>1. emission' = "support" /\ emitter' = Emission!EmptyEmitter
    BY <1>6 DEF CopyInv
  <2> QED
    BY <1>1, <1>6, <2>1 DEF CopyInv
<1>7. CASE Lex \/ FinishLexing \/ Parse \/ FinishParsing \/ Analyze \/ FinishAnalyzing
  <2>1. stage \in {"lex", "lexed", "parse", "analyze"} /\ stage' # "emit"
    BY <1>7 DEF Lex, FinishLexing, Parse, FinishParsing, Analyze, FinishAnalyzing, Proceed, Refuse,
       MakeResult, controlVars
  <2>2. workVars' = workVars \/ UNCHANGED emissionVars
    BY <1>7 DEF Lex, FinishLexing, Parse, FinishParsing, Analyze, FinishAnalyzing, Proceed
  <2>3. UNCHANGED <<emission, emitter>>
    BY <1>2, <2>2 DEF emissionVars
  <2> QED
    BY <1>6, <2>1, <2>3 DEF EarlyStages
<1>8. CASE BuildIr \/ FinishBuilding \/ Lower
  <2>1. stage \in {"build", "lower"} /\ stage' # "emit"
    BY <1>8 DEF BuildIr, FinishBuilding, Lower, Proceed, Refuse, MakeResult, controlVars
  <2>2. workVars' = workVars \/ UNCHANGED emissionVars
    BY <1>8 DEF BuildIr, FinishBuilding, Lower, Proceed
  <2>3. UNCHANGED <<emission, emitter>>
    BY <1>2, <2>2 DEF emissionVars
  <2> QED
    BY <1>6, <2>1, <2>3 DEF EarlyStages
<1>9. CASE UNCHANGED vars
  <2>1. stage' = stage
    BY <1>9 DEF vars, controlVars
  <2>2. UNCHANGED <<tokens, program, child, bodyChild, emission, emitter, activeFunction, backendErrors>>
    BY <1>2, <1>9 DEF vars
  <2>3. \A i : SoFar(i)' <=> SoFar(i)
    BY <2>2 DEF SoFar
  <2>4. CopiesSoFar => CopiesSoFar'
    BY <2>2, <2>3 DEF CopiesSoFar, CopiedIf
  <2>5. AllCopied => AllCopied'
    BY <2>2 DEF AllCopied
  <2>6. Emits' = Emits
    BY <2>2 DEF Emits
  <2> QED
    BY <1>1, <2>1, <2>2, <2>4, <2>5, <2>6 DEF CopyInv
<1> QED
  BY <1>3, <1>4, <1>5, <1>7, <1>8, <1>9 DEF Next, Process, Returned

-----------------------------------------------------------------------------
(* The property itself.                                                    *)

\* What a construct spends, said of one token.
LEMMA SpentIsSpends ==
  ASSUME NEW i \in 1..Len(tokens)-1, NEW node, i \notin Emission!SpentBy(node)
  PROVE  ~Spends(tokens, node, i)
<1>1. \A range : i \in Emission!TokensIn(range) <=> Holds(tokens, range, i)
  BY DEF Emission!TokensIn, Holds, Emission!Within, Within, Emission!ValidRange, ValidRange
<1>2. CASE node.kind \in {"Return", "Failure"}
  BY <1>1, <1>2 DEF Emission!SpentBy, Spends
<1>3. CASE node.kind = "TryInitialization"
  BY <1>1, <1>3 DEF Emission!SpentBy, Spends
<1>4. CASE node.kind = "Outcome"
  BY <1>1, <1>4 DEF Emission!SpentBy, Spends
<1>5. CASE node.kind = "FailureAwareFunction"
  BY <1>1, <1>5 DEF Emission!SpentBy, Spends
<1>6. CASE node.kind \notin {"Return", "Failure", "TryInitialization", "Outcome",
                             "FailureAwareFunction"}
  BY <1>6 DEF Spends
<1> QED
  BY <1>2, <1>3, <1>4, <1>5, <1>6

LEMMA UnspentTokens ==
  ASSUME IsProgram(program), NEW i \in 1..Len(tokens)-1,
         i \notin UNION {Emission!SpentBy(node) : node \in Emission!EmittedNodes}
  PROVE  Unspent(tokens, program, i)
<1>1. \A s : IsList(s) => \A k \in 1..Len(s) : s[k] \in Emission!ToSet(s)
  BY DEF IsList, Emission!ToSet
<1>2. \A k \in 1..Len(program) : program[k] \in Emission!ToSet(program)
  BY <1>1 DEF IsProgram
<1>3. ASSUME NEW k \in 1..Len(program) PROVE ~Spends(tokens, program[k], i)
  <2>1. program[k] \in Emission!EmittedNodes
    BY <1>2 DEF Emission!EmittedNodes
  <2>2. i \notin Emission!SpentBy(program[k])
    BY <2>1
  <2> QED
    BY <2>2, SpentIsSpends
<1>4. ASSUME NEW k \in 1..Len(program), program[k].kind = "FailureAwareFunction",
             NEW j \in 1..Len(program[k].children)
      PROVE  ~Spends(tokens, program[k].children[j], i)
  <2> DEFINE node == program[k].children[j]
  <2>1. IsList(program[k].children)
    BY <1>4 DEF IsProgram, IsIrFunction
  <2>2. node \in Emission!ToSet(program[k].children)
    BY <1>1, <2>1
  <2>3. program[k] \in Emission!EmittedFunctions
    BY <1>2, <1>4 DEF Emission!EmittedFunctions
  <2>4. node \in Emission!EmittedNodes
    BY <2>2, <2>3 DEF Emission!EmittedNodes
  <2>5. i \notin Emission!SpentBy(node)
    BY <2>4
  <2> QED
    BY <2>5, SpentIsSpends
<1> QED
  BY <1>3, <1>4 DEF Unspent

\* One entry and one offset are one position.
LEMMA CopiedOnceIsOneCopy ==
  ASSUME NEW i, CopiedOnce(tokens, i, emitter)
  PROVE  Emission!Cardinality(Emission!CopiesOf(i)) = 1
<1>1. PICK at \in 1..Len(emitter.sourceMap), to \in 1..Len(emitter.output) :
        \A k \in 1..Len(emitter.sourceMap), offset \in 1..Len(emitter.output) :
          CopyAt(tokens, i, emitter.sourceMap[k], emitter.output, offset) <=> k = at /\ offset = to
  BY DEF CopiedOnce
<1>2. ASSUME NEW k \in 1..Len(emitter.sourceMap), NEW offset \in 1..Len(emitter.output)
      PROVE  <<k, offset>> \in Emission!CopiesOf(i) <=> k = at /\ offset = to
  <2>1. <<k, offset>> \in Emission!CopiesOf(i) <=>
          CopyAt(tokens, i, emitter.sourceMap[k], emitter.output, offset)
    BY DEF Emission!CopiesOf, CopyAt, Emission!Covers
  <2> QED
    BY <1>1, <2>1
<1>3. \A x \in Emission!CopiesOf(i) :
        \E k \in 1..Len(emitter.sourceMap), offset \in 1..Len(emitter.output) : x = <<k, offset>>
  BY DEF Emission!CopiesOf
<1>4. Emission!CopiesOf(i) = {<<at, to>>}
  BY <1>2, <1>3
<1>5. Cardinality({<<at, to>>}) = 1
  BY FS_Singleton
<1>6. \A S : Emission!Cardinality(S) = Cardinality(S)
  BY DEF Emission!Cardinality, Cardinality
<1> QED
  BY <1>4, <1>5, <1>6

LEMMA CopiesImplyOnce ==
  ASSUME CallInv, CopyInv PROVE TokensAreCopiedOnce
<1> SUFFICES ASSUME emission = "generated", NEW i \in 1..Len(tokens)-1,
                    i \notin UNION {Emission!SpentBy(node) : node \in Emission!EmittedNodes}
             PROVE  Emission!Cardinality(Emission!CopiesOf(i)) = 1
  BY DEF TokensAreCopiedOnce, Emission!TokensAreCopiedOnce, Emission!Generates
<1>1. Unspent(tokens, program, i)
  BY UnspentTokens DEF CallInv, ProgramInv
<1> QED
  BY <1>1, CopiedOnceIsOneCopy DEF CopyInv, AllCopied

(***************************************************************************)
(* For every stream of tokens: when the backend has generated the text of  *)
(* a program, every token of the source that no construct spends is copied *)
(* to exactly one place, and the source map traces that place to the very  *)
(* token: no expression is lost, and none is evaluated twice.              *)
(***************************************************************************)
THEOREM NoTokenIsLostOrCopiedTwice == Spec => []TokensAreCopiedOnce
<1> DEFINE Inv == /\ CallInv /\ RangesInv /\ SourcesInv /\ AnswerInv
                  /\ CutsInv /\ IrInv /\ CopyInv
<1>1. Init => Inv
  BY InitIsCall, InitHasRanges, InitIsSourced, InitHasNoAnswer, InitHasCuts, InitCopiesNothing
<1>2. Inv /\ [Next]_vars => Inv'
  BY StepKeepsCall, RangesAreKeptInCall, SourcesAreKept, AnswersAreKept, CutsAreKeptInCall,
     IrIsKept, CopiesAreKept DEF CallInv
<1>3. Inv => TokensAreCopiedOnce
  BY CopiesImplyOnce
<1> QED
  BY <1>1, <1>2, <1>3, PTL DEF Spec

=============================================================================
