---------------------------- MODULE FrontendProofs ----------------------------
(***************************************************************************)
(* A call of Frontend::process, for every stream of tokens and every       *)
(* request. First the stages are known by what they promise at their end:  *)
(* one that fails has reported an error, one that ends well has not. Then  *)
(* the analysis, the program it is built into and the names the lowering   *)
(* generates.  Last the ranges, which are carried from the tokens through  *)
(* the tree and the program to the generated text: every piece the backend *)
(* writes is good.                                                         *)
(***************************************************************************)
EXTENDS Frontend, ParserProofs, FiniteSetTheorems

\* Which stage ran and which did not, and what the ones that ended reported.
SInv ==
  /\ request.action \in {"Analyze", "Lower", "Emit"}
  /\ stage \in {"lex", "lexed", "parse", "analyze", "build", "lower", "emit", "done"}
  /\ stage = "lex" => lexicalError = FALSE
  /\ lexicalError \in BOOLEAN
  /\ stage \notin {"lex", "lexed", "done"} => lexicalError = FALSE
  /\ stage \in {"lex", "lexed", "analyze", "build", "lower", "emit"} => syntaxErrors = <<>>
  /\ stage \in {"lex", "lexed", "parse"} => analysis = "collecting" /\ semanticErrors = <<>>
  /\ analysis = "accepted" => semanticErrors = <<>>
  /\ analysis = "rejected" => semanticErrors # <<>>
  /\ stage \in {"build", "lower", "emit"} => analysis = "accepted" /\ request.action # "Analyze"
  /\ stage \in {"lex", "lexed", "parse", "analyze"} => construction = "building"
  /\ construction \in {"building", "inFunction", "built"} => irErrors = <<>>
  /\ construction = "failed" => irErrors # <<>>
  /\ stage \in {"lower", "emit"} => construction = "built"
  /\ stage \in {"lex", "lexed", "parse", "analyze", "build"} =>
       lowering = "lowering" /\ loweringErrors = <<>>
  /\ lowering = "lowered" => loweringErrors = <<>>
  /\ lowering = "failed" => loweringErrors # <<>>
  /\ stage = "emit" => lowering = "lowered" /\ request.action # "Lower"
  /\ stage \in {"lex", "lexed", "parse", "analyze", "build", "lower"} =>
       emission = "support" /\ backendErrors = <<>>
  /\ emission = "generated" => backendErrors = <<>>
  /\ emission = "failed" => backendErrors # <<>>

LEMMA InitEstablishesSInv == Init => SInv
BY RequestsAssumption
   DEF Init, SInv, Analysis!Init, Construction!Init, LoweringStage!Init, Emission!Init,
       ParserInit

-----------------------------------------------------------------------------
(* The steps of the stages.                                                *)

\* An analysis that accepts a source has reported nothing.
LEMMA AnalysisEnds ==
  ASSUME Analysis!Next
  PROVE  analysis' \in {"accepted", "rejected"} =>
           UNCHANGED semanticErrors
           /\ (analysis' = "accepted" <=> semanticErrors = <<>>)
BY DEF Analysis!Next, Analysis!CollectDeclaration, Analysis!StartAnalyzing,
       Analysis!AnalyzeTopLevel, Analysis!EnterFunction, Analysis!AnalyzeBodyChild,
       Analysis!LeaveFunction, Analysis!FinishAnalysis

\* What cannot be built is told with at least one error.
LEMMA UnbuiltIsAnError ==
  ASSUME NEW node, NEW failureType
  PROVE  /\ Construction!Build(node, failureType).ir = <<>> =>
              \E code : Construction!Build(node, failureType).errors = <<code>>
         /\ Construction!BuildFunction(node).ir = <<>> =>
              \E code : Construction!BuildFunction(node).errors \in {<<code>>, <<code, "VIXC5016">>}
<1> DEFINE Told(built) == built.ir = <<>> => \E code : built.errors = <<code>>
<1>1. ASSUME NEW code PROVE Told(Construction!Failed(code))
  BY DEF Construction!Failed
<1>2. ASSUME NEW ir PROVE Told(Construction!Built(ir))
  BY DEF Construction!Built
<1> HIDE DEF Told
<1>3. ASSUME NEW n PROVE Told(Construction!BuildSpecification(n))
  BY <1>1, <1>2 DEF Construction!BuildSpecification
<1>4. ASSUME NEW n, NEW type PROVE Told(Construction!BuildTry(n, type))
  BY <1>1, <1>2 DEF Construction!BuildTry
<1>5. ASSUME NEW n, NEW type PROVE Told(Construction!BuildFail(n, type))
  BY <1>1, <1>2, <1>4 DEF Construction!BuildFail
<1>6. ASSUME NEW n PROVE Told(Construction!BuildReturn(n))
  BY <1>1, <1>2 DEF Construction!BuildReturn
<1>7. ASSUME NEW n, NEW type PROVE Told(Construction!BuildTryInitialization(n, type))
  BY <1>1, <1>2, <1>4 DEF Construction!BuildTryInitialization
<1>8. Told(Construction!Build(node, failureType))
  BY <1>2, <1>3, <1>4, <1>5, <1>6, <1>7 DEF Construction!Build
<1> DEFINE ToldOfFunction(built) ==
             built.ir = <<>> => \E code : built.errors \in {<<code>>, <<code, "VIXC5016">>}
<1>9. ToldOfFunction(Construction!BuildFunction(node))
  <2> DEFINE Longer(built) == [built EXCEPT !.errors = @ \o <<"VIXC5016">>]
  <2>1. ASSUME NEW n, Construction!BuildSpecification(n).ir = <<>>
        PROVE  ToldOfFunction(Longer(Construction!BuildSpecification(n)))
    <3>1. PICK code : Construction!BuildSpecification(n) = Construction!Failed(code)
      BY <2>1 DEF Construction!BuildSpecification, Construction!Built
    <3>2. Longer(Construction!Failed(code)).errors = <<code>> \o <<"VIXC5016">>
      BY DEF Construction!Failed
    <3>3. <<code>> \o <<"VIXC5016">> = <<code, "VIXC5016">>
      <4> DEFINE both == <<code>> \o <<"VIXC5016">>
      <4>1. both \in Seq({code, "VIXC5016"}) /\ Len(both) = 2
        OBVIOUS
      <4>2. both[1] = code /\ both[2] = "VIXC5016"
        OBVIOUS
      <4> HIDE DEF both
      <4>3. both = <<code, "VIXC5016">>
        BY <4>1, <4>2
      <4>4. QED
        BY <4>3 DEF both
    <3>4. QED
      BY <3>1, <3>2, <3>3
  <2>2. ASSUME NEW code PROVE ToldOfFunction(Construction!Failed(code))
    BY DEF Construction!Failed
  <2>3. ASSUME NEW ir PROVE ToldOfFunction(Construction!Built(ir))
    BY DEF Construction!Built
  <2> HIDE DEF ToldOfFunction, Longer
  <2>4. \A n : Construction!BuildSpecification(n).ir = <<>> =>
               ToldOfFunction(Longer(Construction!BuildSpecification(n)))
    BY <2>1
  <2>5. QED
    BY <2>2, <2>3, <2>4 DEF Construction!BuildFunction, Longer
<1>10. QED
  BY <1>8, <1>9 DEF Told

\* A construction that has not failed has reported nothing.
LEMMA ConstructionEnds ==
  ASSUME Construction!Next, irErrors = <<>>
  PROVE  /\ construction \in {"building", "inFunction"}
         /\ construction' \in {"building", "inFunction", "built", "failed"}
         /\ construction' = "failed" => irErrors' # <<>>
         /\ construction' # "failed" => irErrors' = <<>>
<1>1. ASSUME NEW errors, NEW code, Construction!Stop(errors),
             errors \in {<<code>>, <<code, "VIXC5016">>}
      PROVE  construction' = "failed" /\ irErrors' # <<>>
  BY <1>1 DEF Construction!Stop
<1>2. CASE Construction!BuildTopLevel
  <2>1. construction = "building"
    BY <1>2 DEF Construction!BuildTopLevel
  <2> DEFINE built == Construction!Build(unit.children[child], contract)
  <2>2. CASE built.ir = <<>>
    <3>1. Construction!Stop(built.errors)
      BY <1>2, <2>2 DEF Construction!BuildTopLevel
    <3>2. PICK code : built.errors = <<code>>
      BY <2>2, UnbuiltIsAnError
    <3>3. QED
      BY <1>1, <2>1, <3>1, <3>2
  <2>3. CASE built.ir # <<>>
    BY <1>2, <2>1, <2>3 DEF Construction!BuildTopLevel
  <2>4. QED
    BY <2>2, <2>3
<1>3. CASE Construction!BeginFunction
  <2>1. construction = "building"
    BY <1>3 DEF Construction!BeginFunction
  <2> DEFINE built == Construction!BuildFunction(unit.children[child])
  <2>2. CASE built.ir = <<>>
    <3>1. Construction!Stop(built.errors)
      BY <1>3, <2>2 DEF Construction!BeginFunction
    <3>2. PICK code : built.errors \in {<<code>>, <<code, "VIXC5016">>}
      BY <2>2, UnbuiltIsAnError
    <3>3. QED
      BY <1>1, <2>1, <3>1, <3>2
  <2>3. CASE built.ir # <<>>
    BY <1>3, <2>1, <2>3 DEF Construction!BeginFunction
  <2>4. QED
    BY <2>2, <2>3
<1>4. CASE Construction!BuildBodyChild
  <2>1. construction = "inFunction"
    BY <1>4 DEF Construction!BuildBodyChild
  <2> DEFINE built == Construction!Build(unit.children[child].children[bodyChild], bodyContract)
  <2>2. CASE built.ir = <<>>
    <3>1. Construction!Stop(built.errors)
      BY <1>4, <2>2 DEF Construction!BuildBodyChild
    <3>2. PICK code : built.errors = <<code>>
      BY <2>2, UnbuiltIsAnError
    <3>3. QED
      BY <1>1, <2>1, <3>1, <3>2
  <2>3. CASE built.ir # <<>>
    BY <1>4, <2>1, <2>3 DEF Construction!BuildBodyChild
  <2>4. QED
    BY <2>2, <2>3
<1>5. CASE Construction!EndFunction
  BY <1>5 DEF Construction!EndFunction
<1>6. CASE Construction!FinishConstruction
  BY <1>6 DEF Construction!FinishConstruction
<1>7. QED
  BY <1>2, <1>3, <1>4, <1>5, <1>6 DEF Construction!Next

\* The lowering and the emission end the same way.
LEMMA LoweringEnds ==
  ASSUME LoweringStage!Next
  PROVE  /\ lowering' = "lowered" => loweringErrors' = <<>>
         /\ lowering' = "failed" => loweringErrors' # <<>>
BY DEF LoweringStage!Next, LoweringStage!LowerNode, LoweringStage!RefuseVoidFunction,
       LoweringStage!BeginFunction, LoweringStage!NumberInitialization,
       LoweringStage!MarkLowered, LoweringStage!FinishLowering, LoweringStage!InFunction

LEMMA EmissionEnds ==
  ASSUME Emission!Next
  PROVE  /\ emission' = "generated" => backendErrors' = <<>>
         /\ emission' = "failed" => backendErrors' # <<>>
BY DEF Emission!Next, Emission!EmitSupport, Emission!EmitTopLevel, Emission!EnterFunction,
       Emission!EmitBodyChild, Emission!LeaveFunction, Emission!FinishEmission

-----------------------------------------------------------------------------
(* The call.                                                               *)

\* The result of a call that is over, and of one that is not.
RInv ==
  /\ SInv
  /\ ResultAnswersTheRequest

\* A stage that is over either goes on or makes the result.
LEMMA ProceedKeepsRInv ==
  ASSUME RInv, stage # "done", NEW failed, NEW answers, NEW next,
         Proceed(failed, answers, next), next # "done", failed \in BOOLEAN, answers \in BOOLEAN,
         failed => HasErrors,
         ~failed => ~HasErrors,
         ~failed /\ answers =>
           CASE request.action = "Analyze" -> analysis = "accepted"
             [] request.action = "Lower" -> lowering = "lowered"
             [] OTHER -> FALSE
  PROVE  ResultAnswersTheRequest'
<1>1. UNCHANGED <<request, lexicalError, syntaxErrors, analysis, semanticErrors, irErrors,
                  lowering, loweringErrors, emission, emitter, backendErrors>>
  BY DEF Proceed, workVars, parserVars, analysisVars, irVars, loweringVars, emissionVars
<1>2. Errors' = Errors /\ HasErrors' = HasErrors
  BY <1>1 DEF Errors, HasErrors
<1>3. CASE failed
  <2>1. result' = [success |-> FALSE, errors |-> Errors, output |-> <<>>, mappings |-> <<>>]
    BY <1>3 DEF Proceed, Refuse, MakeResult
  <2>2. QED
    BY <1>2, <1>3, <2>1 DEF ResultAnswersTheRequest
<1>4. CASE ~failed /\ answers
  <2>1. result' = [success |-> TRUE, errors |-> Errors, output |-> <<>>, mappings |-> <<>>]
    BY <1>4 DEF Proceed, MakeResult
  <2>2. QED
    BY <1>1, <1>2, <1>4, <2>1 DEF ResultAnswersTheRequest
<1>5. CASE ~failed /\ ~answers
  <2>1. stage' = next
    BY <1>5 DEF Proceed
  <2>2. QED
    BY <2>1 DEF ResultAnswersTheRequest
<1>6. QED
  BY <1>3, <1>4, <1>5

LEMMA StepKeepsRInv == RInv /\ [Next]_vars => RInv'
<1> SUFFICES ASSUME RInv, [Next]_vars PROVE RInv'
  OBVIOUS
<1> USE DEF controlVars, cursor
<1> DEFINE Frame == UNCHANGED <<lexicalError, syntaxErrors, analysis, semanticErrors, construction,
                                irErrors, lowering, loweringErrors, emission, backendErrors>>
<1>1. workVars' = workVars /\ lexicalError' = lexicalError => Frame
  BY DEF workVars, parserVars, analysisVars, irVars, loweringVars, emissionVars
<1> HIDE DEF Frame
<1>2. CASE Lex
  <2>1. /\ stage = "lex" /\ stage' = "lexed" /\ request' = request
        /\ lexicalError' \in BOOLEAN
        /\ UNCHANGED <<syntaxErrors, analysis, semanticErrors, construction, irErrors, lowering,
                       loweringErrors, emission, backendErrors>>
    BY <1>2 DEF Lex, workVars, parserVars, analysisVars, irVars, loweringVars, emissionVars
  <2>2. QED
    BY <2>1 DEF RInv, SInv, ResultAnswersTheRequest
<1>3. CASE FinishLexing
  <2>1. stage = "lexed" /\ Proceed(lexicalError, FALSE, "parse")
    BY <1>3 DEF FinishLexing
  <2>2. Frame /\ request' = request /\ stage' \in {"parse", "done"}
        /\ (stage' = "parse" => lexicalError = FALSE)
    BY <1>1, <2>1 DEF Proceed, Refuse, MakeResult
  <2>3. SInv'
    BY <2>1, <2>2 DEF RInv, SInv, Frame
  <2>4. ResultAnswersTheRequest'
    BY <2>1, ProceedKeepsRInv DEF RInv, SInv, HasErrors
  <2>5. QED
    BY <2>3, <2>4 DEF RInv
<1>4. CASE Parse
  <2>1. /\ stage = "parse" /\ stage' = "parse" /\ UNCHANGED <<request, lexicalError>>
        /\ UNCHANGED <<analysis, semanticErrors, construction, irErrors, lowering,
                       loweringErrors, emission, backendErrors>>
    BY <1>4 DEF Parse, analysisVars, irVars, loweringVars, emissionVars
  <2>2. QED
    BY <2>1 DEF RInv, SInv, ResultAnswersTheRequest
<1>5. CASE FinishParsing
  <2>1. stage = "parse" /\ Proceed(syntaxErrors # <<>>, FALSE, "analyze")
    BY <1>5 DEF FinishParsing
  <2>2. Frame /\ request' = request /\ stage' \in {"analyze", "done"}
        /\ (stage' = "analyze" => syntaxErrors = <<>>)
    BY <1>1, <2>1 DEF Proceed, Refuse, MakeResult
  <2>3. SInv'
    BY <2>1, <2>2 DEF RInv, SInv, Frame
  <2>4. ResultAnswersTheRequest'
    BY <2>1, ProceedKeepsRInv DEF RInv, SInv, HasErrors
  <2>5. QED
    BY <2>3, <2>4 DEF RInv
<1>6. CASE Analyze
  <2>1. /\ stage = "analyze" /\ stage' = "analyze" /\ UNCHANGED <<request, lexicalError>>
        /\ UNCHANGED <<syntaxErrors, construction, irErrors, lowering,
                       loweringErrors, emission, backendErrors>>
    BY <1>6 DEF Analyze, parserVars, irVars, loweringVars, emissionVars
  <2>2. /\ analysis' = "accepted" => semanticErrors' = <<>>
        /\ analysis' = "rejected" => semanticErrors' # <<>>
    BY <1>6, AnalysisEnds DEF Analyze
  <2>3. QED
    BY <2>1, <2>2 DEF RInv, SInv, ResultAnswersTheRequest
<1>7. CASE FinishAnalyzing
  <2>1. /\ stage = "analyze" /\ analysis \in {"accepted", "rejected"}
        /\ Proceed(analysis = "rejected", request.action = "Analyze", "build")
    BY <1>7 DEF FinishAnalyzing
  <2>2. Frame /\ request' = request /\ stage' \in {"build", "done"}
        /\ (stage' = "build" => analysis = "accepted" /\ request.action # "Analyze")
    BY <1>1, <2>1 DEF Proceed, Refuse, MakeResult
  <2>3. SInv'
    BY <2>1, <2>2 DEF RInv, SInv, Frame
  <2>4. ResultAnswersTheRequest'
    BY <2>1, ProceedKeepsRInv DEF RInv, SInv, HasErrors
  <2>5. QED
    BY <2>3, <2>4 DEF RInv
<1>8. CASE BuildIr
  <2>1. /\ stage = "build" /\ stage' = "build" /\ UNCHANGED <<request, lexicalError>>
        /\ UNCHANGED <<syntaxErrors, analysis, semanticErrors, lowering,
                       loweringErrors, emission, backendErrors>>
    BY <1>8 DEF BuildIr, parserVars, loweringVars, emissionVars
  <2>2. irErrors = <<>>
    BY <1>8 DEF BuildIr, RInv, SInv, Construction!Next, Construction!BuildTopLevel,
                Construction!BeginFunction, Construction!BuildBodyChild,
                Construction!EndFunction, Construction!FinishConstruction
  <2>3. /\ construction' = "failed" => irErrors' # <<>>
        /\ construction' # "failed" => irErrors' = <<>>
    BY <1>8, <2>2, ConstructionEnds DEF BuildIr
  <2>4. QED
    BY <2>1, <2>3 DEF RInv, SInv, ResultAnswersTheRequest
<1>9. CASE FinishBuilding
  <2>1. /\ stage = "build" /\ construction \in {"built", "failed"}
        /\ Proceed(construction = "failed" \/ irErrors # <<>>, FALSE, "lower")
    BY <1>9 DEF FinishBuilding
  <2>2. Frame /\ request' = request /\ stage' \in {"lower", "done"}
        /\ (stage' = "lower" => construction = "built")
    BY <1>1, <2>1 DEF Proceed, Refuse, MakeResult
  <2>3. SInv'
    BY <2>1, <2>2 DEF RInv, SInv, Frame
  <2>4. ResultAnswersTheRequest'
    BY <2>1, ProceedKeepsRInv DEF RInv, SInv, HasErrors
  <2>5. QED
    BY <2>3, <2>4 DEF RInv
<1>10. CASE Lower
  <2>1. /\ stage = "lower" /\ stage' = "lower" /\ UNCHANGED <<request, lexicalError>>
        /\ UNCHANGED <<syntaxErrors, analysis, semanticErrors, construction, irErrors,
                       emission, backendErrors>>
    BY <1>10 DEF Lower, parserVars, analysisVars, irVars, emissionVars
  <2>2. /\ lowering' = "lowered" => loweringErrors' = <<>>
        /\ lowering' = "failed" => loweringErrors' # <<>>
    BY <1>10, LoweringEnds DEF Lower
  <2>3. QED
    BY <2>1, <2>2 DEF RInv, SInv, ResultAnswersTheRequest
<1>11. CASE FinishLowering
  <2>1. /\ stage = "lower" /\ lowering \in {"lowered", "failed"}
        /\ Proceed(lowering = "failed", request.action = "Lower", "emit")
    BY <1>11 DEF FinishLowering
  <2>2. Frame /\ request' = request /\ stage' \in {"emit", "done"}
        /\ (stage' = "emit" => lowering = "lowered" /\ request.action # "Lower")
    BY <1>1, <2>1 DEF Proceed, Refuse, MakeResult
  <2>3. SInv'
    BY <2>1, <2>2 DEF RInv, SInv, Frame
  <2>4. ResultAnswersTheRequest'
    BY <2>1, ProceedKeepsRInv DEF RInv, SInv, HasErrors
  <2>5. QED
    BY <2>3, <2>4 DEF RInv
<1>12. CASE Emit
  <2>1. /\ stage = "emit" /\ stage' = "emit" /\ UNCHANGED <<request, lexicalError>>
        /\ UNCHANGED <<syntaxErrors, analysis, semanticErrors, construction, irErrors,
                       lowering, loweringErrors>>
    BY <1>12 DEF Emit, parserVars, analysisVars, irVars, loweringVars
  <2>2. /\ emission' = "generated" => backendErrors' = <<>>
        /\ emission' = "failed" => backendErrors' # <<>>
    BY <1>12, EmissionEnds DEF Emit
  <2>3. QED
    BY <2>1, <2>2 DEF RInv, SInv, ResultAnswersTheRequest
<1>13. CASE FinishEmitting
  <2>1. /\ stage = "emit" /\ stage' = "done" /\ emission \in {"generated", "failed"}
        /\ request' = request /\ Frame /\ emitter' = emitter
    BY <1>1, <1>13 DEF FinishEmitting, Refuse, MakeResult, workVars, emissionVars
  <2>2. Errors' = Errors /\ HasErrors' = HasErrors
    BY <2>1 DEF Frame, Errors, HasErrors
  <2>3. SInv'
    BY <2>1 DEF RInv, SInv, Frame
  <2>4. CASE emission = "failed"
    <3>1. result' = [success |-> FALSE, errors |-> Errors, output |-> <<>>, mappings |-> <<>>]
      BY <1>13, <2>4 DEF FinishEmitting, Refuse, MakeResult
    <3>2. HasErrors
      BY <2>4 DEF RInv, SInv, HasErrors
    <3>3. QED
      BY <2>2, <2>3, <3>1, <3>2 DEF RInv, ResultAnswersTheRequest
  <2>5. CASE emission = "generated"
    <3>1. /\ result'.success = TRUE /\ result'.errors = Errors
          /\ result'.output = emitter.output
      BY <1>13, <2>5 DEF FinishEmitting, MakeResult
    <3>2. ~HasErrors /\ request.action = "Emit"
      BY <2>1, <2>5 DEF RInv, SInv, HasErrors
    <3>3. emission' = emission
      BY <2>1 DEF Frame
    <3>4. QED
      BY <2>1, <2>2, <2>3, <2>5, <3>1, <3>2, <3>3 DEF RInv, ResultAnswersTheRequest
  <2>6. QED
    BY <2>1, <2>4, <2>5
<1>14. CASE UNCHANGED vars
  <2>1. UNCHANGED <<request, stage, result, workVars, lexicalError, emitter>> /\ Frame
    BY <1>1, <1>14 DEF vars, workVars, emissionVars
  <2>2. SInv'
    BY <2>1 DEF RInv, SInv, Frame
  <2>3. Errors' = Errors /\ HasErrors' = HasErrors
    BY <2>1 DEF Frame, Errors, HasErrors
  <2>4. UNCHANGED <<analysis, lowering, emission>>
    BY <2>1 DEF Frame
  <2>5. ResultAnswersTheRequest'
    BY <2>1, <2>3, <2>4 DEF RInv, ResultAnswersTheRequest
  <2>6. QED
    BY <2>2, <2>5 DEF RInv
<1>15. QED
  BY <1>2, <1>3, <1>4, <1>5, <1>6, <1>7, <1>8, <1>9, <1>10, <1>11, <1>12, <1>13, <1>14
     DEF Next, Process, Returned

(***************************************************************************)
(* For every stream of tokens and every request, the result of             *)
(* Frontend::process carries every diagnostic, is successful exactly       *)
(* without one, and hands out text only for an Emit request whose source   *)
(* every stage accepted.                                                   *)
(***************************************************************************)
THEOREM ResultIsAnAnswer == Spec => []ResultAnswersTheRequest
<1>1. Init => RInv
  <2>1. Init => stage # "done"
    BY DEF Init
  <2>2. QED
    BY <2>1, InitEstablishesSInv DEF RInv, ResultAnswersTheRequest
<1>2. RInv => ResultAnswersTheRequest
  BY DEF RInv
<1>3. QED
  BY <1>1, <1>2, StepKeepsRInv, PTL DEF Spec

-----------------------------------------------------------------------------
(* The parser in the call.                                                 *)

LEMMA InitParses == Init => IInv /\ TreeInv
BY InitIsTyped, InitIsGood DEF Init

\* A step of the call is a step of the parser or leaves its state alone.
LEMMA ParserRunsAlone == [Next]_vars => ParserStep \/ UNCHANGED parsingVars
<1> SUFFICES ASSUME [Next]_vars PROVE ParserStep \/ UNCHANGED parsingVars
  OBVIOUS
<1>1. workVars' = workVars => UNCHANGED parsingVars
  BY DEF workVars, parserVars, parsingVars
<1>2. UNCHANGED <<tokens, unit, parserVars>> => UNCHANGED parsingVars
  BY DEF parserVars, parsingVars
<1>3. CASE UNCHANGED vars
  BY <1>1, <1>3 DEF vars
<1>4. CASE Returned
  BY <1>1, <1>4 DEF Returned, vars
<1>5. CASE Lex
  BY <1>1, <1>5 DEF Lex
<1>6. CASE FinishLexing
  BY <1>1, <1>6 DEF FinishLexing, Proceed
<1>7. CASE FinishParsing
  BY <1>1, <1>7 DEF FinishParsing, Proceed
<1>8. CASE FinishAnalyzing
  BY <1>1, <1>8 DEF FinishAnalyzing, Proceed
<1>9. CASE FinishBuilding
  BY <1>1, <1>9 DEF FinishBuilding, Proceed
<1>10. CASE FinishLowering
  BY <1>1, <1>10 DEF FinishLowering, Proceed
<1>11. CASE FinishEmitting
  BY <1>1, <1>11 DEF FinishEmitting
<1>12. CASE Parse
  BY <1>12 DEF Parse
<1>13. CASE Analyze
  <2>1. UNCHANGED <<tokens, unit>>
    BY <1>13 DEF Analyze, Analysis!Next, Analysis!CollectDeclaration, Analysis!StartAnalyzing,
       Analysis!AnalyzeTopLevel, Analysis!EnterFunction, Analysis!AnalyzeBodyChild,
       Analysis!LeaveFunction, Analysis!FinishAnalysis
  <2> QED
    BY <1>2, <1>13, <2>1 DEF Analyze
<1>14. CASE BuildIr
  <2>1. UNCHANGED unit
    BY <1>14 DEF BuildIr, Construction!Next, Construction!BuildTopLevel,
       Construction!BeginFunction, Construction!BuildBodyChild, Construction!EndFunction,
       Construction!FinishConstruction
  <2> QED
    BY <1>2, <1>14, <2>1 DEF BuildIr
<1>15. CASE Lower
  <2>1. UNCHANGED tokens
    BY <1>15 DEF Lower, LoweringStage!Next, LoweringStage!LowerNode,
       LoweringStage!RefuseVoidFunction, LoweringStage!BeginFunction,
       LoweringStage!NumberInitialization, LoweringStage!MarkLowered,
       LoweringStage!FinishLowering
  <2> QED
    BY <1>2, <1>15, <2>1 DEF Lower
<1>16. CASE Emit
  <2>1. UNCHANGED tokens
    BY <1>16 DEF Emit, Emission!Next, Emission!EmitSupport, Emission!EmitTopLevel,
       Emission!EnterFunction, Emission!EmitBodyChild, Emission!LeaveFunction,
       Emission!FinishEmission
  <2> QED
    BY <1>2, <1>16, <2>1 DEF Emit
<1> QED
  BY <1>3, <1>4, <1>5, <1>6, <1>7, <1>8, <1>9, <1>10, <1>11, <1>12, <1>13, <1>14, <1>15, <1>16
     DEF Next, Process

LEMMA ParserIsKept == IInv /\ TreeInv /\ [Next]_vars => IInv' /\ TreeInv'
<1>1. IInv /\ ParserStep => IInv'
  BY ParserStepKeeps
<1> QED
  BY <1>1, ParserRunsAlone, StutterKeeps, StepKeepsTree, StutterKeepsTree

-----------------------------------------------------------------------------
(* The analysis in the call.                                               *)

\* A child of the unit that needs a function around it.
Stray(node) == node.kind \in {"FailStatement", "TryExpression"}

\* The passes work over a finished tree, and as long as nothing is reported
\* no child before "child" has been a stray one.
AnalysisInv ==
  /\ stage \in {"lex", "lexed", "parse"} =>
       /\ child = 1 /\ failureFunctions = <<>> /\ failureContexts = <<>> /\ resolutions = <<>>
  /\ stage = "analyze" \/ analysis # "collecting" => phase = "done"
  /\ IsList(failureFunctions) /\ IsList(resolutions) /\ IsList(semanticErrors)
  /\ stage = "analyze" => Analysis!TypeOK
  /\ stage = "analyze" /\ analysis = "inFunction" =>
       child <= Len(unit.children) /\ unit.children[child].kind = "FunctionDeclaration"
  /\ stage = "analyze" /\ analysis \in {"analyzing", "inFunction"} /\ semanticErrors = <<>> =>
       \A k \in 1..child-1 : ~Stray(unit.children[k])
  /\ analysis = "accepted" => \A k \in 1..Len(unit.children) : ~Stray(unit.children[k])

\* What a check of the analysis may report and record.
CheckedNode(checked) ==
  /\ checked.errors = <<>> \/ \E code : checked.errors = <<code>>
  /\ checked.resolution = <<>> \/
       \E r : checked.resolution = <<r>> /\ r.callee \in 1..Len(failureFunctions)

LEMMA CandidatesExist ==
  ASSUME NEW name, IsList(failureFunctions), Analysis!Candidates(name) # {}
  PROVE  Analysis!Min(Analysis!Candidates(name)) \in 1..Len(failureFunctions)
<1> DEFINE S == Analysis!Candidates(name)
<1>1. S \in SUBSET (1..Len(failureFunctions)) /\ S # {}
  BY DEF Analysis!Candidates
<1>2. S \in SUBSET Nat
  BY <1>1 DEF IsList
<1>3. \A T : Analysis!Min(T) = Min(T)
  BY DEF Analysis!Min, Min
<1> HIDE DEF S
<1>4. Min(S) \in S
  BY <1>1, <1>2, MinOfNaturals
<1> QED
  BY <1>1, <1>3, <1>4 DEF S

LEMMA TryIsChecked ==
  ASSUME NEW node, IsList(failureFunctions)
  PROVE  /\ CheckedNode(Analysis!CheckTry(node))
         /\ failureContexts = <<>> => Analysis!CheckTry(node) = Analysis!Rejected("VIXC2014")
<1> DEFINE name == Analysis!Spelling(tokens, node.children[1].children[1].range)
           candidates == Analysis!Candidates(name)
<1>1. \A code : CheckedNode(Analysis!Rejected(code))
  BY DEF Analysis!Rejected, CheckedNode
<1>2. ASSUME NEW id \in 1..Len(failureFunctions)
      PROVE  CheckedNode(Analysis!CheckPropagation(node, id))
  <2> DEFINE r == [try |-> node.range, callee |-> id,
                   failureType |-> failureFunctions[id].failureType]
  <2>1. CheckedNode([errors |-> <<>>, resolution |-> <<r>>])
    <3>1. r.callee = id
      OBVIOUS
    <3> HIDE DEF r
    <3> QED
      BY <3>1 DEF CheckedNode
  <2> QED
    BY <1>1, <2>1 DEF Analysis!CheckPropagation
<1>3. candidates # {} => Analysis!Min(candidates) \in 1..Len(failureFunctions)
  BY CandidatesExist
<1>4. candidates # {} => CheckedNode(Analysis!CheckPropagation(node, Analysis!Min(candidates)))
  BY <1>2, <1>3
<1> HIDE DEF CheckedNode
<1> QED
  BY <1>1, <1>4 DEF Analysis!CheckTry

LEMMA NodeIsChecked ==
  ASSUME NEW node, IsList(failureFunctions)
  PROVE  /\ CheckedNode(Analysis!Check(node))
         /\ failureContexts = <<>> => Analysis!Check(node).resolution = <<>>
         /\ failureContexts = <<>> /\ Stray(node) => Analysis!Check(node).errors # <<>>
<1>1. \A code : CheckedNode(Analysis!Rejected(code)) /\ Analysis!Rejected(code).resolution = <<>>
                /\ Analysis!Rejected(code).errors # <<>>
  BY OneIsNotNone DEF Analysis!Rejected, CheckedNode
<1>2. CheckedNode(Analysis!Accepted) /\ Analysis!Accepted.resolution = <<>>
  BY DEF Analysis!Accepted, CheckedNode
<1>3. \A n : /\ CheckedNode(Analysis!CheckTry(n))
             /\ failureContexts = <<>> => Analysis!CheckTry(n) = Analysis!Rejected("VIXC2014")
  BY TryIsChecked
<1>4. CheckedNode(Analysis!CheckSpecification(node))
      /\ Analysis!CheckSpecification(node).resolution = <<>>
  BY <1>1, <1>2 DEF Analysis!CheckSpecification
<1>5. /\ CheckedNode(Analysis!CheckFail(node)) /\ Analysis!CheckFail(node).resolution = <<>>
      /\ failureContexts = <<>> => Analysis!CheckFail(node) = Analysis!Rejected("VIXC2006")
  BY <1>1, <1>2 DEF Analysis!CheckFail
<1> HIDE DEF CheckedNode
<1>6. CASE node.kind \in {"FailStatement", "TryExpression"}
  BY <1>1, <1>3, <1>5, <1>6 DEF Analysis!Check
<1>7. CASE node.kind \notin {"FailStatement", "TryExpression"}
  <2>1. ~Stray(node)
    BY <1>7 DEF Stray
  <2> QED
    BY <1>1, <1>2, <1>3, <1>4, <1>7, <2>1 DEF Analysis!Check
<1> QED
  BY <1>6, <1>7

\* The list holds resolutions to registered functions only.
Resolved(list) ==
  IsList(list) /\ \A i \in 1..Len(list) : list[i].callee \in 1..Len(failureFunctions)

LEMMA RecordedIsResolved ==
  ASSUME NEW new, Resolved(resolutions), new.callee \in 1..Len(failureFunctions)
  PROVE  Resolved(Analysis!Recorded(new))
<1> DEFINE n == Len(resolutions)
           replaced == [i \in DOMAIN resolutions |->
                          IF resolutions[i].try = new.try THEN new ELSE resolutions[i]]
<1>1. n \in Nat /\ DOMAIN resolutions = 1..n
  BY DEF Resolved, IsList
<1>2. Resolved(replaced)
  <2>1. \A i \in 1..n : replaced[i].callee \in 1..Len(failureFunctions)
    BY <1>1 DEF Resolved
  <2>2. replaced \in [1..n -> {replaced[i] : i \in 1..n}]
    BY <1>1
  <2> HIDE DEF replaced
  <2>3. replaced \in Seq({replaced[i] : i \in 1..n}) /\ Len(replaced) = n
    BY <1>1, <2>2, FunctionIsSequence
  <2> QED
    BY <2>1, <2>3, SeqIsList DEF Resolved
<1>3. Resolved(Append(resolutions, new))
  <2>1. Append(resolutions, new) = resolutions \o <<new>>
    BY DEF Resolved, IsList
  <2>2. /\ IsList(resolutions \o <<new>>) /\ Len(resolutions \o <<new>>) = n + 1
        /\ \A k \in 1..n : (resolutions \o <<new>>)[k] = resolutions[k]
        /\ (resolutions \o <<new>>)[n + 1] = new
    BY PushedElement DEF Resolved
  <2>3. ASSUME NEW k \in 1..n+1
        PROVE  (resolutions \o <<new>>)[k].callee \in 1..Len(failureFunctions)
    <3>1. k \in 1..n \/ k = n + 1
      BY <1>1
    <3> QED
      BY <2>2, <3>1 DEF Resolved
  <2> QED
    BY <2>1, <2>2, <2>3 DEF Resolved
<1> QED
  BY <1>2, <1>3 DEF Analysis!Recorded

LEMMA ReportChecks ==
  ASSUME NEW node, Analysis!Report(node),
         IsList(failureFunctions), Resolved(resolutions), IsList(semanticErrors)
  PROVE  /\ Resolved(resolutions') /\ IsList(semanticErrors')
         /\ semanticErrors' = <<>> =>
              semanticErrors = <<>> /\ (failureContexts = <<>> => ~Stray(node))
<1> DEFINE checked == Analysis!Check(node)
<1>1. /\ semanticErrors' = semanticErrors \o checked.errors
      /\ resolutions' = IF checked.resolution = <<>> THEN resolutions
                        ELSE Analysis!Recorded(checked.resolution[1])
  BY DEF Analysis!Report
<1>2. /\ CheckedNode(checked)
      /\ failureContexts = <<>> /\ Stray(node) => checked.errors # <<>>
  BY NodeIsChecked
<1> HIDE DEF checked
<1>3. IsList(checked.errors)
  BY <1>2, EmptyList, SingletonList DEF CheckedNode
<1>4. Resolved(resolutions')
  <2>1. CASE checked.resolution = <<>>
    BY <1>1, <2>1
  <2>2. CASE checked.resolution # <<>>
    <3>1. PICK r : checked.resolution = <<r>> /\ r.callee \in 1..Len(failureFunctions)
      BY <1>2, <2>2 DEF CheckedNode
    <3>2. checked.resolution[1] = r
      BY <3>1, SingletonList
    <3>3. resolutions' = Analysis!Recorded(r)
      BY <1>1, <2>2, <3>2
    <3>4. Resolved(Analysis!Recorded(r))
      BY <3>1, RecordedIsResolved
    <3> QED
      BY <3>3, <3>4
  <2> QED
    BY <2>1, <2>2
<1>5. IsList(semanticErrors')
  BY <1>1, <1>3, ConcatOfLists
<1>6. ASSUME semanticErrors' = <<>>
      PROVE  semanticErrors = <<>> /\ checked.errors = <<>>
  BY <1>1, <1>3, <1>6, NothingReported
<1> QED
  BY <1>2, <1>4, <1>5, <1>6

LEMMA OneContext ==
  ASSUME NEW context
  PROVE  /\ Append(<<>>, context) = <<context>>
         /\ Analysis!Front(<<context>>) = <<>>
<1>1. Append(<<>>, context) = <<context>>
  OBVIOUS
<1>2. Analysis!Front(<<context>>) = SubSeq(<<context>>, 1, 0)
  BY SingletonList DEF Analysis!Front
<1>3. SubSeq(<<context>>, 1, 0) = <<>>
  OBVIOUS
<1> QED
  BY <1>1, <1>2, <1>3

\* What the passes keep, step by step.
LEMMA AnalyzeKeepsAnalysis ==
  ASSUME TreeInv, AnalysisInv, SInv, Analyze
  PROVE  AnalysisInv'
<1> DEFINE nodes == unit.children
           n == Len(nodes)
           NoneStrays(to) == \A k \in 1..to-1 : ~Stray(nodes[k])
           Context(at) == LET declared == Analysis!ContractOf(nodes[at])
                          IN  <<[specification |-> declared.range,
                                 type |-> declared.children[1].range]>>
<1>1. /\ stage = "analyze" /\ stage' = "analyze" /\ phase = "done" /\ phase' = "done"
      /\ n \in Nat
      /\ IsList(failureFunctions) /\ IsList(resolutions) /\ IsList(semanticErrors)
  BY DEF Analyze, AnalysisInv, controlVars, parserVars, TreeInv, AllGood, IsList
<1>2. /\ child \in 1..n+1
      /\ analysis = "inFunction" => child <= n /\ nodes[child].kind = "FunctionDeclaration"
      /\ Resolved(resolutions)
      /\ failureContexts = IF analysis = "inFunction" THEN Context(child) ELSE <<>>
      /\ analysis \in {"analyzing", "inFunction"} /\ semanticErrors = <<>> => NoneStrays(child)
      /\ analysis = "accepted" => NoneStrays(n+1)
  <2>1. DOMAIN resolutions = 1..Len(resolutions)
        /\ DOMAIN failureFunctions = 1..Len(failureFunctions)
    BY <1>1 DEF IsList
  <2>2. Analysis!TypeOK
    BY <1>1 DEF AnalysisInv
  <2>3. (n + 1) - 1 = n
    BY <1>1
  <2> QED
    BY <1>1, <2>1, <2>2, <2>3 DEF Analysis!TypeOK, AnalysisInv, Resolved
<1> DEFINE Kept ==
  /\ unit' = unit
  /\ analysis' \in {"collecting", "analyzing", "inFunction", "accepted", "rejected"}
  /\ child' \in 1..n+1
  /\ analysis' = "inFunction" =>
       child' <= n /\ nodes[child'].kind = "FunctionDeclaration"
  /\ IsList(failureFunctions') /\ IsList(resolutions') /\ IsList(semanticErrors')
  /\ \A i \in 1..Len(resolutions') : resolutions'[i].callee \in 1..Len(failureFunctions')
  /\ failureContexts' = IF analysis' = "inFunction" THEN Context(child') ELSE <<>>
  /\ analysis' \in {"analyzing", "inFunction"} /\ semanticErrors' = <<>> => NoneStrays(child')
  /\ analysis' = "accepted" => NoneStrays(n+1)
<1>3. ASSUME Kept PROVE AnalysisInv'
  <2>1. DOMAIN (resolutions') = 1..Len(resolutions')
        /\ DOMAIN (failureFunctions') = 1..Len(failureFunctions')
    BY <1>3 DEF IsList
  <2>2. (n + 1) - 1 = n
    BY <1>1
  <2>3. Analysis!TypeOK'
    <3>1. Context(child') = (LET declared == Analysis!ContractOf(unit.children[child])
                             IN  <<[specification |-> declared.range,
                                    type |-> declared.children[1].range]>>)'
      BY <1>3
    <3> QED
      BY <1>3, <2>1, <3>1 DEF Analysis!TypeOK
  <2> QED
    BY <1>1, <1>3, <2>2, <2>3 DEF AnalysisInv
<1>4. CASE Analysis!CollectDeclaration
  <2>1. /\ analysis = "collecting" /\ child <= n /\ child' = child + 1
        /\ failureFunctions' = failureFunctions \o Analysis!Declared(nodes[child])
        /\ UNCHANGED <<unit, analysis, failureContexts, resolutions, semanticErrors>>
    BY <1>4 DEF Analysis!CollectDeclaration
  <2>2. IsList(Analysis!Declared(nodes[child]))
    <3>1. Analysis!Declared(nodes[child]) = <<>> \/ \E d : Analysis!Declared(nodes[child]) = <<d>>
      BY DEF Analysis!Declared
    <3> QED
      BY <3>1, EmptyList, SingletonList
  <2>3. IsList(failureFunctions') /\ Len(failureFunctions) <= Len(failureFunctions')
        /\ Len(failureFunctions) \in Nat /\ Len(failureFunctions') \in Nat
    BY <1>1, <2>1, <2>2, ConcatOfLists
  <2> QED
    BY <1>1, <1>2, <1>3, <2>1, <2>3 DEF Resolved
<1>5. CASE Analysis!StartAnalyzing
  <2>1. /\ analysis = "collecting" /\ analysis' = "analyzing" /\ child' = 1
        /\ UNCHANGED <<unit, failureFunctions, failureContexts, resolutions, semanticErrors>>
    BY <1>5 DEF Analysis!StartAnalyzing
  <2>2. NoneStrays(1)
    OBVIOUS
  <2> QED
    BY <1>1, <1>2, <1>3, <2>1, <2>2 DEF Resolved
<1>6. CASE Analysis!AnalyzeTopLevel
  <2>1. /\ analysis = "analyzing" /\ child <= n /\ child' = child + 1
        /\ Analysis!Report(nodes[child])
        /\ UNCHANGED <<unit, analysis, failureFunctions, failureContexts>>
    BY <1>6 DEF Analysis!AnalyzeTopLevel
  <2>2. /\ Resolved(resolutions') /\ IsList(semanticErrors')
        /\ semanticErrors' = <<>> => semanticErrors = <<>> /\ ~Stray(nodes[child])
    BY <1>1, <1>2, <2>1, ReportChecks
  <2>3. ASSUME semanticErrors' = <<>> PROVE NoneStrays(child')
    <3>1. child \in 1..n /\ child' = child + 1
      BY <1>1, <1>2, <2>1
    <3>2. NoneStrays(child) /\ ~Stray(nodes[child])
      BY <1>2, <2>1, <2>2, <2>3
    <3>3. \A k \in 1..child'-1 : k \in 1..child-1 \/ k = child
      BY <3>1
    <3> QED
      BY <3>2, <3>3
  <2> QED
    BY <1>1, <1>2, <1>3, <2>1, <2>2, <2>3 DEF Resolved
<1>7. CASE Analysis!EnterFunction
  <2> DEFINE node == nodes[child]
             specification == Analysis!ContractOf(node)
             errors == IF Len(specification.children) = 1
                       THEN Analysis!CheckSpecification(specification).errors ELSE <<>>
  <2>1. /\ analysis = "analyzing" /\ child <= n /\ node.kind = "FunctionDeclaration"
        /\ semanticErrors' = semanticErrors \o errors
        /\ \/ child' = child + 1 /\ UNCHANGED <<analysis, failureContexts>>
           \/ /\ analysis' = "inFunction" /\ child' = child
              /\ failureContexts' =
                   Append(failureContexts, [specification |-> specification.range,
                                            type |-> specification.children[1].range])
        /\ UNCHANGED <<unit, failureFunctions, resolutions>>
    BY <1>7 DEF Analysis!EnterFunction, Analysis!ContractOf
  <2>2. IsList(errors)
    BY EmptyList, SingletonList DEF Analysis!CheckSpecification, Analysis!Rejected, Analysis!Accepted
  <2> HIDE DEF errors
  <2>3. IsList(semanticErrors') /\ (semanticErrors' = <<>> => semanticErrors = <<>>)
    BY <1>1, <2>1, <2>2, ConcatOfLists, NothingReported
  <2>4. ~Stray(node)
    BY <2>1 DEF Stray
  <2>5. CASE child' = child + 1 /\ UNCHANGED <<analysis, failureContexts>>
    <3>1. ASSUME semanticErrors' = <<>> PROVE NoneStrays(child')
      <4>1. child \in 1..n /\ child' = child + 1
        BY <1>1, <1>2, <2>1, <2>5
      <4>2. NoneStrays(child) /\ ~Stray(nodes[child])
        BY <1>2, <2>1, <2>3, <2>4, <3>1
      <4>3. \A k \in 1..child'-1 : k \in 1..child-1 \/ k = child
        BY <4>1
      <4> QED
        BY <4>2, <4>3
    <3> QED
      BY <1>1, <1>2, <1>3, <2>1, <2>3, <2>5, <3>1 DEF Resolved
  <2>6. CASE /\ analysis' = "inFunction" /\ child' = child
             /\ failureContexts' =
                  Append(failureContexts, [specification |-> specification.range,
                                           type |-> specification.children[1].range])
    <3>1. failureContexts' = Context(child')
      BY <1>2, <2>1, <2>6, OneContext
    <3>2. nodes[child'].kind = "FunctionDeclaration"
      BY <2>1, <2>6
    <3> HIDE DEF Context, node, specification
    <3> QED
      BY <1>1, <1>2, <1>3, <2>1, <2>3, <2>6, <3>1, <3>2 DEF Resolved
  <2> QED
    BY <2>1, <2>5, <2>6
<1>8. CASE Analysis!AnalyzeBodyChild
  <2>1. /\ analysis = "inFunction" /\ child' = child
        /\ Analysis!Report(nodes[child].children[bodyChild])
        /\ UNCHANGED <<unit, analysis, failureFunctions, failureContexts>>
    BY <1>8 DEF Analysis!AnalyzeBodyChild
  <2>2. /\ Resolved(resolutions') /\ IsList(semanticErrors')
        /\ semanticErrors' = <<>> => semanticErrors = <<>>
    BY <1>1, <1>2, <2>1, ReportChecks
  <2> HIDE DEF Context
  <2> QED
    BY <1>1, <1>2, <1>3, <2>1, <2>2 DEF Resolved
<1>9. CASE Analysis!LeaveFunction
  <2>1. /\ analysis = "inFunction" /\ analysis' = "analyzing" /\ child' = child + 1
        /\ bodyChild > Len(nodes[child].children)
        /\ failureContexts' = Analysis!Front(failureContexts)
        /\ UNCHANGED <<unit, failureFunctions, resolutions, semanticErrors>>
    BY <1>9 DEF Analysis!LeaveFunction
  <2>2. failureContexts' = <<>>
    BY <1>2, <2>1, OneContext
  <2>3. child \in 1..n /\ ~Stray(nodes[child])
    BY <1>1, <1>2, <2>1 DEF Stray
  <2>4. ASSUME semanticErrors' = <<>> PROVE NoneStrays(child')
    <3>1. NoneStrays(child)
      BY <1>2, <2>1, <2>4
    <3>2. \A k \in 1..child'-1 : k \in 1..child-1 \/ k = child
      BY <2>1, <2>3
    <3> QED
      BY <2>3, <3>1, <3>2
  <2>5. child' \in 1..n+1 /\ n \in Nat
    BY <1>1, <2>1, <2>3
  <2> HIDE DEF NoneStrays, Context, n
  <2>6. Kept
    BY <1>1, <1>2, <2>1, <2>2, <2>4, <2>5 DEF Resolved
  <2> QED
    BY <1>3, <2>6
<1>10. CASE Analysis!FinishAnalysis
  <2>1. /\ analysis = "analyzing" /\ child > n /\ child' = 1
        /\ analysis' = (IF semanticErrors = <<>> THEN "accepted" ELSE "rejected")
        /\ UNCHANGED <<unit, failureFunctions, failureContexts, resolutions, semanticErrors>>
    BY <1>10 DEF Analysis!FinishAnalysis
  <2>2. child = n + 1
    BY <1>1, <1>2, <2>1
  <2> QED
    BY <1>1, <1>2, <1>3, <2>1, <2>2 DEF Resolved
<1> QED
  BY <1>4, <1>5, <1>6, <1>7, <1>8, <1>9, <1>10 DEF Analyze, Analysis!Next

LEMMA AnalysisIsKept == SInv /\ TreeInv /\ AnalysisInv /\ [Next]_vars => AnalysisInv'
<1> SUFFICES ASSUME SInv, TreeInv, AnalysisInv, [Next]_vars PROVE AnalysisInv'
  OBVIOUS
<1> DEFINE Results == <<analysis, failureFunctions, failureContexts, resolutions, semanticErrors>>
<1>1. /\ workVars' = workVars => UNCHANGED <<Results, unit, phase, child>>
      /\ analysisVars' = analysisVars => UNCHANGED Results
      /\ parserVars' = parserVars => UNCHANGED phase
  BY DEF workVars, cursor, analysisVars, parserVars
<1>2. ASSUME UNCHANGED <<Results, unit, phase>>, stage # "analyze", stage' # "analyze",
             stage' \in {"lex", "lexed", "parse"} =>
               stage \in {"lex", "lexed", "parse"} /\ child' = child
      PROVE  AnalysisInv'
  BY <1>2 DEF AnalysisInv
<1>3. CASE Lex
  <2>1. stage = "lex" /\ stage' = "lexed" /\ workVars' = workVars
    BY <1>3 DEF Lex
  <2> QED
    BY <1>1, <1>2, <2>1
<1>4. CASE FinishLexing
  <2>1. stage = "lexed" /\ stage' \in {"parse", "done"} /\ workVars' = workVars
    BY <1>4 DEF FinishLexing, Proceed, Refuse, MakeResult
  <2> QED
    BY <1>1, <1>2, <2>1
<1>5. CASE Parse
  <2>1. stage = "parse" /\ stage' = "parse" /\ UNCHANGED Results /\ child' = child
    BY <1>1, <1>5 DEF Parse, controlVars, cursor
  <2>2. analysis = "collecting"
    BY <2>1 DEF SInv
  <2> QED
    BY <2>1, <2>2 DEF AnalysisInv
<1>6. CASE FinishParsing
  <2>1. /\ stage = "parse" /\ phase = "done" /\ stage' \in {"analyze", "done"}
        /\ UNCHANGED <<Results, unit, phase, child>>
    BY <1>1, <1>6 DEF FinishParsing, Proceed, Refuse, MakeResult
  <2>2. /\ analysis = "collecting" /\ child = 1
        /\ failureFunctions = <<>> /\ failureContexts = <<>> /\ resolutions = <<>>
    BY <2>1 DEF SInv, AnalysisInv
  <2>3. Len(unit.children) \in Nat
    BY <2>1 DEF TreeInv, AllGood, IsList
  <2>4. Analysis!TypeOK'
    BY <2>1, <2>2, <2>3 DEF Analysis!TypeOK
  <2> QED
    BY <2>1, <2>2, <2>4 DEF AnalysisInv
<1>7. CASE Analyze
  BY <1>7, AnalyzeKeepsAnalysis
<1>8. CASE FinishAnalyzing
  <2>1. /\ stage = "analyze" /\ stage' \in {"build", "done"}
        /\ UNCHANGED <<Results, unit, phase>>
    BY <1>1, <1>8 DEF FinishAnalyzing, Proceed, Refuse, MakeResult
  <2> QED
    BY <2>1 DEF AnalysisInv
<1>9. CASE BuildIr
  <2>1. /\ stage = "build" /\ stage' = "build"
        /\ UNCHANGED <<analysis, failureFunctions, failureContexts, semanticErrors, phase>>
    BY <1>1, <1>9 DEF BuildIr, controlVars
  <2>2. UNCHANGED <<unit, resolutions>>
    BY <1>9 DEF BuildIr, Construction!Next, Construction!BuildTopLevel,
       Construction!BeginFunction, Construction!BuildBodyChild, Construction!EndFunction,
       Construction!FinishConstruction
  <2> QED
    BY <1>2, <2>1, <2>2
<1>10. CASE FinishBuilding
  <2>1. stage = "build" /\ stage' \in {"lower", "done"} /\ workVars' = workVars
    BY <1>10 DEF FinishBuilding, Proceed, Refuse, MakeResult
  <2> QED
    BY <1>1, <1>2, <2>1
<1>11. CASE Lower
  <2>1. stage = "lower" /\ stage' = "lower" /\ UNCHANGED <<Results, unit, phase>>
    BY <1>1, <1>11 DEF Lower, controlVars
  <2> QED
    BY <1>2, <2>1
<1>12. CASE FinishLowering
  <2>1. stage = "lower" /\ stage' \in {"emit", "done"} /\ workVars' = workVars
    BY <1>12 DEF FinishLowering, Proceed, Refuse, MakeResult
  <2> QED
    BY <1>1, <1>2, <2>1
<1>13. CASE Emit
  <2>1. stage = "emit" /\ stage' = "emit" /\ UNCHANGED <<Results, unit, phase>>
    BY <1>1, <1>13 DEF Emit, controlVars
  <2> QED
    BY <1>2, <2>1
<1>14. CASE FinishEmitting
  <2>1. stage = "emit" /\ stage' = "done" /\ workVars' = workVars
    BY <1>14 DEF FinishEmitting, Refuse, MakeResult
  <2> QED
    BY <1>1, <1>2, <2>1
<1>15. CASE UNCHANGED vars
  <2>1. UNCHANGED <<stage, Results, unit, phase, child>>
    BY <1>1, <1>15 DEF vars, controlVars
  <2>2. Analysis!TypeOK' <=> Analysis!TypeOK
    BY <2>1 DEF Analysis!TypeOK
  <2> QED
    BY <2>1, <2>2 DEF AnalysisInv
<1> QED
  BY <1>3, <1>4, <1>5, <1>6, <1>7, <1>8, <1>9, <1>10, <1>11, <1>12, <1>13, <1>14, <1>15
     DEF Next, Process, Returned

LEMMA InitIsAnalysis == Init => AnalysisInv
BY EmptyList DEF Init, Analysis!Init, AnalysisInv

-----------------------------------------------------------------------------
(* The program in the call.                                                *)

IrFunctionFields == {"kind", "range", "successType", "name", "declarator", "body", "outcome",
                     "children", "lowered"}

\* A function of the program: its parts lie where the validity rules want them.
IsIrFunction(node) ==
  /\ DOMAIN node = IrFunctionFields
  /\ node.kind = "FailureAwareFunction"
  /\ Construction!FunctionRangesValid(node)
  /\ IsList(node.children)

IsProgram(nodes) ==
  /\ IsList(nodes)
  /\ \A k \in 1..Len(nodes) : nodes[k].kind = "FailureAwareFunction" => IsIrFunction(nodes[k])

\* A try initialization that has its variable.
HasId(node) == node.kind = "TryInitialization" /\ "syntheticId" \in DOMAIN node

\* Where the lowering is in the program.
LoweringAt ==
  /\ lowering \in {"lowering", "numbering"} => child \in 1..Len(program)+1
  /\ lowering = "numbering" =>
       /\ child <= Len(program) /\ program[child].kind = "FailureAwareFunction"
       /\ bodyChild \in 1..Len(program[child].children)+1

\* The functions of the program are valid from their construction on.
ProgramInv ==
  /\ stage \in {"lex", "lexed", "parse", "analyze"} => program = <<>>
  /\ IsProgram(program)
  /\ construction = "inFunction" => \E node : irFunction = <<node>> /\ IsIrFunction(node)
  /\ stage = "build" /\ construction = "built" => child = 1
  /\ stage = "lower" => LoweringAt

\* What is built for anything but a function is one node, never a function and
\* without a synthetic name.
LEMMA BuiltIsPlain ==
  ASSUME NEW node, NEW failureType, Construction!Build(node, failureType).ir # <<>>
  PROVE  \E ir : /\ Construction!Build(node, failureType).ir = <<ir>>
                 /\ ir.kind # "FailureAwareFunction" /\ ~HasId(ir)
<1> DEFINE Plain(ir) == ir.kind # "FailureAwareFunction" /\ ~HasId(ir)
           MakesNoFunction(built) == built.ir # <<>> => \E ir : built.ir = <<ir>> /\ Plain(ir)
<1>0. /\ \A ir : ir.kind \notin {"FailureAwareFunction", "TryInitialization"} => Plain(ir)
      /\ \A range, declaration, propagation :
           Plain([kind |-> "TryInitialization", range |-> range,
                  declaration |-> declaration, propagation |-> propagation])
  BY DEF HasId
<1>1. ASSUME NEW code PROVE MakesNoFunction(Construction!Failed(code))
  BY DEF Construction!Failed
<1>2. ASSUME NEW ir, Plain(ir)
      PROVE  MakesNoFunction(Construction!Built(ir))
  BY <1>2 DEF Construction!Built
<1> HIDE DEF MakesNoFunction, Plain
<1>3. \A n : MakesNoFunction(Construction!BuildSpecification(n))
  BY <1>0, <1>1, <1>2 DEF Construction!BuildSpecification
<1>4. \A n, type : MakesNoFunction(Construction!BuildTry(n, type))
  BY <1>0, <1>1, <1>2 DEF Construction!BuildTry
<1>5. \A n : MakesNoFunction(Construction!Built(Construction!Region(n)))
  BY <1>0, <1>2 DEF Construction!Region
<1>6. \A n, type : MakesNoFunction(Construction!BuildFail(n, type))
  BY <1>0, <1>1, <1>2, <1>4, <1>5 DEF Construction!BuildFail
<1>7. \A n : MakesNoFunction(Construction!BuildReturn(n))
  BY <1>0, <1>1, <1>2 DEF Construction!BuildReturn
<1>8. \A n, type : MakesNoFunction(Construction!BuildTryInitialization(n, type))
  BY <1>0, <1>1, <1>2, <1>4 DEF Construction!BuildTryInitialization
<1>9. MakesNoFunction(Construction!Build(node, failureType))
  BY <1>3, <1>4, <1>5, <1>6, <1>7, <1>8 DEF Construction!Build
<1> QED
  BY <1>9 DEF MakesNoFunction, Plain

LEMMA BuiltFunctionIsValid ==
  ASSUME NEW node, Construction!BuildFunction(node).ir # <<>>
  PROVE  \E f : /\ Construction!BuildFunction(node).ir = <<f>>
                /\ IsIrFunction(f) /\ f.lowered = FALSE /\ f.children = <<>>
<1> DEFINE at == Construction!FirstOfKind(node, "FailureSpecification")
           header(kind) == Construction!Max({0} \cup {i \in 1..at-1 : node.children[i].kind = kind})
           part(kind) == node.children[header(kind)].range
           outcome == Construction!BuildSpecification(node.children[at])
           f == [kind |-> "FailureAwareFunction", range |-> node.range,
                 successType |-> part("FunctionReturnType"),
                 name |-> IF header("FunctionName") = 0 THEN Construction!NoRange ELSE part("FunctionName"),
                 declarator |-> part("FunctionDeclarator"),
                 body |-> Construction!BodyRange(node, at), outcome |-> outcome.ir[1],
                 children |-> <<>>, lowered |-> FALSE]
<1>1. outcome.ir = <<>> => [outcome EXCEPT !.errors = @ \o <<"VIXC5016">>].ir = <<>>
  BY DEF Construction!BuildSpecification, Construction!Failed, Construction!Built
<1>2. /\ \A code : Construction!Failed(code).ir = <<>>
      /\ \A ir : Construction!Built(ir).ir = <<ir>>
  BY DEF Construction!Failed, Construction!Built
<1>3. Construction!BuildFunction(node) = Construction!Built(f) /\ Construction!FunctionRangesValid(f)
  <2> DEFINE absent == 0 \in {at, header("FunctionReturnType"), header("FunctionDeclarator")}
             refused == [outcome EXCEPT !.errors = @ \o <<"VIXC5016">>]
  <2>1. Construction!BuildFunction(node) =
          IF absent THEN Construction!Failed("VIXC5015")
          ELSE IF outcome.ir = <<>> THEN refused
          ELSE IF ~Construction!FunctionRangesValid(f) THEN Construction!Failed("VIXC5017")
          ELSE Construction!Built(f)
    BY DEF Construction!BuildFunction
  <2>2. outcome.ir = <<>> => refused.ir = <<>>
    BY <1>1
  <2> HIDE DEF absent, refused, f, outcome
  <2> QED
    BY <1>2, <2>1, <2>2
<1>4. DOMAIN f = IrFunctionFields
  BY DEF IrFunctionFields
<1>5. f.kind = "FailureAwareFunction" /\ f.lowered = FALSE /\ f.children = <<>>
  OBVIOUS
<1> HIDE DEF f
<1> QED
  BY <1>2, <1>3, <1>4, <1>5, EmptyList DEF IsIrFunction

LEMMA ProgramGrows ==
  ASSUME NEW nodes, NEW node, IsProgram(nodes),
         node.kind = "FailureAwareFunction" => IsIrFunction(node)
  PROVE  IsProgram(nodes \o <<node>>)
<1>1. /\ IsList(nodes \o <<node>>) /\ Len(nodes) \in Nat
      /\ Len(nodes \o <<node>>) = Len(nodes) + 1
      /\ \A k \in 1..Len(nodes) : (nodes \o <<node>>)[k] = nodes[k]
      /\ (nodes \o <<node>>)[Len(nodes) + 1] = node
  BY PushedElement DEF IsProgram
<1>2. \A k \in 1..Len(nodes) + 1 : k \in 1..Len(nodes) \/ k = Len(nodes) + 1
  BY <1>1
<1> QED
  BY <1>1, <1>2 DEF IsProgram

\* A function keeps its parts when it is given children or marked as lowered.
LEMMA PartsStay ==
  ASSUME NEW f, IsIrFunction(f), NEW nodes, IsList(nodes), NEW mark
  PROVE  /\ IsIrFunction([f EXCEPT !.children = nodes])
         /\ IsIrFunction([f EXCEPT !.lowered = mark])
<1> DEFINE g == [f EXCEPT !.children = nodes]
           h == [f EXCEPT !.lowered = mark]
<1>1. /\ DOMAIN g = IrFunctionFields /\ g.children = nodes
      /\ \A field \in IrFunctionFields : field # "children" => g[field] = f[field]
  BY DEF IsIrFunction, IrFunctionFields
<1>2. /\ DOMAIN h = IrFunctionFields
      /\ \A field \in IrFunctionFields : field # "lowered" => h[field] = f[field]
  BY DEF IsIrFunction, IrFunctionFields
<1>3. g.kind = f.kind /\ g.range = f.range /\ g.successType = f.successType /\ g.name = f.name
      /\ g.declarator = f.declarator /\ g.body = f.body
  BY <1>1 DEF IrFunctionFields
<1>4. h.kind = f.kind /\ h.range = f.range /\ h.successType = f.successType /\ h.name = f.name
      /\ h.declarator = f.declarator /\ h.body = f.body /\ h.children = f.children
  BY <1>2 DEF IrFunctionFields
<1> HIDE DEF g, h
<1>5. Construction!FunctionRangesValid(g) /\ Construction!FunctionRangesValid(h)
  BY <1>3, <1>4 DEF IsIrFunction, Construction!FunctionRangesValid
<1> QED
  BY <1>1, <1>2, <1>3, <1>4, <1>5 DEF IsIrFunction, g, h

LEMMA BuildKeepsProgram ==
  ASSUME SInv, ProgramInv, BuildIr
  PROVE  ProgramInv'
<1>1. /\ stage = "build" /\ stage' = "build" /\ IsProgram(program)
      /\ construction = "inFunction" => \E node : irFunction = <<node>> /\ IsIrFunction(node)
  BY DEF BuildIr, controlVars, ProgramInv
<1>2. CASE Construction!BuildTopLevel
  <2> DEFINE built == Construction!Build(unit.children[child], contract)
  <2>1. /\ construction = "building" /\ irFunction' = irFunction
        /\ \/ construction' = "failed" /\ program' = program
           \/ /\ built.ir # <<>> /\ program' = program \o built.ir
              /\ construction' = construction
    BY <1>2 DEF Construction!BuildTopLevel, Construction!Stop
  <2>2. ASSUME built.ir # <<>> PROVE IsProgram(program \o built.ir)
    <3>1. PICK ir : built.ir = <<ir>> /\ ir.kind # "FailureAwareFunction"
      BY <2>2, BuiltIsPlain
    <3> QED
      BY <1>1, <3>1, ProgramGrows
  <2> HIDE DEF built
  <2> QED
    BY <1>1, <2>1, <2>2 DEF ProgramInv
<1>3. CASE Construction!BeginFunction
  <2> DEFINE built == Construction!BuildFunction(unit.children[child])
  <2>1. /\ program' = program
        /\ \/ construction' = "failed"
           \/ built.ir # <<>> /\ irFunction' = built.ir /\ construction' = "inFunction"
    BY <1>3 DEF Construction!BeginFunction, Construction!Stop
  <2>2. built.ir # <<>> => \E f : built.ir = <<f>> /\ IsIrFunction(f)
    BY BuiltFunctionIsValid
  <2> HIDE DEF built
  <2> QED
    BY <1>1, <2>1, <2>2 DEF ProgramInv
<1>4. CASE Construction!BuildBodyChild
  <2> DEFINE built == Construction!Build(unit.children[child].children[bodyChild], bodyContract)
  <2>1. /\ construction = "inFunction" /\ program' = program
        /\ \/ construction' = "failed"
           \/ /\ built.ir # <<>>
              /\ irFunction' = <<[irFunction[1] EXCEPT !.children = @ \o built.ir]>>
              /\ construction' = "inFunction"
    BY <1>4 DEF Construction!BuildBodyChild, Construction!Stop
  <2>2. PICK node : irFunction = <<node>> /\ IsIrFunction(node)
    BY <1>1, <2>1
  <2>3. irFunction[1] = node
    BY <2>2, SingletonList
  <2>4. ASSUME built.ir # <<>>
        PROVE  IsIrFunction([node EXCEPT !.children = node.children \o built.ir])
    <3>1. PICK ir : built.ir = <<ir>>
      BY <2>4, BuiltIsPlain
    <3>2. IsList(node.children \o built.ir)
      BY <2>2, <3>1, PushedElement DEF IsIrFunction
    <3> QED
      BY <2>2, <3>2, PartsStay
  <2> HIDE DEF built
  <2> QED
    BY <1>1, <2>1, <2>3, <2>4 DEF ProgramInv
<1>5. CASE Construction!EndFunction
  <2>1. /\ construction = "inFunction" /\ construction' = "building"
        /\ program' = program \o irFunction
    BY <1>5 DEF Construction!EndFunction
  <2>2. PICK node : irFunction = <<node>> /\ IsIrFunction(node)
    BY <1>1, <2>1
  <2>3. IsProgram(program')
    BY <1>1, <2>1, <2>2, ProgramGrows
  <2> QED
    BY <1>1, <2>1, <2>3 DEF ProgramInv
<1>6. CASE Construction!FinishConstruction
  BY <1>1, <1>6 DEF Construction!FinishConstruction, ProgramInv
<1> QED
  BY <1>2, <1>3, <1>4, <1>5, <1>6 DEF BuildIr, Construction!Next

\* One node of the program replaced by another.
LEMMA NodeReplaced ==
  ASSUME NEW nodes, IsList(nodes), NEW k \in 1..Len(nodes), NEW node
  PROVE  /\ IsList([nodes EXCEPT ![k] = node])
         /\ Len([nodes EXCEPT ![k] = node]) = Len(nodes)
         /\ [nodes EXCEPT ![k] = node][k] = node
         /\ \A l \in 1..Len(nodes) : l # k => [nodes EXCEPT ![k] = node][l] = nodes[l]
<1> DEFINE n == Len(nodes)
           R == ToSet(nodes) \cup {node}
           replaced == [nodes EXCEPT ![k] = node]
<1>1. n \in Nat /\ nodes \in [1..n -> ToSet(nodes)]
  BY DEF IsList
<1>2. replaced \in [1..n -> R]
  BY <1>1
<1>3. replaced \in Seq(R) /\ Len(replaced) = n
  BY <1>1, <1>2, FunctionIsSequence
<1>4. IsList(replaced)
  BY <1>3, SeqIsList
<1>5. replaced[k] = node /\ \A l \in 1..n : l # k => replaced[l] = nodes[l]
  BY <1>1
<1> QED
  BY <1>3, <1>4, <1>5

LEMMA ProgramReplaced ==
  ASSUME NEW nodes, IsProgram(nodes), NEW k \in 1..Len(nodes), NEW node, IsIrFunction(node)
  PROVE  IsProgram([nodes EXCEPT ![k] = node])
BY NodeReplaced DEF IsProgram

LEMMA LowerKeepsProgram ==
  ASSUME SInv, ProgramInv, Lower
  PROVE  ProgramInv'
<1>1. /\ stage = "lower" /\ stage' = "lower" /\ UNCHANGED <<construction, irFunction>>
      /\ IsProgram(program) /\ LoweringStage!Next /\ LoweringAt
      /\ Len(program) \in Nat
  BY DEF Lower, controlVars, irVars, ProgramInv, IsProgram, IsList
<1>2. ASSUME IsProgram(program'), LoweringAt' PROVE ProgramInv'
  BY <1>1, <1>2 DEF SInv, ProgramInv
<1> DEFINE f == program[child]
<1>3. CASE LoweringStage!NumberInitialization
  <2> DEFINE node == LoweringStage!Numbered(f.children[bodyChild],
                                            LoweringStage!FreshId(f.range))
             body == f.children
             nodes == [body EXCEPT ![bodyChild] = node]
             g == [f EXCEPT !.children = nodes]
  <2>1. /\ lowering = "numbering" /\ lowering' = "numbering"
        /\ child <= Len(program) /\ bodyChild <= Len(f.children)
        /\ program' = program \/ program' = [program EXCEPT ![child] = g]
        /\ child' = child /\ bodyChild' = bodyChild + 1
    BY <1>3 DEF LoweringStage!NumberInitialization, LoweringStage!InFunction
  <2>2. /\ child \in 1..Len(program) /\ f.kind = "FailureAwareFunction" /\ IsIrFunction(f)
        /\ bodyChild \in 1..Len(f.children)+1
    BY <1>1, <2>1 DEF LoweringAt, IsProgram
  <2>3. bodyChild \in 1..Len(body) /\ IsList(body) /\ Len(body) \in Nat
    BY <2>1, <2>2 DEF IsIrFunction, IsList
  <2> HIDE DEF node, body
  <2>4. IsList(nodes) /\ Len(nodes) = Len(body)
    BY <2>3, NodeReplaced
  <2> HIDE DEF nodes
  <2>5. IsIrFunction(g) /\ g.children = nodes
    BY <2>2, <2>4, PartsStay DEF IsIrFunction, IrFunctionFields
  <2> HIDE DEF f, g
  <2>6. CASE program' = program
    BY <1>1, <1>2, <2>1, <2>2, <2>3, <2>6 DEF LoweringAt, f
  <2>7. CASE program' = [program EXCEPT ![child] = g]
    <3>1. IsProgram(program') /\ Len(program') = Len(program) /\ program'[child] = g
      <4>1. IsList(program)
        BY <1>1 DEF IsProgram
      <4>2. Len(program') = Len(program) /\ program'[child] = g
        BY <2>2, <2>7, <4>1, NodeReplaced
      <4> QED
        BY <1>1, <2>2, <2>5, <2>7, <4>2, ProgramReplaced
    <3>2. LoweringAt'
      BY <2>1, <2>2, <2>3, <2>4, <2>5, <3>1 DEF LoweringAt, IsIrFunction
    <3> QED
      BY <1>2, <3>1, <3>2
  <2> QED
    BY <2>1, <2>6, <2>7
<1>4. CASE LoweringStage!MarkLowered
  <2> DEFINE g == [f EXCEPT !.lowered = TRUE]
  <2>1. /\ lowering = "numbering" /\ lowering' = "lowering" /\ child' = child + 1
        /\ program' = [program EXCEPT ![child] = g]
    BY <1>4 DEF LoweringStage!MarkLowered, LoweringStage!InFunction
  <2>2. child \in 1..Len(program) /\ IsIrFunction(f)
    BY <1>1, <2>1 DEF LoweringAt, IsProgram
  <2>3. IsIrFunction(g)
    BY <2>2, EmptyList, PartsStay
  <2> HIDE DEF f, g
  <2>4. IsProgram(program') /\ Len(program') = Len(program)
    BY <1>1, <2>1, <2>2, <2>3, NodeReplaced, ProgramReplaced DEF IsProgram
  <2> QED
    BY <1>1, <1>2, <2>1, <2>2, <2>4 DEF LoweringAt
<1>5. CASE LoweringStage!LowerNode \/ LoweringStage!RefuseVoidFunction
           \/ LoweringStage!FinishLowering
  <2>1. UNCHANGED program
    BY <1>5 DEF LoweringStage!LowerNode, LoweringStage!RefuseVoidFunction,
       LoweringStage!FinishLowering
  <2>2. LoweringAt'
    BY <1>1, <1>5 DEF LoweringStage!LowerNode, LoweringStage!RefuseVoidFunction,
       LoweringStage!FinishLowering, LoweringAt
  <2> QED
    BY <1>1, <1>2, <2>1, <2>2
<1>6. CASE LoweringStage!BeginFunction
  <2>1. /\ UNCHANGED <<program, child>> /\ lowering = "lowering" /\ lowering' = "numbering"
        /\ child <= Len(program) /\ f.kind = "FailureAwareFunction" /\ bodyChild' = 1
    BY <1>6 DEF LoweringStage!BeginFunction
  <2>2. child \in 1..Len(program) /\ IsIrFunction(f)
    BY <1>1, <2>1 DEF LoweringAt, IsProgram
  <2>3. Len(f.children) \in Nat
    BY <2>2 DEF IsIrFunction, IsList
  <2> QED
    BY <1>1, <1>2, <2>1, <2>2, <2>3 DEF LoweringAt
<1> QED
  BY <1>1, <1>3, <1>4, <1>5, <1>6 DEF LoweringStage!Next

LEMMA InitIsProgram == Init => ProgramInv
BY EmptyList DEF Init, Construction!Init, ProgramInv, IsProgram

LEMMA ProgramIsKept == SInv /\ ProgramInv /\ [Next]_vars => ProgramInv'
<1> SUFFICES ASSUME SInv, ProgramInv, [Next]_vars PROVE ProgramInv'
  OBVIOUS
<1> DEFINE Results == <<program, construction, irFunction>>
<1>1. /\ workVars' = workVars => UNCHANGED <<Results, child, bodyChild, lowering>>
      /\ irVars' = irVars => UNCHANGED <<construction, irFunction>>
  BY DEF workVars, cursor, irVars, loweringVars
<1>2. ASSUME UNCHANGED Results, stage' \notin {"build", "lower"},
             stage' \in {"lex", "lexed", "parse", "analyze"} =>
               stage \in {"lex", "lexed", "parse", "analyze"}
      PROVE  ProgramInv'
  BY <1>2 DEF ProgramInv
<1>3. CASE Lex
  <2>1. stage = "lex" /\ stage' = "lexed" /\ workVars' = workVars
    BY <1>3 DEF Lex
  <2> QED
    BY <1>1, <1>2, <2>1
<1>4. CASE FinishLexing
  <2>1. stage = "lexed" /\ stage' \in {"parse", "done"} /\ workVars' = workVars
    BY <1>4 DEF FinishLexing, Proceed, Refuse, MakeResult
  <2> QED
    BY <1>1, <1>2, <2>1
<1>5. CASE Parse
  <2>1. stage = "parse" /\ stage' = "parse" /\ UNCHANGED Results
    BY <1>1, <1>5 DEF Parse, controlVars
  <2> QED
    BY <1>2, <2>1
<1>6. CASE FinishParsing
  <2>1. stage = "parse" /\ stage' \in {"analyze", "done"} /\ workVars' = workVars
    BY <1>6 DEF FinishParsing, Proceed, Refuse, MakeResult
  <2> QED
    BY <1>1, <1>2, <2>1
<1>7. CASE Analyze
  <2>1. stage = "analyze" /\ stage' = "analyze" /\ UNCHANGED Results
    BY <1>1, <1>7 DEF Analyze, controlVars
  <2> QED
    BY <1>2, <2>1
<1>8. CASE FinishAnalyzing
  <2>1. /\ stage = "analyze" /\ stage' \in {"build", "done"} /\ workVars' = workVars
    BY <1>8 DEF FinishAnalyzing, Proceed, Refuse, MakeResult
  <2>2. construction = "building" /\ UNCHANGED Results
    BY <1>1, <2>1 DEF SInv
  <2> QED
    BY <2>1, <2>2 DEF ProgramInv
<1>9. CASE BuildIr
  BY <1>9, BuildKeepsProgram
<1>10. CASE FinishBuilding
  <2>1. /\ stage = "build" /\ stage' \in {"lower", "done"} /\ workVars' = workVars
        /\ construction \in {"built", "failed"} /\ (construction = "failed" => stage' = "done")
    BY <1>10 DEF FinishBuilding, Proceed, Refuse, MakeResult
  <2>2. lowering = "lowering" /\ UNCHANGED <<Results, child, lowering>>
    BY <1>1, <2>1 DEF SInv
  <2>3. Len(program) \in Nat
    BY DEF ProgramInv, IsProgram, IsList
  <2> QED
    BY <2>1, <2>2, <2>3 DEF ProgramInv, LoweringAt
<1>11. CASE Lower
  BY <1>11, LowerKeepsProgram
<1>12. CASE FinishLowering
  <2>1. stage = "lower" /\ stage' \in {"emit", "done"} /\ workVars' = workVars
    BY <1>12 DEF FinishLowering, Proceed, Refuse, MakeResult
  <2> QED
    BY <1>1, <1>2, <2>1
<1>13. CASE Emit
  <2>1. UNCHANGED program
    BY <1>13 DEF Emit, Emission!Next, Emission!EmitSupport, Emission!EmitTopLevel,
       Emission!EnterFunction, Emission!EmitBodyChild, Emission!LeaveFunction,
       Emission!FinishEmission
  <2>2. stage = "emit" /\ stage' = "emit" /\ UNCHANGED Results
    BY <1>1, <1>13, <2>1 DEF Emit, controlVars
  <2> QED
    BY <1>2, <2>2
<1>14. CASE FinishEmitting
  <2>1. stage = "emit" /\ stage' = "done" /\ workVars' = workVars
    BY <1>14 DEF FinishEmitting, Refuse, MakeResult
  <2> QED
    BY <1>1, <1>2, <2>1
<1>15. CASE UNCHANGED vars
  <2>1. UNCHANGED <<stage, Results, child, bodyChild, lowering>>
    BY <1>1, <1>15 DEF vars, controlVars
  <2> QED
    BY <2>1 DEF ProgramInv, LoweringAt
<1> QED
  BY <1>3, <1>4, <1>5, <1>6, <1>7, <1>8, <1>9, <1>10, <1>11, <1>12, <1>13, <1>14, <1>15
     DEF Next, Process, Returned

\* The invariant of the call.
CallInv == IInv /\ TreeInv /\ RInv /\ AnalysisInv /\ ProgramInv

LEMMA InitIsCall == Init => CallInv
<1>1. Init => stage # "done"
  BY DEF Init
<1>2. Init => RInv
  BY <1>1, InitEstablishesSInv DEF RInv, ResultAnswersTheRequest
<1> QED
  BY <1>2, InitParses, InitIsAnalysis, InitIsProgram DEF CallInv

LEMMA StepKeepsCall == CallInv /\ [Next]_vars => CallInv'
BY ParserIsKept, StepKeepsRInv, AnalysisIsKept, ProgramIsKept DEF CallInv, RInv

(***************************************************************************)
(* The inductive invariant of the call: the parser's, the results of the   *)
(* stages, the passes of the analysis and the program they are built into. *)
(***************************************************************************)
THEOREM CallInvariant == Spec => []CallInv
BY InitIsCall, StepKeepsCall, PTL DEF Spec

(***************************************************************************)
(* For every stream of tokens and every request the stages of the call     *)
(* run in order, the analysis with exactly the contract of the function    *)
(* it is in, and the lowering over valid functions only.                   *)
(***************************************************************************)
THEOREM StagesAreTyped == Spec => []TypeOK
<1>1. CallInv => TypeOK
  <2> SUFFICES ASSUME CallInv PROVE TypeOK
    OBVIOUS
  <2>1. \A node \in ToSet(program) :
          node.kind = "FailureAwareFunction" => Construction!FunctionRangesValid(node)
    <3>1. \A node \in ToSet(program) : \E k \in 1..Len(program) : node = program[k]
      BY DEF CallInv, ProgramInv, IsProgram, IsList, ToSet
    <3> QED
      BY <3>1 DEF CallInv, ProgramInv, IsProgram, IsIrFunction
  <2> QED
    BY <2>1 DEF CallInv, RInv, SInv, AnalysisInv, TypeOK
<1> QED
  BY <1>1, CallInvariant, PTL

(***************************************************************************)
(* For every source the analysis accepts, no `fail` and no `try` stands    *)
(* outside a failure-aware function.                                       *)
(***************************************************************************)
THEOREM AcceptedConstructsAreInFunctions == Spec => []ConstructsAreInFunctions
<1>1. CallInv => ConstructsAreInFunctions
  <2> SUFFICES ASSUME CallInv, analysis = "accepted", NEW node \in Analysis!ToSet(unit.children)
               PROVE  node.kind \notin {"FailStatement", "TryExpression"}
    BY DEF ConstructsAreInFunctions, Analysis!ConstructsAreInFunctions
  <2>1. phase = "done" /\ \A k \in 1..Len(unit.children) : ~Stray(unit.children[k])
    BY DEF CallInv, AnalysisInv
  <2>2. \E k \in 1..Len(unit.children) : node = unit.children[k]
    BY <2>1 DEF CallInv, TreeInv, AllGood, IsList, Analysis!ToSet
  <2> QED
    BY <2>1, <2>2 DEF Stray
<1> QED
  BY <1>1, CallInvariant, PTL

-----------------------------------------------------------------------------
(* The names the lowering generates.                                       *)

\* A function the lowering has not begun.
Unnumbered(f) == ~f.lowered /\ \A i \in 1..Len(f.children) : ~HasId(f.children[i])

NoneNumbered(nodes, from) ==
  \A k \in from..Len(nodes) : nodes[k].kind = "FailureAwareFunction" => Unnumbered(nodes[k])

\* The numbered positions of a program.
NumberedAt(nodes, k, i) ==
  /\ k \in 1..Len(nodes) /\ nodes[k].kind = "FailureAwareFunction"
  /\ i \in 1..Len(nodes[k].children) /\ HasId(nodes[k].children[i])

IdAt(nodes, k, i) == nodes[k].children[i].syntheticId

Before(k, i, l, j) == k < l \/ (k = l /\ i < j)

\* The names given so far: free in their function, and growing along the program.
NamesFree(nodes, next) ==
  \A k, i : NumberedAt(nodes, k, i) =>
    IdAt(nodes, k, i) \in 0..next-1 /\ IdAt(nodes, k, i) \notin LoweringStage!Mentioned(nodes[k].range)

NamesGrow(nodes) ==
  \A k, i, l, j : NumberedAt(nodes, k, i) /\ NumberedAt(nodes, l, j) /\ Before(k, i, l, j) =>
    IdAt(nodes, k, i) < IdAt(nodes, l, j)

NamesWhole(nodes) ==
  \A k \in 1..Len(nodes) : nodes[k].kind = "FailureAwareFunction" /\ nodes[k].lowered =>
    \A i \in 1..Len(nodes[k].children) :
      nodes[k].children[i].kind = "TryInitialization" => HasId(nodes[k].children[i])

NamesGood(nodes, next) == NamesFree(nodes, next) /\ NamesGrow(nodes) /\ NamesWhole(nodes)

\* The function being numbered, up to "to".
NumberedTo(f, to) ==
  /\ ~f.lowered
  /\ \A i \in 1..Len(f.children) :
       IF i < to THEN f.children[i].kind = "TryInitialization" => HasId(f.children[i])
       ELSE ~HasId(f.children[i])

NamesInv ==
  /\ tokens \in Streams
  /\ nextSyntheticId \in Nat
  /\ NamesGood(program, nextSyntheticId)
  /\ stage \in {"lex", "lexed", "parse", "analyze", "build"} => NoneNumbered(program, 1)
  /\ stage = "build" /\ construction = "inFunction" => Unnumbered(irFunction[1])
  /\ stage = "lower" /\ lowering = "lowering" => NoneNumbered(program, child)
  /\ stage = "lower" /\ lowering = "numbering" =>
       NoneNumbered(program, child + 1) /\ NumberedTo(program[child], bodyChild)

\* The number looked for exists: a source mentions finitely many.
LEMMA FreshIdIsFree ==
  ASSUME NEW range, tokens \in Streams, nextSyntheticId \in Nat
  PROVE  /\ LoweringStage!FreshId(range) \in Nat
         /\ nextSyntheticId <= LoweringStage!FreshId(range)
         /\ LoweringStage!FreshId(range) \notin LoweringStage!Mentioned(range)
<1> DEFINE all == UNION {MentionedIds(tokens[i].text) : i \in 1..Len(tokens)}
           taken == LoweringStage!Mentioned(range)
           n == Cardinality(taken)
           tried == nextSyntheticId..nextSyntheticId + n
           free == {id \in tried : id \notin taken}
<1>1. all \subseteq Nat /\ IsFiniteSet(all)
  BY MentionedIdsAssumption
<1>2. taken \subseteq all
  BY DEF LoweringStage!Mentioned, LoweringStage!Covered
<1>3. taken \subseteq Nat /\ IsFiniteSet(taken) /\ n \in Nat
  BY <1>1, <1>2, FS_Subset, FS_CardinalityType
<1> HIDE DEF taken, n
<1>4. free # {}
  <2> SUFFICES ASSUME tried \subseteq taken PROVE FALSE
    OBVIOUS
  <2>1. IsFiniteSet(tried) /\ Cardinality(tried) = n + 1
    BY <1>3, FS_Interval
  <2>2. Cardinality(tried) <= n
    BY <1>3, <2>1, FS_Subset DEF n
  <2> QED
    BY <1>3, <2>1, <2>2
<1>5. free \subseteq Nat
  BY <1>3
<1> HIDE DEF free
<1>6. Min(free) \in free
  BY <1>4, <1>5, MinOfNaturals
<1>7. LoweringStage!FreshId(range) = Min(free)
  <2>1. \A S : LoweringStage!Min(S) = Min(S)
    BY DEF LoweringStage!Min, Min
  <2>2. \A S : LoweringStage!Cardinality(S) = Cardinality(S)
    BY DEF LoweringStage!Cardinality, Cardinality
  <2>3. LoweringStage!FreshId(range) = LoweringStage!Min(free)
    BY <2>2 DEF LoweringStage!FreshId, free, taken, n
  <2> QED
    BY <2>1, <2>3
<1>8. Min(free) \in Nat /\ nextSyntheticId <= Min(free) /\ Min(free) \notin taken
  BY <1>3, <1>6 DEF free
<1> QED
  BY <1>7, <1>8 DEF taken

LEMMA ChildrenReplaced ==
  ASSUME NEW f, DOMAIN f = IrFunctionFields, NEW nodes, NEW g, g = [f EXCEPT !.children = nodes]
  PROVE  /\ g.kind = f.kind /\ g.lowered = f.lowered /\ g.range = f.range
         /\ g.children = nodes
<1>1. /\ g.children = nodes
      /\ \A field \in IrFunctionFields : field # "children" => g[field] = f[field]
  BY DEF IrFunctionFields
<1> QED
  BY <1>1 DEF IrFunctionFields

\* The list that differs from another in one element.
Differs(new, old, k, node) ==
  /\ Len(new) = Len(old) /\ new[k] = node
  /\ \A l \in 1..Len(old) : l # k => new[l] = old[l]

LEMMA NewNameIsGood ==
  ASSUME NEW nodes, IsProgram(nodes), NEW next \in Nat, NamesGood(nodes, next),
         NEW k \in 1..Len(nodes), NEW b \in 1..Len(nodes[k].children),
         nodes[k].kind = "FailureAwareFunction",
         NoneNumbered(nodes, k + 1), NumberedTo(nodes[k], b),
         NEW node, HasId(node), node.syntheticId \in Nat, next <= node.syntheticId,
         node.syntheticId \notin LoweringStage!Mentioned(nodes[k].range),
         NEW f, f.kind = nodes[k].kind, f.lowered = nodes[k].lowered, f.range = nodes[k].range,
         Differs(f.children, nodes[k].children, b, node),
         NEW new, Differs(new, nodes, k, f)
  PROVE  /\ NamesGood(new, node.syntheticId + 1)
         /\ NoneNumbered(new, k + 1)
         /\ NumberedTo(f, b + 1)
<1> DEFINE body == nodes[k].children
           newBody == f.children
           id == node.syntheticId
<1>1. /\ IsList(nodes) /\ Len(nodes) \in Nat /\ IsIrFunction(nodes[k])
      /\ IsList(body) /\ Len(body) \in Nat
  BY DEF IsProgram, IsIrFunction, IsList
<1>2. /\ Len(new) = Len(nodes) /\ new[k] = f
      /\ \A l \in 1..Len(nodes) : l # k => new[l] = nodes[l]
  BY DEF Differs
<1>3. /\ Len(newBody) = Len(body) /\ newBody[b] = node
      /\ \A i \in 1..Len(body) : i # b => newBody[i] = body[i]
  BY DEF Differs
<1>4. /\ f.kind = nodes[k].kind /\ f.lowered = nodes[k].lowered /\ f.range = nodes[k].range
      /\ f.children = newBody
  OBVIOUS
<1> HIDE DEF newBody, id, body
<1>5. NumberedAt(new, k, b) /\ IdAt(new, k, b) = id
  BY <1>2, <1>3, <1>4 DEF NumberedAt, IdAt, id, body
\* A numbered position is the new one or an earlier one.
<1>6. ASSUME NEW l, NEW i, NumberedAt(new, l, i), ~(l = k /\ i = b)
      PROVE  /\ NumberedAt(nodes, l, i) /\ IdAt(new, l, i) = IdAt(nodes, l, i)
             /\ Before(l, i, k, b) /\ ~Before(k, b, l, i) /\ new[l].range = nodes[l].range
  <2>1. CASE l = k
    <3>1. i \in 1..Len(body) /\ i # b /\ newBody[i] = body[i] /\ HasId(body[i])
      BY <1>2, <1>3, <1>4, <1>6, <2>1 DEF NumberedAt
    <3>2. i < b
      BY <3>1 DEF NumberedTo, body
    <3>3. Before(l, i, k, b) /\ ~Before(k, b, l, i)
      BY <1>1, <2>1, <3>1, <3>2 DEF Before, body
    <3>4. NumberedAt(nodes, l, i) /\ IdAt(new, l, i) = IdAt(nodes, l, i)
      BY <1>2, <1>4, <2>1, <3>1 DEF NumberedAt, IdAt, body
    <3> QED
      BY <1>2, <1>4, <2>1, <3>3, <3>4
  <2>2. CASE l # k
    <3>1. /\ l \in 1..Len(nodes) /\ new[l] = nodes[l] /\ NumberedAt(nodes, l, i)
          /\ IdAt(new, l, i) = IdAt(nodes, l, i)
      BY <1>2, <1>6, <2>2 DEF NumberedAt, IdAt
    <3>2. l < k
      <4>1. l \notin k+1..Len(nodes)
        BY <3>1 DEF NoneNumbered, Unnumbered, NumberedAt
      <4> QED
        BY <1>1, <2>2, <3>1, <4>1
    <3>3. ~(k < l)
      BY <1>1, <3>1, <3>2
    <3>4. Before(l, i, k, b) /\ ~Before(k, b, l, i)
      BY <2>2, <3>2, <3>3 DEF Before
    <3> QED
      BY <3>1, <3>4
  <2> QED
    BY <2>1, <2>2
<1>7. id \in Nat /\ next <= id
  BY DEF id
<1>8. NamesFree(new, id + 1)
  <2> SUFFICES ASSUME NEW l, NEW i, NumberedAt(new, l, i)
               PROVE  /\ IdAt(new, l, i) \in 0..(id + 1)-1
                      /\ IdAt(new, l, i) \notin LoweringStage!Mentioned(new[l].range)
    BY DEF NamesFree
  <2>1. CASE l = k /\ i = b
    <3>1. IdAt(new, l, i) = id /\ new[l].range = nodes[k].range
      BY <1>2, <1>4, <1>5, <2>1
    <3>2. id \in 0..(id + 1)-1
      BY <1>7
    <3> QED
      BY <3>1, <3>2 DEF id
  <2>2. CASE ~(l = k /\ i = b)
    <3>1. /\ IdAt(new, l, i) \in 0..next-1
          /\ IdAt(new, l, i) \notin LoweringStage!Mentioned(new[l].range)
      BY <1>6, <2>2 DEF NamesGood, NamesFree
    <3> QED
      BY <1>7, <3>1
  <2> QED
    BY <2>1, <2>2
<1>9. NamesGrow(new)
  <2> SUFFICES ASSUME NEW l, NEW i, NEW m, NEW j, NumberedAt(new, l, i), NumberedAt(new, m, j),
                      Before(l, i, m, j)
               PROVE  IdAt(new, l, i) < IdAt(new, m, j)
    BY DEF NamesGrow
  <2>1. CASE m = k /\ j = b
    <3>1. ~(l = k /\ i = b)
      BY <2>1 DEF Before, NumberedAt
    <3>2. NumberedAt(nodes, l, i) /\ IdAt(new, l, i) = IdAt(nodes, l, i)
      BY <1>6, <3>1
    <3>3. IdAt(nodes, l, i) \in 0..next-1
      BY <3>2 DEF NamesGood, NamesFree
    <3>4. IdAt(new, m, j) = id
      BY <1>5, <2>1
    <3>5. \A n \in 0..next-1 : n < id
      BY <1>7
    <3> QED
      BY <3>2, <3>3, <3>4, <3>5
  <2>2. CASE ~(m = k /\ j = b)
    <3>1. NumberedAt(nodes, m, j) /\ IdAt(new, m, j) = IdAt(nodes, m, j) /\ ~Before(k, b, m, j)
      BY <1>6, <2>2
    <3>2. ~(l = k /\ i = b)
      BY <3>1
    <3>3. NumberedAt(nodes, l, i) /\ IdAt(new, l, i) = IdAt(nodes, l, i)
      BY <1>6, <3>2
    <3>4. IdAt(nodes, l, i) < IdAt(nodes, m, j)
      BY <3>1, <3>3 DEF NamesGood, NamesGrow
    <3> QED
      BY <3>1, <3>3, <3>4
  <2> QED
    BY <2>1, <2>2
<1>10. NamesWhole(new)
  <2> SUFFICES ASSUME NEW l \in 1..Len(nodes), new[l].kind = "FailureAwareFunction",
                      new[l].lowered
               PROVE  \A i \in 1..Len(new[l].children) :
                        new[l].children[i].kind = "TryInitialization" => HasId(new[l].children[i])
    BY <1>2 DEF NamesWhole
  <2>1. l # k
    BY <1>2, <1>4 DEF NumberedTo
  <2>2. new[l] = nodes[l]
    BY <1>2, <2>1
  <2> QED
    BY <2>2 DEF NamesGood, NamesWhole
<1>11. NoneNumbered(new, k + 1)
  <2>1. \A l \in k+1..Len(nodes) : l \in 1..Len(nodes) /\ l # k
    BY <1>1
  <2> QED
    BY <1>2, <2>1 DEF NoneNumbered
<1>12. NumberedTo(f, b + 1)
  <2>1. Len(f.children) = Len(body) /\ ~f.lowered
    BY <1>3, <1>4 DEF NumberedTo
  <2>2. ASSUME NEW i \in 1..Len(body)
        PROVE  IF i < b + 1 THEN f.children[i].kind = "TryInitialization" => HasId(f.children[i])
               ELSE ~HasId(f.children[i])
    <3>1. CASE i = b
      <4>1. f.children[i] = node /\ i < b + 1
        BY <1>1, <1>3, <1>4, <3>1
      <4> QED
        BY <4>1
    <3>2. CASE i # b
      <4>1. f.children[i] = body[i] /\ (i < b + 1 <=> i < b)
        BY <1>1, <1>3, <1>4, <3>2 DEF body
      <4>2. IF i < b THEN body[i].kind = "TryInitialization" => HasId(body[i])
            ELSE ~HasId(body[i])
        BY DEF NumberedTo, body
      <4> QED
        BY <4>1, <4>2
    <3> QED
      BY <3>1, <3>2
  <2> QED
    BY <2>1, <2>2 DEF NumberedTo
<1> QED
  BY <1>8, <1>9, <1>10, <1>11, <1>12 DEF NamesGood, id

\* The names of a program are read off the tokens, which stay.
LEMMA NamesNow ==
  ASSUME tokens' = tokens, NamesGood(program', nextSyntheticId')
  PROVE  NamesGood(program, nextSyntheticId)'
<1>1. NamesFree(program, nextSyntheticId)'
  <2>1. NamesFree(program', nextSyntheticId')
    BY DEF NamesGood
  <2> QED
    BY <2>1 DEF NamesFree, NumberedAt, IdAt, HasId, LoweringStage!Mentioned,
       LoweringStage!Covered
<1>2. NamesGrow(program)'
  BY DEF NamesGood, NamesGrow, NumberedAt, IdAt, Before, HasId
<1>3. NamesWhole(program)'
  BY DEF NamesGood, NamesWhole, HasId
<1> QED
  BY <1>1, <1>2, <1>3 DEF NamesGood

LEMMA UnnumberedIsGood ==
  ASSUME NEW nodes, NEW next, NoneNumbered(nodes, 1), Len(nodes) \in Nat
  PROVE  NamesGood(nodes, next)
<1>1. \A k, i : ~NumberedAt(nodes, k, i)
  BY DEF NoneNumbered, Unnumbered, NumberedAt
<1>2. NamesWhole(nodes)
  BY DEF NoneNumbered, Unnumbered, NamesWhole
<1> QED
  BY <1>1, <1>2 DEF NamesGood, NamesFree, NamesGrow

LEMMA UnnumberedGrows ==
  ASSUME NEW nodes, IsList(nodes), NoneNumbered(nodes, 1),
         NEW node, node.kind = "FailureAwareFunction" => Unnumbered(node)
  PROVE  NoneNumbered(nodes \o <<node>>, 1)
<1>1. /\ Len(nodes) \in Nat
      /\ Len(nodes \o <<node>>) = Len(nodes) + 1
      /\ \A k \in 1..Len(nodes) : (nodes \o <<node>>)[k] = nodes[k]
      /\ (nodes \o <<node>>)[Len(nodes) + 1] = node
  BY PushedElement
<1>2. \A k \in 1..Len(nodes) + 1 : k \in 1..Len(nodes) \/ k = Len(nodes) + 1
  BY <1>1
<1> QED
  BY <1>1, <1>2 DEF NoneNumbered

LEMMA InitIsNamed == Init => NamesInv
<1> SUFFICES ASSUME Init PROVE NamesInv
  OBVIOUS
<1>1. /\ tokens \in Streams /\ nextSyntheticId = 0 /\ program = <<>> /\ stage = "lex"
  BY DEF Init, ParserInit, LoweringStage!Init, Construction!Init
<1>2. NoneNumbered(program, 1) /\ Len(program) \in Nat
  BY <1>1, EmptyList DEF NoneNumbered
<1> QED
  BY <1>1, <1>2, UnnumberedIsGood DEF NamesInv

LEMMA BuildKeepsNames ==
  ASSUME SInv, ProgramInv, NamesInv, BuildIr
  PROVE  NamesInv'
<1>1. /\ stage = "build" /\ stage' = "build" /\ tokens' = tokens
      /\ nextSyntheticId' = nextSyntheticId
      /\ tokens \in Streams /\ nextSyntheticId \in Nat
      /\ IsList(program) /\ NoneNumbered(program, 1)
      /\ construction = "inFunction" =>
           \E node : irFunction = <<node>> /\ IsIrFunction(node) /\ Unnumbered(node)
  <2>1. /\ stage = "build" /\ stage' = "build" /\ tokens' = tokens
        /\ nextSyntheticId' = nextSyntheticId
    BY DEF BuildIr, controlVars, loweringVars
  <2>2. \A node : irFunction = <<node>> => irFunction[1] = node
    BY SingletonList
  <2> QED
    BY <2>1, <2>2 DEF NamesInv, ProgramInv, IsProgram
<1>2. ASSUME IsList(program'), NoneNumbered(program', 1),
             construction' = "inFunction" => Unnumbered(irFunction'[1])
      PROVE  NamesInv'
  <2>1. NamesGood(program', nextSyntheticId')
    BY <1>2, UnnumberedIsGood DEF IsList
  <2>2. NamesGood(program, nextSyntheticId)'
    BY <1>1, <2>1, NamesNow
  <2> QED
    BY <1>1, <1>2, <2>2 DEF NamesInv
<1>3. CASE Construction!BuildTopLevel
  <2> DEFINE built == Construction!Build(unit.children[child], contract)
  <2>1. /\ construction = "building"
        /\ \/ construction' = "failed" /\ program' = program
           \/ /\ built.ir # <<>> /\ program' = program \o built.ir
              /\ construction' = construction
    BY <1>3 DEF Construction!BuildTopLevel, Construction!Stop
  <2>2. ASSUME built.ir # <<>>
        PROVE  IsList(program \o built.ir) /\ NoneNumbered(program \o built.ir, 1)
    <3>1. PICK ir : built.ir = <<ir>> /\ ir.kind # "FailureAwareFunction"
      BY <2>2, BuiltIsPlain
    <3> HIDE DEF built
    <3> QED
      BY <1>1, <3>1, PushedElement, UnnumberedGrows
  <2> HIDE DEF built
  <2> QED
    BY <1>1, <1>2, <2>1, <2>2
<1>4. CASE Construction!BeginFunction
  <2> DEFINE built == Construction!BuildFunction(unit.children[child])
  <2>1. /\ program' = program
        /\ \/ construction' = "failed"
           \/ built.ir # <<>> /\ irFunction' = built.ir
    BY <1>4 DEF Construction!BeginFunction, Construction!Stop
  <2>2. ASSUME built.ir # <<>> PROVE Unnumbered(built.ir[1])
    <3>1. PICK f : built.ir = <<f>> /\ f.lowered = FALSE /\ f.children = <<>>
      BY <2>2, BuiltFunctionIsValid
    <3>2. Unnumbered(f)
      BY <3>1, EmptyList DEF Unnumbered
    <3> HIDE DEF built
    <3> QED
      BY <3>1, <3>2, SingletonList
  <2> HIDE DEF built
  <2> QED
    BY <1>1, <1>2, <2>1, <2>2
<1>5. CASE Construction!BuildBodyChild
  <2> DEFINE built == Construction!Build(unit.children[child].children[bodyChild], bodyContract)
  <2>1. /\ construction = "inFunction" /\ program' = program
        /\ \/ construction' = "failed"
           \/ /\ built.ir # <<>>
              /\ irFunction' = <<[irFunction[1] EXCEPT !.children = @ \o built.ir]>>
    BY <1>5 DEF Construction!BuildBodyChild, Construction!Stop
  <2>2. PICK node : irFunction = <<node>> /\ IsIrFunction(node) /\ Unnumbered(node)
    BY <1>1, <2>1
  <2>3. irFunction[1] = node
    BY <2>2, SingletonList
  <2>4. ASSUME built.ir # <<>>
        PROVE  Unnumbered([node EXCEPT !.children = node.children \o built.ir])
    <3>1. PICK ir : built.ir = <<ir>> /\ ~HasId(ir)
      BY <2>4, BuiltIsPlain
    <3> DEFINE body == node.children
               grown == body \o <<ir>>
               g == [node EXCEPT !.children = grown]
    <3>2. g.children = grown /\ g.lowered = node.lowered
      BY <2>2 DEF IsIrFunction, IrFunctionFields
    <3>3. IsList(body)
      BY <2>2 DEF IsIrFunction
    <3> HIDE DEF g
    <3>4. \A k \in 1..Len(body) : ~HasId(body[k])
      BY <2>2 DEF Unnumbered
    <3> HIDE DEF body
    <3>5. \A k \in 1..Len(grown) : ~HasId(grown[k])
      <4>1. /\ Len(body) \in Nat /\ Len(grown) = Len(body) + 1
            /\ \A k \in 1..Len(body) : grown[k] = body[k]
            /\ grown[Len(body) + 1] = ir
        BY <3>3, PushedElement
      <4> HIDE DEF grown
      <4>2. \A k \in 1..Len(body) + 1 : k \in 1..Len(body) \/ k = Len(body) + 1
        BY <4>1
      <4> QED
        BY <3>1, <3>4, <4>1, <4>2
    <3> HIDE DEF grown
    <3>6. Unnumbered(g)
      BY <2>2, <3>2, <3>5 DEF Unnumbered
    <3> QED
      BY <3>1, <3>6 DEF g, grown, body
  <2> HIDE DEF built
  <2>5. ASSUME irFunction' = <<[node EXCEPT !.children = node.children \o built.ir]>>,
               built.ir # <<>>
        PROVE  Unnumbered(irFunction'[1])
    BY <2>4, <2>5, SingletonList
  <2> QED
    BY <1>1, <1>2, <2>1, <2>3, <2>5
<1>6. CASE Construction!EndFunction
  <2>1. /\ construction = "inFunction" /\ construction' = "building"
        /\ program' = program \o irFunction
    BY <1>6 DEF Construction!EndFunction
  <2>2. PICK node : irFunction = <<node>> /\ Unnumbered(node)
    BY <1>1, <2>1
  <2>3. IsList(program') /\ NoneNumbered(program', 1)
    BY <1>1, <2>1, <2>2, UnnumberedGrows, PushedElement
  <2> QED
    BY <1>2, <2>1, <2>3
<1>7. CASE Construction!FinishConstruction
  <2>1. program' = program /\ construction' = "built"
    BY <1>7 DEF Construction!FinishConstruction
  <2> QED
    BY <1>1, <1>2, <2>1
<1> QED
  BY <1>3, <1>4, <1>5, <1>6, <1>7 DEF BuildIr, Construction!Next

LEMMA LowerKeepsNames ==
  ASSUME SInv, ProgramInv, NamesInv, Lower
  PROVE  NamesInv'
<1> DEFINE f == program[child]
<1>1. /\ stage = "lower" /\ stage' = "lower" /\ LoweringStage!Next
      /\ IsProgram(program) /\ Len(program) \in Nat /\ LoweringAt
      /\ tokens \in Streams /\ nextSyntheticId \in Nat /\ NamesGood(program, nextSyntheticId)
      /\ lowering = "lowering" => NoneNumbered(program, child)
      /\ lowering = "numbering" => NoneNumbered(program, child + 1) /\ NumberedTo(f, bodyChild)
  BY DEF Lower, controlVars, ProgramInv, NamesInv, IsProgram, IsList
<1>2. ASSUME tokens' = tokens, nextSyntheticId' \in Nat, NamesGood(program', nextSyntheticId'),
             lowering' = "lowering" => NoneNumbered(program', child'),
             lowering' = "numbering" =>
               NoneNumbered(program', child' + 1) /\ NumberedTo(program'[child'], bodyChild')
      PROVE  NamesInv'
  <2>1. NamesGood(program, nextSyntheticId)'
    BY <1>2, NamesNow
  <2> QED
    BY <1>1, <1>2, <2>1 DEF NamesInv
<1>3. CASE LoweringStage!LowerNode \/ LoweringStage!RefuseVoidFunction
  <2>1. /\ UNCHANGED <<tokens, program, nextSyntheticId, lowering>>
        /\ lowering = "lowering" /\ child' = child + 1
    BY <1>3 DEF LoweringStage!LowerNode, LoweringStage!RefuseVoidFunction
  <2>2. child \in Nat
    BY <1>1, <2>1 DEF LoweringAt
  <2>3. NoneNumbered(program, child + 1)
    BY <1>1, <2>1, <2>2 DEF NoneNumbered
  <2> QED
    BY <1>1, <1>2, <2>1, <2>3
<1>4. CASE LoweringStage!BeginFunction
  <2>1. /\ UNCHANGED <<tokens, program, nextSyntheticId, child>>
        /\ lowering = "lowering" /\ lowering' = "numbering" /\ child <= Len(program)
        /\ f.kind = "FailureAwareFunction" /\ bodyChild' = 1
    BY <1>4 DEF LoweringStage!BeginFunction
  <2>2. child \in 1..Len(program)
    BY <1>1, <2>1 DEF LoweringAt
  <2>3. NoneNumbered(program, child + 1) /\ Unnumbered(f)
    BY <1>1, <2>1, <2>2 DEF NoneNumbered
  <2>4. NumberedTo(f, 1)
    BY <2>3 DEF NumberedTo, Unnumbered
  <2> QED
    BY <1>1, <1>2, <2>1, <2>3, <2>4
<1>5. CASE LoweringStage!NumberInitialization
  <2> DEFINE old == f.children[bodyChild]
             id == LoweringStage!FreshId(f.range)
             node == LoweringStage!Numbered(old, id)
             g == [f EXCEPT !.children = [f.children EXCEPT ![bodyChild] = node]]
  <2>1. /\ lowering = "numbering" /\ lowering' = "numbering" /\ tokens' = tokens
        /\ child <= Len(program) /\ bodyChild <= Len(f.children)
        /\ \/ /\ old.kind = "TryInitialization"
              /\ program' = [program EXCEPT ![child] =
                               [f EXCEPT !.children = [f.children EXCEPT ![bodyChild] = node]]]
              /\ nextSyntheticId' = id + 1
           \/ /\ old.kind # "TryInitialization"
              /\ program' = program /\ nextSyntheticId' = nextSyntheticId
        /\ child' = child /\ bodyChild' = bodyChild + 1
    BY <1>5 DEF LoweringStage!NumberInitialization, LoweringStage!InFunction
  <2>2. /\ child \in 1..Len(program) /\ f.kind = "FailureAwareFunction" /\ IsIrFunction(f)
        /\ bodyChild \in 1..Len(f.children)
    <3>1. child \in 1..Len(program) /\ f.kind = "FailureAwareFunction" /\ IsIrFunction(f)
      BY <1>1, <2>1 DEF LoweringAt, IsProgram
    <3>2. Len(f.children) \in Nat /\ bodyChild \in 1..Len(f.children)+1
      BY <1>1, <2>1, <3>1 DEF LoweringAt, IsIrFunction, IsList
    <3> QED
      BY <2>1, <3>1, <3>2
  <2>3. CASE old.kind # "TryInitialization"
    <3>1. NumberedTo(f, bodyChild + 1)
      <4>1. NumberedTo(f, bodyChild)
        BY <1>1, <2>1
      <4>2. ~HasId(old)
        BY <2>3 DEF HasId
      <4>3. \A i \in 1..Len(f.children) : i < bodyChild + 1 => i < bodyChild \/ i = bodyChild
        BY <2>2
      <4>4. \A i \in 1..Len(f.children) : ~(i < bodyChild + 1) => ~(i < bodyChild)
        BY <2>2
      <4> HIDE DEF f
      <4> QED
        BY <2>3, <4>1, <4>2, <4>3, <4>4 DEF NumberedTo
    <3> QED
      BY <1>1, <1>2, <2>1, <2>3, <3>1
  <2>4. CASE old.kind = "TryInitialization"
    <3>1. /\ HasId(node) /\ node.syntheticId = id
      BY DEF LoweringStage!Numbered, HasId
    <3>2. id \in Nat /\ nextSyntheticId <= id /\ id \notin LoweringStage!Mentioned(f.range)
      BY <1>1, FreshIdIsFree
    <3>3. program' = [program EXCEPT ![child] = g] /\ nextSyntheticId' = id + 1
      BY <2>1, <2>4
    <3>4. NoneNumbered(program, child + 1) /\ NumberedTo(f, bodyChild)
      BY <1>1, <2>1
    <3> HIDE DEF node, id
    <3>5. g.kind = f.kind /\ g.lowered = f.lowered /\ g.range = f.range
          /\ Differs(g.children, f.children, bodyChild, node)
      <4>1. DOMAIN f = IrFunctionFields /\ IsList(f.children)
        BY <2>2 DEF IsIrFunction
      <4>2. /\ g.kind = f.kind /\ g.lowered = f.lowered /\ g.range = f.range
            /\ g.children = [f.children EXCEPT ![bodyChild] = node]
        BY <4>1, ChildrenReplaced
      <4>3. Differs([f.children EXCEPT ![bodyChild] = node], f.children, bodyChild, node)
        BY <2>2, <4>1, NodeReplaced DEF Differs
      <4> QED
        BY <4>2, <4>3
    <3> HIDE DEF g
    <3>6. Differs(program', program, child, g)
      <4>1. IsList(program)
        BY <1>1 DEF IsProgram
      <4> QED
        BY <2>2, <3>3, <4>1, NodeReplaced DEF Differs
    <3>7. /\ NamesGood(program', id + 1) /\ NoneNumbered(program', child + 1)
          /\ NumberedTo(g, bodyChild + 1)
      <4> HIDE DEF f
      <4>1. bodyChild \in 1..Len(program[child].children) /\ child \in 1..Len(program)
            /\ program[child].kind = "FailureAwareFunction"
        BY <2>2 DEF f
      <4>2. /\ g.kind = program[child].kind /\ g.lowered = program[child].lowered
            /\ g.range = program[child].range /\ NumberedTo(program[child], bodyChild)
            /\ Differs(g.children, program[child].children, bodyChild, node)
            /\ node.syntheticId \in Nat /\ nextSyntheticId <= node.syntheticId
            /\ node.syntheticId \notin LoweringStage!Mentioned(program[child].range)
        BY <3>1, <3>2, <3>4, <3>5 DEF f
      <4> QED
        BY <1>1, <3>1, <3>4, <3>6, <4>1, <4>2, NewNameIsGood
    <3> HIDE DEF f
    <3> QED
      BY <1>2, <2>1, <3>2, <3>3, <3>6, <3>7 DEF Differs
  <2> QED
    BY <2>3, <2>4
<1>6. CASE LoweringStage!MarkLowered
  <2> DEFINE g == [f EXCEPT !.lowered = TRUE]
             new == [program EXCEPT ![child] = g]
  <2>1. /\ lowering = "numbering" /\ lowering' = "lowering" /\ child' = child + 1
        /\ child <= Len(program) /\ bodyChild > Len(f.children) /\ program' = new
        /\ UNCHANGED <<tokens, nextSyntheticId>>
    BY <1>6 DEF LoweringStage!MarkLowered, LoweringStage!InFunction
  <2>2. /\ child \in 1..Len(program) /\ f.kind = "FailureAwareFunction" /\ IsIrFunction(f)
        /\ bodyChild \in Nat /\ Len(f.children) \in Nat
    BY <1>1, <2>1 DEF LoweringAt, IsProgram, IsIrFunction, IsList
  <2>3. /\ NoneNumbered(program, child + 1)
        /\ \A i \in 1..Len(f.children) :
             f.children[i].kind = "TryInitialization" => HasId(f.children[i])
    <3>1. \A i \in 1..Len(f.children) : i < bodyChild
      BY <2>1, <2>2
    <3> QED
      BY <1>1, <2>1, <3>1 DEF NumberedTo
  <2>4. g.kind = f.kind /\ g.range = f.range /\ g.children = f.children
    BY <2>2 DEF IsIrFunction, IrFunctionFields
  <2> HIDE DEF f, g
  <2>5. /\ Len(new) = Len(program) /\ new[child] = g
        /\ \A l \in 1..Len(program) : l # child => new[l] = program[l]
    BY <1>1, <2>2, NodeReplaced DEF IsProgram
  <2> HIDE DEF new
  <2>6. /\ \A k \in 1..Len(program) : /\ new[k].kind = program[k].kind
                                      /\ new[k].range = program[k].range
                                      /\ new[k].children = program[k].children
        /\ \A k, i : NumberedAt(new, k, i) <=> NumberedAt(program, k, i)
        /\ \A k \in 1..Len(program) : \A i : IdAt(new, k, i) = IdAt(program, k, i)
    BY <2>4, <2>5 DEF f, NumberedAt, IdAt
  <2>7. NamesFree(new, nextSyntheticId)
    BY <1>1, <2>6 DEF NamesGood, NamesFree, NumberedAt
  <2>8. NamesGrow(new)
    <3> SUFFICES ASSUME NEW k, NEW i, NEW l, NEW j, NumberedAt(new, k, i), NumberedAt(new, l, j),
                        Before(k, i, l, j)
                 PROVE  IdAt(new, k, i) < IdAt(new, l, j)
      BY DEF NamesGrow
    <3>1. NumberedAt(program, k, i) /\ NumberedAt(program, l, j)
      BY <2>6
    <3>2. k \in 1..Len(program) /\ l \in 1..Len(program)
      BY <3>1 DEF NumberedAt
    <3>3. IdAt(new, k, i) = IdAt(program, k, i) /\ IdAt(new, l, j) = IdAt(program, l, j)
      BY <2>6, <3>2
    <3> QED
      BY <1>1, <3>1, <3>3 DEF NamesGood, NamesGrow
  <2>9. NamesWhole(new)
    <3> SUFFICES ASSUME NEW k \in 1..Len(program), new[k].kind = "FailureAwareFunction",
                        new[k].lowered, NEW i \in 1..Len(new[k].children),
                        new[k].children[i].kind = "TryInitialization"
                 PROVE  HasId(new[k].children[i])
      BY <2>5 DEF NamesWhole
    <3>1. CASE k = child
      BY <2>3, <2>4, <2>5, <3>1 DEF f
    <3>2. CASE k # child
      BY <1>1, <2>5, <3>2 DEF NamesGood, NamesWhole
    <3> QED
      BY <3>1, <3>2
  <2>10. NoneNumbered(new, child + 1)
    BY <2>2, <2>3, <2>5 DEF NoneNumbered
  <2> QED
    BY <1>1, <1>2, <2>1, <2>7, <2>8, <2>9, <2>10 DEF NamesGood
<1>7. CASE LoweringStage!FinishLowering
  <2>1. UNCHANGED <<tokens, program, nextSyntheticId>> /\ lowering' \in {"lowered", "failed"}
    BY <1>7 DEF LoweringStage!FinishLowering
  <2> QED
    BY <1>1, <1>2, <2>1
<1> QED
  BY <1>1, <1>3, <1>4, <1>5, <1>6, <1>7 DEF LoweringStage!Next

\* No stage changes the tokens.
LEMMA TokensStay == [Next]_vars => tokens' = tokens
<1>1. ParserStep => tokens' = tokens
  BY DEF ParserStep, ParseTopLevelConstruct, ParseTopLevelRegion, ParseFunctionHeader,
     FinishUnit, ScanBodyToken, ParseBodyReturn, ParseBodyTryInitialization,
     ParseBodyConstruct, CloseBody, EndOfFileInBody, PushBodyConstruct
<1> QED
  BY <1>1, ParserRunsAlone DEF parsingVars

LEMMA NamesAreKept == CallInv /\ NamesInv /\ [Next]_vars => NamesInv'
<1> SUFFICES ASSUME CallInv, NamesInv, [Next]_vars PROVE NamesInv'
  OBVIOUS
<1> DEFINE Results == <<tokens, program, nextSyntheticId>>
<1>1. /\ workVars' = workVars =>
           UNCHANGED <<Results, construction, irFunction, child, bodyChild, lowering>>
      /\ loweringVars' = loweringVars => UNCHANGED <<lowering, nextSyntheticId>>
      /\ irVars' = irVars => UNCHANGED <<construction, irFunction>>
      /\ SInv /\ ProgramInv
  BY DEF workVars, cursor, irVars, loweringVars, CallInv, RInv
\* Away from the construction and the lowering only the names given so far matter.
<1>2. ASSUME UNCHANGED Results, stage' \notin {"build", "lower"},
             stage' \in {"lex", "lexed", "parse", "analyze"} =>
               stage \in {"lex", "lexed", "parse", "analyze"}
      PROVE  NamesInv'
  <2>1. NamesGood(program, nextSyntheticId)'
    BY <1>2, NamesNow DEF NamesInv
  <2> QED
    BY <1>2, <2>1 DEF NamesInv
<1>3. CASE Lex
  <2>1. stage = "lex" /\ stage' = "lexed" /\ workVars' = workVars
    BY <1>3 DEF Lex
  <2> QED
    BY <1>1, <1>2, <2>1
<1>4. CASE FinishLexing
  <2>1. stage = "lexed" /\ stage' \in {"parse", "done"} /\ workVars' = workVars
    BY <1>4 DEF FinishLexing, Proceed, Refuse, MakeResult
  <2> QED
    BY <1>1, <1>2, <2>1
<1>5. CASE Parse
  <2>1. tokens' = tokens
    BY TokensStay
  <2>2. stage = "parse" /\ stage' = "parse" /\ UNCHANGED Results
    BY <1>1, <1>5, <2>1 DEF Parse, controlVars
  <2> QED
    BY <1>2, <2>2
<1>6. CASE FinishParsing
  <2>1. stage = "parse" /\ stage' \in {"analyze", "done"} /\ workVars' = workVars
    BY <1>6 DEF FinishParsing, Proceed, Refuse, MakeResult
  <2> QED
    BY <1>1, <1>2, <2>1
<1>7. CASE Analyze
  <2>1. tokens' = tokens
    BY TokensStay
  <2>2. stage = "analyze" /\ stage' = "analyze" /\ UNCHANGED Results
    BY <1>1, <1>7, <2>1 DEF Analyze, controlVars
  <2> QED
    BY <1>2, <2>2
<1>8. CASE FinishAnalyzing
  <2>1. /\ stage = "analyze" /\ stage' \in {"build", "done"} /\ workVars' = workVars
    BY <1>8 DEF FinishAnalyzing, Proceed, Refuse, MakeResult
  <2>2. construction = "building" /\ UNCHANGED <<Results, construction>>
    BY <1>1, <2>1 DEF SInv
  <2>3. NamesGood(program, nextSyntheticId)'
    BY <2>2, NamesNow DEF NamesInv
  <2> QED
    BY <2>1, <2>2, <2>3 DEF NamesInv
<1>9. CASE BuildIr
  BY <1>1, <1>9, BuildKeepsNames
<1>10. CASE FinishBuilding
  <2>1. /\ stage = "build" /\ stage' \in {"lower", "done"} /\ workVars' = workVars
        /\ construction \in {"built", "failed"} /\ (construction = "failed" => stage' = "done")
    BY <1>10 DEF FinishBuilding, Proceed, Refuse, MakeResult
  <2>2. /\ lowering = "lowering" /\ UNCHANGED <<Results, child, lowering>>
        /\ construction = "built" => child = 1
    BY <1>1, <2>1 DEF SInv, ProgramInv
  <2>3. NamesGood(program, nextSyntheticId)'
    BY <2>2, NamesNow DEF NamesInv
  <2> QED
    BY <2>1, <2>2, <2>3 DEF NamesInv
<1>11. CASE Lower
  BY <1>1, <1>11, LowerKeepsNames
<1>12. CASE FinishLowering
  <2>1. stage = "lower" /\ stage' \in {"emit", "done"} /\ workVars' = workVars
    BY <1>12 DEF FinishLowering, Proceed, Refuse, MakeResult
  <2> QED
    BY <1>1, <1>2, <2>1
<1>13. CASE Emit
  <2>1. UNCHANGED <<tokens, program>>
    BY <1>13 DEF Emit, Emission!Next, Emission!EmitSupport, Emission!EmitTopLevel,
       Emission!EnterFunction, Emission!EmitBodyChild, Emission!LeaveFunction,
       Emission!FinishEmission
  <2>2. stage = "emit" /\ stage' = "emit" /\ UNCHANGED Results
    BY <1>1, <1>13, <2>1 DEF Emit, controlVars
  <2> QED
    BY <1>2, <2>2
<1>14. CASE FinishEmitting
  <2>1. stage = "emit" /\ stage' = "done" /\ workVars' = workVars
    BY <1>14 DEF FinishEmitting, Refuse, MakeResult
  <2> QED
    BY <1>1, <1>2, <2>1
<1>15. CASE UNCHANGED vars
  <2>1. UNCHANGED <<stage, Results, construction, irFunction, child, bodyChild, lowering>>
    BY <1>1, <1>15 DEF vars, controlVars
  <2>2. NamesGood(program, nextSyntheticId)'
    BY <2>1, NamesNow DEF NamesInv
  <2> QED
    BY <2>1, <2>2 DEF NamesInv
<1> QED
  BY <1>3, <1>4, <1>5, <1>6, <1>7, <1>8, <1>9, <1>10, <1>11, <1>12, <1>13, <1>14, <1>15
     DEF Next, Process, Returned

(***************************************************************************)
(* For every source and whatever names it mentions, the variables the      *)
(* lowering generates have names of their own: no two try initializations  *)
(* of the lowered program share a number, and none is a number the text    *)
(* of the function around it mentions.  The numbers grow along the program *)
(* and every one given lies below the next one to try.                     *)
(***************************************************************************)
THEOREM GeneratedNamesAreFresh == Spec => []SyntheticNamesAreFresh
<1>1. Init => CallInv /\ NamesInv
  BY InitIsCall, InitIsNamed
<1>2. CallInv /\ NamesInv /\ [Next]_vars => (CallInv /\ NamesInv)'
  BY StepKeepsCall, NamesAreKept
<1>3. CallInv /\ NamesInv => SyntheticNamesAreFresh
  <2> SUFFICES ASSUME IsProgram(program), NamesGood(program, nextSyntheticId)
               PROVE  SyntheticNamesAreFresh
    BY DEF CallInv, ProgramInv, NamesInv
  <2>1. ASSUME NEW f \in LoweringStage!LoweredFunctions,
               NEW node \in LoweringStage!Initializations(f)
        PROVE  \E k, i : /\ NumberedAt(program, k, i) /\ f = program[k]
                         /\ node = program[k].children[i]
    <3>1. f \in LoweringStage!ToSet(program) /\ f.kind = "FailureAwareFunction" /\ f.lowered
      BY DEF LoweringStage!LoweredFunctions
    <3>2. PICK k \in 1..Len(program) : f = program[k]
      BY <3>1 DEF IsProgram, IsList, LoweringStage!ToSet
    <3>3. node \in LoweringStage!ToSet(f.children) /\ node.kind = "TryInitialization"
      BY DEF LoweringStage!Initializations
    <3>4. IsList(f.children)
      BY <3>1, <3>2 DEF IsProgram, IsIrFunction
    <3>5. PICK i \in 1..Len(f.children) : node = f.children[i]
      BY <3>3, <3>4 DEF IsList, LoweringStage!ToSet
    <3>6. HasId(node)
      BY <3>1, <3>2, <3>3, <3>5 DEF NamesGood, NamesWhole
    <3> QED
      BY <3>1, <3>2, <3>5, <3>6 DEF NumberedAt
  <2>2. ASSUME NEW f \in LoweringStage!LoweredFunctions,
               NEW node \in LoweringStage!Initializations(f)
        PROVE  node.syntheticId \notin LoweringStage!Mentioned(f.range)
    <3>1. PICK k, i : /\ NumberedAt(program, k, i) /\ f = program[k]
                      /\ node = program[k].children[i]
      BY <2>1
    <3> QED
      BY <3>1 DEF NamesGood, NamesFree, IdAt
  <2>3. ASSUME NEW f \in LoweringStage!LoweredFunctions, NEW g \in LoweringStage!LoweredFunctions,
               NEW a \in LoweringStage!Initializations(f),
               NEW b \in LoweringStage!Initializations(g),
               a.syntheticId = b.syntheticId
        PROVE  a = b
    <3>1. PICK k, i : /\ NumberedAt(program, k, i) /\ f = program[k]
                      /\ a = program[k].children[i]
      BY <2>1
    <3>2. PICK l, j : /\ NumberedAt(program, l, j) /\ g = program[l]
                      /\ b = program[l].children[j]
      BY <2>1
    <3>3. /\ IdAt(program, k, i) = IdAt(program, l, j)
          /\ IdAt(program, k, i) \in 0..nextSyntheticId-1
      BY <2>3, <3>1, <3>2 DEF IdAt, NamesGood, NamesFree
    <3>4. ~Before(k, i, l, j) /\ ~Before(l, j, k, i)
      BY <3>1, <3>2, <3>3 DEF NamesGood, NamesGrow
    <3>5. k = l
      BY <3>1, <3>2, <3>4 DEF NumberedAt, Before
    <3>6. i \in Int /\ j \in Int
      BY <3>1, <3>2 DEF NumberedAt
    <3>7. i = j
      BY <3>4, <3>5, <3>6 DEF Before
    <3> QED
      BY <3>1, <3>2, <3>5, <3>7
  <2> QED
    BY <2>2, <2>3 DEF SyntheticNamesAreFresh, LoweringStage!SyntheticNamesAreFresh
<1> QED
  BY <1>1, <1>2, <1>3, PTL DEF Spec

-----------------------------------------------------------------------------
(* Several writes, one after another.                                      *)

WriteOne(state, piece) == Emission!Write(state, piece.text, piece.original)

Written(state, pieces) ==
  Emission!FoldLeft(LAMBDA s, piece : Emission!Write(s, piece.text, piece.original),
                    state, pieces)

\* The fold's function: what the pieces with the indices of a set make of a state.
FoldedAt(state, pieces, g, indices) ==
  IF indices = {} THEN state
  ELSE WriteOne(g[indices \ {Emission!Max(indices)}], pieces[Emission!Max(indices)])

LEMMA LastIndex ==
  ASSUME NEW m \in Nat, NEW indices \in SUBSET (1..m), indices # {}
  PROVE  /\ Emission!Max(indices) \in indices
         /\ m \in Nat \ {0}
         /\ indices \ {Emission!Max(indices)} \in SUBSET (1..m-1)
<1>1. Emission!Max(indices) = Max(indices)
  BY DEF Emission!Max, Max
<1>2. indices \in SUBSET (0..m)
  OBVIOUS
<1>3. Max(indices) \in indices /\ \A y \in indices : y <= Max(indices)
  BY <1>2, MaxOfNaturals
<1>4. PICK x : x = Max(indices)
  OBVIOUS
<1>5. x \in 1..m /\ m \in Nat \ {0}
  <2>1. x \in 1..m
    BY <1>3, <1>4
  <2> QED
    BY <2>1
<1>6. ASSUME NEW y \in indices \ {x} PROVE y \in 1..m-1
  <2>1. y \in 1..m /\ y <= x /\ y # x
    BY <1>3, <1>4, <1>6
  <2> QED
    BY <1>5, <2>1
<1>7. indices \ {x} \in SUBSET (1..m-1)
  BY <1>6
<1> QED
  BY <1>1, <1>3, <1>4, <1>5, <1>7

LEMMA FoldExists ==
  ASSUME NEW state, NEW pieces, NEW n \in Nat
  PROVE  \E g : g = [s \in SUBSET (1..n) |-> FoldedAt(state, pieces, g, s)]
<1> DEFINE Folds(m, g) == g = [s \in SUBSET (1..m) |-> FoldedAt(state, pieces, g, s)]
           bad == {m \in Nat : ~\E g : Folds(m, g)}
<1> SUFFICES ASSUME bad # {} PROVE FALSE
  OBVIOUS
<1>1. Min(bad) \in bad /\ \A m \in bad : Min(bad) <= m
  BY MinOfNaturals
<1>2. PICK m \in Nat : m = Min(bad)
  BY <1>1
<1>3. m # 0
  <2> SUFFICES \E g : Folds(0, g)
    BY <1>1, <1>2
  <2> DEFINE g == [s \in SUBSET (1..0) |-> state]
  <2>1. \A s \in SUBSET (1..0) : s = {}
    OBVIOUS
  <2>2. \A h : \A s \in SUBSET (1..0) : FoldedAt(state, pieces, h, s) = state
    BY <2>1 DEF FoldedAt
  <2>3. Folds(0, g)
    BY <2>2
  <2> QED
    BY <2>3
<1>4. m - 1 \in Nat /\ m - 1 \notin bad
  <2>1. \A l \in bad : m <= l
    BY <1>1, <1>2
  <2> HIDE DEF bad
  <2> QED
    BY <1>3, <2>1
<1>5. PICK g : Folds(m - 1, g)
  BY <1>4
<1> DEFINE h == [s \in SUBSET (1..m) |-> IF s \in SUBSET (1..m-1) THEN g[s]
                                        ELSE FoldedAt(state, pieces, g, s)]
<1>6. ASSUME NEW s \in SUBSET (1..m)
      PROVE  FoldedAt(state, pieces, h, s) = FoldedAt(state, pieces, g, s)
  <2>1. CASE s = {}
    BY <2>1 DEF FoldedAt
  <2>2. CASE s # {}
    <3>1. s \ {Emission!Max(s)} \in SUBSET (1..m-1)
      BY <2>2, LastIndex
    <3>2. s \ {Emission!Max(s)} \in SUBSET (1..m)
      OBVIOUS
    <3>3. h[s \ {Emission!Max(s)}] = g[s \ {Emission!Max(s)}]
      BY <3>1, <3>2
    <3> QED
      BY <3>3 DEF FoldedAt
  <2> QED
    BY <2>1, <2>2
<1>7. ASSUME NEW s \in SUBSET (1..m)
      PROVE  h[s] = FoldedAt(state, pieces, h, s)
  <2>1. CASE s \in SUBSET (1..m-1)
    <3>1. g[s] = FoldedAt(state, pieces, g, s)
      BY <1>5, <2>1
    <3> QED
      BY <1>6, <2>1, <3>1
  <2>2. CASE s \notin SUBSET (1..m-1)
    BY <1>6, <2>2
  <2> QED
    BY <2>1, <2>2
<1>8. Folds(m, h)
  <2>1. DOMAIN h = SUBSET (1..m) /\ h = [s \in SUBSET (1..m) |-> h[s]]
    OBVIOUS
  <2> HIDE DEF h
  <2> QED
    BY <1>7, <2>1
<1> QED
  BY <1>1, <1>2, <1>8

\* A fold in steps.
Turns(w, state, pieces) ==
  /\ w[0] = state
  /\ \A k \in 1..Len(pieces) : w[k] = WriteOne(w[k-1], pieces[k])
  /\ Written(state, pieces) = w[Len(pieces)]

LEMMA WritesInTurn ==
  ASSUME NEW state, NEW pieces, IsList(pieces)
  PROVE  \E w : Turns(w, state, pieces)
<1> DEFINE n == Len(pieces)
           Folds(g) == g = [s \in SUBSET (1..n) |-> FoldedAt(state, pieces, g, s)]
           iter == CHOOSE g : Folds(g)
           w == [k \in 0..n |-> iter[1..k]]
<1>1. n \in Nat /\ DOMAIN pieces = 1..n
  BY DEF IsList
<1>2. Written(state, pieces) = iter[1..n]
  BY <1>1 DEF Written, WriteOne, FoldedAt, Emission!FoldLeft, Emission!MapThenFoldSet
<1>3. \E g : Folds(g)
  BY <1>1, FoldExists
<1>4. Folds(iter)
  BY <1>3
<1> HIDE DEF iter
<1>5. iter[1..0] = state
  <2>1. 1..0 = {} /\ 1..0 \in SUBSET (1..n)
    OBVIOUS
  <2> QED
    BY <1>4, <2>1 DEF FoldedAt
<1>6. ASSUME NEW k \in 1..n
      PROVE  iter[1..k] = WriteOne(iter[1..k-1], pieces[k])
  <2>1. 1..k \in SUBSET (1..n) /\ 1..k # {}
    BY <1>1
  <2>2. Emission!Max(1..k) = k
    <3>1. k \in 1..k /\ (1..k) \in SUBSET Int /\ \A y \in 1..k : y <= k
      BY <1>1
    <3>2. Max(1..k) = k
      BY <3>1, MaxIs
    <3> QED
      BY <3>2 DEF Emission!Max, Max
  <2>3. (1..k) \ {k} = 1..k-1
    BY <1>1
  <2>4. iter[1..k] = FoldedAt(state, pieces, iter, 1..k)
    BY <1>4, <2>1
  <2> QED
    BY <2>1, <2>2, <2>3, <2>4 DEF FoldedAt
<1>7. w[0] = state /\ w[n] = iter[1..n]
  BY <1>1, <1>5
<1>8. \A k \in 1..n : w[k] = WriteOne(w[k-1], pieces[k])
  BY <1>1, <1>6
<1> HIDE DEF w
<1>9. Turns(w, state, pieces)
  BY <1>2, <1>7, <1>8 DEF Turns
<1> QED
  BY <1>9

-----------------------------------------------------------------------------
(* What the backend reads of a program.                                    *)

\* What the backend knows how to emit, with the ranges whose text it writes.
Sourced(node) ==
  /\ node.kind \in {"CxxRegion", "Outcome", "FailurePropagation", "Return", "Failure",
                    "TryInitialization"}
  /\ node.kind = "CxxRegion" => IsRange(node.range)
  /\ node.kind \in {"Return", "Failure"} => IsRange(node.operand.range)
  /\ node.kind = "TryInitialization" =>
       IsRange(node.declaration) /\ IsRange(node.propagation.operand.range)

HeaderSourced(f) ==
  IsRange(f.successType) /\ IsRange(f.declarator) /\ IsRange(f.outcome.failureType)

FunctionSourced(f) == HeaderSourced(f) /\ \A i \in 1..Len(f.children) : Sourced(f.children[i])

ProgramSourced(nodes) ==
  \A k \in 1..Len(nodes) :
    IF nodes[k].kind = "FailureAwareFunction" THEN FunctionSourced(nodes[k]) ELSE Sourced(nodes[k])

\* A propagation reads its operand only.
BuiltOperand(n) == IsRange(n.range) /\ (n.kind = "FailurePropagation" => IsRange(n.operand.range))

LEMMA BuiltIsSourced ==
  ASSUME NEW node, RangedTwice(node), NEW failureType, NEW ir,
         Construction!Build(node, failureType).ir = <<ir>>
  PROVE  Sourced(ir)
<1> DEFINE Gives(built) == \A x : built.ir = <<x>> => Sourced(x)
           Yields(built) == \A x : built.ir = <<x>> => BuiltOperand(x) /\ x.kind # "TryInitialization"
<1>1. ASSUME NEW code PROVE Gives(Construction!Failed(code)) /\ Yields(Construction!Failed(code))
  BY OneIsNotNone DEF Construction!Failed
<1>2. ASSUME NEW x
      PROVE  /\ Sourced(x) => Gives(Construction!Built(x))
             /\ BuiltOperand(x) /\ x.kind # "TryInitialization" => Yields(Construction!Built(x))
  <2>1. Construction!Built(x).ir = <<x>>
    BY DEF Construction!Built
  <2>2. \A y : <<x>> = <<y>> => y = x
    BY SingletonList
  <2> QED
    BY <2>1, <2>2
<1> HIDE DEF Gives, Yields
<1>3. ASSUME NEW n, IsRange(n.range) PROVE Yields(Construction!Built(Construction!Region(n)))
                                           /\ Gives(Construction!Built(Construction!Region(n)))
  BY <1>2, <1>3 DEF Construction!Region, Sourced, BuiltOperand
<1>4. ASSUME NEW n, RangedOnce(n), NEW type PROVE Yields(Construction!BuildTry(n, type))
  <2> DEFINE callee == resolutions[Construction!ResolutionOf(n)].callee
             x == [kind |-> "FailurePropagation", range |-> n.range,
                   failureType |-> type, callee |-> callee,
                   operand |-> Construction!Region(n.children[1])]
  <2>1. \/ \E code : Construction!BuildTry(n, type) = Construction!Failed(code)
        \/ Len(n.children) = 1 /\ Construction!BuildTry(n, type) = Construction!Built(x)
    BY DEF Construction!BuildTry
  <2>2. Len(n.children) = 1 => BuiltOperand(x) /\ x.kind # "TryInitialization"
    BY <1>4 DEF RangedOnce, Ranged, BuiltOperand, Construction!Region
  <2> HIDE DEF x
  <2> QED
    BY <1>1, <1>2, <2>1, <2>2
<1>5. ASSUME NEW x, x.kind \in {"Outcome", "FailurePropagation"}
      PROVE  Sourced(x)
  BY <1>5 DEF Sourced
<1>6. ASSUME NEW n PROVE Gives(Construction!BuildSpecification(n))
  <2> DEFINE x == [kind |-> "Outcome", range |-> n.range, failureType |-> n.children[1].range]
  <2>1. \/ \E code : Construction!BuildSpecification(n) = Construction!Failed(code)
        \/ Construction!BuildSpecification(n) = Construction!Built(x)
    BY DEF Construction!BuildSpecification
  <2>2. Sourced(x)
    BY <1>5
  <2> HIDE DEF x
  <2> QED
    BY <1>1, <1>2, <2>1, <2>2
<1>7. ASSUME NEW n, RangedTwice(n), NEW type PROVE Gives(Construction!BuildFail(n, type))
  <2> DEFINE operand == IF n.children[1].kind = "TryExpression"
                        THEN Construction!BuildTry(n.children[1], type)
                        ELSE Construction!Built(Construction!Region(n.children[1]))
             x == [kind |-> "Failure", range |-> n.range, failureType |-> type,
                   operand |-> operand.ir[1]]
  <2>1. \/ \E code : Construction!BuildFail(n, type) = Construction!Failed(code)
        \/ /\ Len(n.children) = 1
           /\ \/ operand.ir = <<>> /\ Construction!BuildFail(n, type) = operand
              \/ operand.ir # <<>> /\ Construction!BuildFail(n, type) = Construction!Built(x)
    BY DEF Construction!BuildFail
  <2>2. ASSUME Len(n.children) = 1, operand.ir # <<>> PROVE Sourced(x)
    <3>1. RangedOnce(n.children[1]) /\ IsRange(n.children[1].range)
      BY <1>7, <2>2 DEF RangedTwice, RangedOnce, Ranged
    <3>2. Yields(operand)
      BY <1>3, <1>4, <3>1
    <3>3. operand.ir # <<>> => \E y : operand.ir = <<y>>
      <4>1. /\ \A code : Construction!Failed(code).ir = <<>>
            /\ \A z : Construction!Built(z).ir = <<z>>
        BY DEF Construction!Failed, Construction!Built
      <4>2. \/ \E code : operand = Construction!Failed(code)
            \/ \E z : operand = Construction!Built(z)
        BY DEF Construction!BuildTry
      <4> HIDE DEF operand
      <4> QED
        BY <4>1, <4>2
    <3> HIDE DEF operand
    <3>4. PICK y : operand.ir = <<y>>
      BY <2>2, <3>3
    <3>5. operand.ir[1] = y /\ BuiltOperand(y)
      BY <3>2, <3>4, SingletonList DEF Yields
    <3> QED
      BY <3>5 DEF Sourced, BuiltOperand
  <2>3. operand.ir = <<>> => Gives(operand)
    BY OneIsNotNone DEF Gives
  <2> HIDE DEF x, operand
  <2> QED
    BY <1>1, <1>2, <2>1, <2>2, <2>3
<1>8. ASSUME NEW n, RangedTwice(n) PROVE Gives(Construction!BuildReturn(n))
  <2> DEFINE x == [kind |-> "Return", range |-> n.range,
                   operand |-> Construction!Region(n.children[1])]
  <2>1. \/ \E code : Construction!BuildReturn(n) = Construction!Failed(code)
        \/ Len(n.children) = 1 /\ Construction!BuildReturn(n) = Construction!Built(x)
    BY DEF Construction!BuildReturn
  <2>2. Len(n.children) = 1 => Sourced(x)
    BY <1>8 DEF RangedTwice, RangedOnce, Ranged, Sourced, Construction!Region
  <2> HIDE DEF x
  <2> QED
    BY <1>1, <1>2, <2>1, <2>2
<1>9. ASSUME NEW n, RangedTwice(n), NEW type PROVE Gives(Construction!BuildTryInitialization(n, type))
  <2> DEFINE propagation == Construction!BuildTry(n.children[2], type)
             x == [kind |-> "TryInitialization", range |-> n.range,
                   declaration |-> n.children[1].range, propagation |-> propagation.ir[1]]
  <2>1. \/ \E code : Construction!BuildTryInitialization(n, type) = Construction!Failed(code)
        \/ /\ Len(n.children) = 2
           /\ \/ /\ propagation.ir = <<>>
                 /\ Construction!BuildTryInitialization(n, type) = propagation
              \/ /\ propagation.ir # <<>>
                 /\ Construction!BuildTryInitialization(n, type) = Construction!Built(x)
    BY DEF Construction!BuildTryInitialization
  <2>2. ASSUME Len(n.children) = 2, propagation.ir # <<>> PROVE Sourced(x)
    <3>1. RangedOnce(n.children[2]) /\ IsRange(n.children[1].range)
      BY <1>9, <2>2 DEF RangedTwice, RangedOnce, Ranged
    <3>2. \E y : /\ propagation.ir = <<y>> /\ y.kind = "FailurePropagation"
                 /\ y.operand = Construction!Region(n.children[2].children[1])
                 /\ Len(n.children[2].children) = 1
      <4> DEFINE y == [kind |-> "FailurePropagation", range |-> n.children[2].range,
                       failureType |-> type,
                       callee |-> resolutions[Construction!ResolutionOf(n.children[2])].callee,
                       operand |-> Construction!Region(n.children[2].children[1])]
      <4>1. \/ \E code : propagation = Construction!Failed(code)
            \/ Len(n.children[2].children) = 1 /\ propagation = Construction!Built(y)
        BY DEF Construction!BuildTry
      <4>2. \A code : Construction!Failed(code).ir = <<>>
        BY DEF Construction!Failed
      <4>3. Construction!Built(y).ir = <<y>>
        BY DEF Construction!Built
      <4>4. y.kind = "FailurePropagation" /\ y.operand = Construction!Region(n.children[2].children[1])
        OBVIOUS
      <4> HIDE DEF y, propagation
      <4> QED
        BY <2>2, <4>1, <4>2, <4>3, <4>4
    <3> HIDE DEF propagation
    <3>3. PICK y : /\ propagation.ir = <<y>>
                   /\ y.operand = Construction!Region(n.children[2].children[1])
                   /\ Len(n.children[2].children) = 1
      BY <3>2
    <3>4. propagation.ir[1] = y
      BY <3>3, SingletonList
    <3>5. IsRange(y.operand.range)
      BY <3>1, <3>3 DEF RangedOnce, Ranged, Construction!Region
    <3> QED
      BY <3>1, <3>4, <3>5 DEF Sourced
  <2>3. propagation.ir = <<>> => Gives(propagation)
    BY OneIsNotNone DEF Gives
  <2> HIDE DEF x, propagation
  <2> QED
    BY <1>1, <1>2, <2>1, <2>2, <2>3
<1>10. Gives(Construction!BuildTry(node, failureType))
  <2>1. Yields(Construction!BuildTry(node, failureType))
    BY <1>4 DEF RangedTwice, RangedOnce
  <2> DEFINE x == [kind |-> "FailurePropagation", range |-> node.range,
                   failureType |-> failureType,
                   callee |-> resolutions[Construction!ResolutionOf(node)].callee,
                   operand |-> Construction!Region(node.children[1])]
  <2>2. \/ \E code : Construction!BuildTry(node, failureType) = Construction!Failed(code)
        \/ Construction!BuildTry(node, failureType) = Construction!Built(x)
    BY DEF Construction!BuildTry
  <2>3. Sourced(x)
    BY <1>5
  <2> HIDE DEF x
  <2> QED
    BY <1>1, <1>2, <2>2, <2>3
<1>11. Gives(Construction!Built(Construction!Region(node)))
  BY <1>3 DEF RangedTwice, Ranged
<1>12. Gives(Construction!Build(node, failureType))
  BY <1>6, <1>7, <1>8, <1>9, <1>10, <1>11 DEF Construction!Build
<1> QED
  BY <1>12 DEF Gives

LEMMA BuiltFunctionIsSourced ==
  ASSUME NEW node, AllRanged(node.children), NEW f, Construction!BuildFunction(node).ir = <<f>>
  PROVE  HeaderSourced(f)
<1> DEFINE at == Construction!FirstOfKind(node, "FailureSpecification")
           header(kind) == Construction!Max({0} \cup {i \in 1..at-1 : node.children[i].kind = kind})
           part(kind) == node.children[header(kind)].range
           outcome == Construction!BuildSpecification(node.children[at])
           g == [kind |-> "FailureAwareFunction", range |-> node.range,
                 successType |-> part("FunctionReturnType"),
                 name |-> IF header("FunctionName") = 0 THEN Construction!NoRange ELSE part("FunctionName"),
                 declarator |-> part("FunctionDeclarator"),
                 body |-> Construction!BodyRange(node, at), outcome |-> outcome.ir[1],
                 children |-> <<>>, lowered |-> FALSE]
<1>1. /\ 0 \notin {at, header("FunctionReturnType"), header("FunctionDeclarator")}
      /\ outcome.ir # <<>> /\ f = g
  <2>1. outcome.ir = <<>> => [outcome EXCEPT !.errors = @ \o <<"VIXC5016">>].ir = <<>>
    BY DEF Construction!BuildSpecification, Construction!Failed, Construction!Built
  <2>2. /\ \A code : Construction!Failed(code).ir = <<>>
        /\ Construction!Built(g).ir = <<g>>
    BY DEF Construction!Failed, Construction!Built
  <2> DEFINE absent == 0 \in {at, header("FunctionReturnType"), header("FunctionDeclarator")}
             refused == [outcome EXCEPT !.errors = @ \o <<"VIXC5016">>]
  <2>3. Construction!BuildFunction(node) =
          IF absent THEN Construction!Failed("VIXC5015")
          ELSE IF outcome.ir = <<>> THEN refused
          ELSE IF ~Construction!FunctionRangesValid(g) THEN Construction!Failed("VIXC5017")
          ELSE Construction!Built(g)
    BY DEF Construction!BuildFunction
  <2>4. outcome.ir = <<>> => refused.ir = <<>>
    BY <2>1
  <2> HIDE DEF absent, refused, g, outcome
  <2>5. ~absent /\ outcome.ir # <<>> /\ <<g>> = <<f>>
    BY <2>2, <2>3, <2>4, OneIsNotNone
  <2>6. f = g
    BY <2>5, SingletonList
  <2> QED
    BY <2>5, <2>6 DEF absent
<1>2. at \in 1..Len(node.children)
  <2>1. Construction!FirstOfKind(node, "FailureSpecification") \in 0..Len(node.children)
    <3> DEFINE S == {i \in 1..Len(node.children) : node.children[i].kind = "FailureSpecification"}
    <3>1. Construction!FirstOfKind(node, "FailureSpecification")
            = IF S = {} THEN 0 ELSE Min(S)
      BY DEF Construction!FirstOfKind, Construction!SelectInSeq, Construction!Min, Min
    <3>2. S # {} => Min(S) \in S
      <4>1. S \in SUBSET Nat
        OBVIOUS
      <4> HIDE DEF S
      <4> QED
        BY <4>1, MinOfNaturals
    <3>3. Len(node.children) \in Nat
      BY DEF AllRanged, IsList
    <3> QED
      BY <3>1, <3>2, <3>3
  <2>2. at \in 0..Len(node.children) /\ at # 0
    BY <1>1, <2>1
  <2> HIDE DEF at
  <2>3. Len(node.children) \in Nat
    BY DEF AllRanged, IsList
  <2> QED
    BY <2>2, <2>3
<1> HIDE DEF at
<1>3. ASSUME NEW kind, header(kind) # 0 PROVE IsRange(part(kind))
  <2> DEFINE S == {0} \cup {i \in 1..at-1 : node.children[i].kind = kind}
  <2>1. S \in SUBSET (0..at-1) /\ S # {} /\ at - 1 \in Nat
    BY <1>2
  <2>2. Max(S) \in S
    <3> HIDE DEF S
    <3> QED
      BY <2>1, MaxOfNaturals
  <2>3. header(kind) = Max(S)
    BY DEF Construction!Max, Max
  <2>4. header(kind) \in 1..at-1
    BY <1>3, <2>2, <2>3
  <2>5. header(kind) \in 1..Len(node.children)
    <3>1. Len(node.children) \in Nat
      BY DEF AllRanged, IsList
    <3> HIDE DEF header
    <3> QED
      BY <1>2, <2>4, <3>1
  <2> HIDE DEF header
  <2> QED
    BY <2>5 DEF AllRanged, RangedTwice, Ranged
<1>4. IsRange(outcome.ir[1].failureType)
  <2> DEFINE n == node.children[at]
             x == [kind |-> "Outcome", range |-> n.range, failureType |-> n.children[1].range]
  <2>1. \/ \E code : outcome = Construction!Failed(code)
        \/ Len(n.children) = 1 /\ outcome = Construction!Built(x)
    BY DEF Construction!BuildSpecification
  <2>2. (\A code : Construction!Failed(code).ir = <<>>) /\ Construction!Built(x).ir = <<x>>
    BY DEF Construction!Failed, Construction!Built
  <2>3. x.failureType = n.children[1].range
    OBVIOUS
  <2> HIDE DEF x, outcome
  <2>4. Len(n.children) = 1 /\ outcome.ir[1] = x
    BY <1>1, <2>1, <2>2, SingletonList
  <2>5. RangedTwice(n)
    BY <1>2 DEF AllRanged
  <2> HIDE DEF n
  <2>6. RangedOnce(n.children[1])
    BY <2>4, <2>5 DEF RangedTwice
  <2>7. IsRange(n.children[1].range)
    BY <2>6 DEF RangedOnce, Ranged
  <2> QED
    BY <2>3, <2>4, <2>7
<1>5. /\ f.successType = part("FunctionReturnType") /\ f.declarator = part("FunctionDeclarator")
      /\ f.outcome = outcome.ir[1]
  BY <1>1
<1> HIDE DEF part, outcome, header
<1> QED
  BY <1>1, <1>3, <1>4, <1>5 DEF HeaderSourced

-----------------------------------------------------------------------------
(* What the backend writes.                                                *)

\* Pieces of text, and an emitter that has taken some.
Wrote(pieces) == IsList(pieces) /\ \A k \in 1..Len(pieces) : IsList(pieces[k].text)

EmitterGood(e) ==
  /\ DOMAIN e = {"output", "sourceMap", "indentation"}
  /\ IsList(e.output) /\ (e.sourceMap # <<>> => e.output # <<>>)

LEMMA ShortLists ==
  ASSUME NEW a, NEW b, NEW c, NEW d
  PROVE  IsList(<<a, b>>) /\ IsList(<<a, b, c>>) /\ IsList(<<a, b, c, d>>)
<1>1. <<a, b>> \in Seq({a, b}) /\ <<a, b, c>> \in Seq({a, b, c})
      /\ <<a, b, c, d>> \in Seq({a, b, c, d})
  OBVIOUS
<1> QED
  BY <1>1, SeqIsList

LEMMA SequenceElements ==
  ASSUME NEW S, NEW s \in Seq(S)
  PROVE  IsList(s) /\ \A k \in 1..Len(s) : s[k] \in S
<1>1. \A k \in 1..Len(s) : s[k] \in S
  OBVIOUS
<1> QED
  BY <1>1, SeqIsList

LEMMA OneWritten ==
  ASSUME NEW p, IsList(p.text)
  PROVE  Wrote(<<p>>)
BY SingletonList DEF Wrote

LEMMA SourceIsText ==
  ASSUME NEW range, IsRange(range)
  PROVE  IsList(Emission!Copied(range).text) /\ IsList(Emission!Quoted(range).text)
<1> DEFINE n == range.end - range.begin
           text == [i \in 1..n |-> Emission!SourceUnit(range.begin + i - 1)]
           R == {Emission!SourceUnit(range.begin + i - 1) : i \in 1..n}
<1>1. n \in Int
  BY DEF IsRange
<1>2. IsList(text)
  <2>1. CASE n \in Nat
    <3>1. text \in [1..n -> R]
      OBVIOUS
    <3> HIDE DEF text, n, R
    <3> QED
      BY <2>1, <3>1, FunctionIsSequence, SeqIsList
  <2>2. CASE n \notin Nat
    <3>1. 1..n = 1..0
      BY <1>1, <2>2
    <3>2. text \in [1..0 -> R]
      BY <3>1
    <3> HIDE DEF text, n, R
    <3> QED
      BY <3>2, FunctionIsSequence, SeqIsList
  <2> QED
    BY <2>1, <2>2
<1>3. Emission!Copied(range).text = text /\ Emission!Quoted(range).text = text
  BY DEF Emission!Copied, Emission!Quoted, Emission!SourceText
<1> QED
  BY <1>2, <1>3

LEMMA GeneratedIsText ==
  ASSUME NEW words, IsList(words), NEW range
  PROVE  IsList(Emission!Generated(words, range).text) /\ IsList(Emission!Glue(words).text)
BY DEF Emission!Generated, Emission!Glue

LEMMA OutcomeIsText == IsList(Emission!OutcomeOf) /\ IsList(Emission!ReturnOutcome)
<1>1. IsList(Emission!OutcomeOf)
  BY ShortLists DEF Emission!OutcomeOf
<1>2. IsList(<<"return", " ">>)
  BY ShortLists, Zenon
<1> QED
  BY <1>1, <1>2, ConcatOfLists, Zenon DEF Emission!ReturnOutcome

LEMMA HeaderIsWritten ==
  ASSUME NEW f, HeaderSourced(f)
  PROVE  Wrote(Emission!EmitHeader(f).pieces)
<1> DEFINE a == Emission!Glue(Emission!OutcomeOf)
           b == Emission!Copied(f.successType)
           c == Emission!Glue(<<", ">>)
           d == Emission!Copied(f.outcome.failureType)
           g == Emission!Glue(<<">", "\n">>)
           h == Emission!Copied(f.declarator)
<1>1. \/ Emission!EmitHeader(f).pieces = <<>>
      \/ Emission!EmitHeader(f).pieces = <<a, b, c, d, g, h>>
  BY Zenon DEF Emission!EmitHeader, Emission!Emitted, Emission!Refused
<1>2. Wrote(<<>>)
  BY EmptyList DEF Wrote
<1>3. IsList(a.text) /\ IsList(c.text) /\ IsList(g.text)
  BY OutcomeIsText, SingletonList, ShortLists, GeneratedIsText, Zenon
<1>4. IsList(b.text) /\ IsList(d.text) /\ IsList(h.text)
  BY SourceIsText DEF HeaderSourced
<1> HIDE DEF a, b, c, d, g, h
<1>5. Wrote(<<a, b, c, d, g, h>>)
  <2> DEFINE pieces == <<a, b, c, d, g, h>>
             S == {a, b, c, d, g, h}
  <2>1. pieces \in Seq(S) /\ Len(pieces) = 6
    OBVIOUS
  <2>2. \A p \in S : IsList(p.text)
    BY <1>3, <1>4
  <2> HIDE DEF S, pieces
  <2>3. \A k \in 1..Len(pieces) : pieces[k] \in S
    BY <2>1, SequenceElements
  <2> QED
    BY <2>1, <2>2, <2>3, SeqIsList DEF Wrote, pieces
<1> QED
  BY <1>1, <1>2, <1>5

LEMMA NodeIsWritten ==
  ASSUME NEW node, Sourced(node),
         activeFunction = <<>> \/ \E f : activeFunction = <<f>> /\ HeaderSourced(f)
  PROVE  Wrote(Emission!Emit(node).pieces)
<1> DEFINE success == Emission!SuccessType
           failure == Emission!FailureType
           c == Emission!Glue(<<", ">>)
<1>1. /\ Wrote(<<>>)
      /\ \A code : Emission!Refused(code).pieces = <<>>
      /\ \A pieces : Emission!Emitted(pieces).pieces = pieces
  BY EmptyList DEF Wrote, Emission!Refused, Emission!Emitted
<1>2. activeFunction # <<>> => IsList(success.text) /\ IsList(failure.text)
  <2> SUFFICES ASSUME activeFunction # <<>> PROVE IsList(success.text) /\ IsList(failure.text)
    OBVIOUS
  <2>1. PICK f : activeFunction = <<f>> /\ HeaderSourced(f)
    OBVIOUS
  <2>2. activeFunction[1] = f
    BY <2>1, SingletonList
  <2> QED
    BY <2>1, <2>2, SourceIsText DEF HeaderSourced, Emission!SuccessType, Emission!FailureType
<1>3. IsList(c.text)
  BY SingletonList, GeneratedIsText, Zenon
<1> HIDE DEF success, failure, c
<1>4. ASSUME node.kind \in {"Return", "Failure"}, activeFunction # <<>>, NEW factory
      PROVE  Wrote(Emission!EmitOutcome(node, factory).pieces)
  <2> DEFINE a == Emission!Generated(Emission!ReturnOutcome, node.range)
             d == Emission!Glue(<<factory>>)
             g == Emission!Copied(node.operand.range)
             h == Emission!Generated(<<")", ";">>, node.range)
             pieces == <<a, success, c, failure, d, g, h>>
             S == {a, success, c, failure, d, g, h}
  <2>1. Emission!EmitOutcome(node, factory).pieces = pieces
    BY <1>1, Zenon DEF Emission!EmitOutcome, success, failure, c
  <2>2. IsList(a.text) /\ IsList(d.text) /\ IsList(h.text)
    BY OutcomeIsText, SingletonList, ShortLists, GeneratedIsText, Zenon
  <2>3. IsList(g.text)
    BY <1>4, SourceIsText DEF Sourced
  <2> HIDE DEF a, d, g, h
  <2>4. pieces \in Seq(S) /\ Len(pieces) = 7
    OBVIOUS
  <2>5. \A p \in S : IsList(p.text)
    BY <1>2, <1>3, <1>4, <2>2, <2>3
  <2> HIDE DEF S, pieces
  <2>6. \A k \in 1..Len(pieces) : pieces[k] \in S
    BY <2>4, SequenceElements
  <2> QED
    BY <2>1, <2>4, <2>5, <2>6, SeqIsList DEF Wrote
<1>5. ASSUME node.kind = "TryInitialization", activeFunction # <<>>
      PROVE  Wrote(Emission!EmitTryInitialization(node).pieces)
  <2> DEFINE name == Emission!SyntheticName(node.syntheticId)
             a == Emission!Generated(<<"auto", " ", name, " = ">>, node.range)
             b == Emission!Copied(node.propagation.operand.range)
             opening == <<";\nif (!", name, ".has_value())\n{\n  return ">>
             d == Emission!Glue(opening \o Emission!OutcomeOf)
             g == Emission!Glue(<<">::failure(std::move(", name, ").take_error());\n}\n">>)
             h == Emission!Copied(node.declaration)
             j == Emission!Generated(<<" = std::move(", name, ").take_value();">>, node.range)
             pieces == <<a, b, d, success, c, failure, g, h, j>>
             S == {a, b, d, success, c, failure, g, h, j}
  <2>1. Emission!EmitTryInitialization(node).pieces = pieces
    BY <1>1, Zenon DEF Emission!EmitTryInitialization, success, failure, c
  <2>2. IsList(b.text) /\ IsList(h.text)
    BY <1>5, SourceIsText DEF Sourced
  <2> HIDE DEF name
  <2>3. IsList(a.text) /\ IsList(g.text) /\ IsList(j.text)
    BY ShortLists, GeneratedIsText, Zenon
  <2>4. IsList(d.text)
    <3>1. IsList(opening)
      BY ShortLists, Zenon
    <3> HIDE DEF opening
    <3>2. IsList(opening \o Emission!OutcomeOf)
      BY <3>1, OutcomeIsText, ConcatOfLists
    <3> QED
      BY <3>2, GeneratedIsText
  <2> HIDE DEF a, b, d, g, h, j
  <2>5. pieces \in Seq(S) /\ Len(pieces) = 9
    OBVIOUS
  <2>6. \A p \in S : IsList(p.text)
    BY <1>2, <1>3, <1>5, <2>2, <2>3, <2>4
  <2> HIDE DEF S, pieces
  <2>7. \A k \in 1..Len(pieces) : pieces[k] \in S
    BY <2>5, SequenceElements
  <2> QED
    BY <2>1, <2>5, <2>6, <2>7, SeqIsList DEF Wrote
<1>6. CASE node.kind = "CxxRegion"
  <2>1. Emission!Emit(node) = Emission!Emitted(<<Emission!Copied(node.range)>>)
    BY <1>6 DEF Emission!Emit
  <2>2. IsList(Emission!Copied(node.range).text)
    BY <1>6, SourceIsText DEF Sourced
  <2> QED
    BY <1>1, <2>1, <2>2, OneWritten
<1>7. CASE node.kind = "Outcome"
  BY <1>1, <1>7 DEF Emission!Emit
<1>8. CASE node.kind = "FailurePropagation"
  BY <1>1, <1>8 DEF Emission!Emit, Emission!EmitPropagation
<1>9. CASE node.kind = "Return"
  <2>1. Emission!Emit(node) = IF activeFunction = <<>> THEN Emission!Refused("VIXC4021")
                              ELSE Emission!EmitOutcome(node, ">::success(")
    BY <1>9 DEF Emission!Emit
  <2> QED
    BY <1>1, <1>4, <1>9, <2>1
<1>10. CASE node.kind = "Failure"
  <2>1. \/ Emission!Emit(node) = Emission!Refused("VIXC4013")
        \/ activeFunction # <<>> /\ Emission!Emit(node) = Emission!EmitOutcome(node, ">::failure(")
    BY <1>10 DEF Emission!Emit
  <2> QED
    BY <1>1, <1>4, <1>10, <2>1
<1>11. CASE node.kind = "TryInitialization"
  <2>1. \/ Emission!Emit(node) = Emission!Refused("VIXC4022")
        \/ activeFunction # <<>> /\ Emission!Emit(node) = Emission!EmitTryInitialization(node)
    BY <1>11 DEF Emission!Emit
  <2> QED
    BY <1>1, <1>5, <1>11, <2>1
<1> QED
  BY <1>6, <1>7, <1>8, <1>9, <1>10, <1>11 DEF Sourced

LEMMA WriteOneIsGood ==
  ASSUME NEW e, EmitterGood(e), NEW piece, IsList(piece.text)
  PROVE  EmitterGood(WriteOne(e, piece))
<1> DEFINE output == e.output \o piece.text
           mapped == Emission!Mapped(e, piece.text, piece.original)
           g == WriteOne(e, piece)
<1>1. DOMAIN g = {"output", "sourceMap", "indentation"} /\ g.output = output /\ g.sourceMap = mapped
  BY DEF EmitterGood, WriteOne, Emission!Write
<1>2. mapped = e.sourceMap \/ piece.text # <<>>
  BY DEF Emission!Mapped
<1> HIDE DEF mapped, g
<1>3. IsList(output)
  BY ConcatOfLists DEF EmitterGood
<1>4. output = <<>> => e.output = <<>> /\ piece.text = <<>>
  BY NothingReported DEF EmitterGood
<1> HIDE DEF output
<1>5. EmitterGood(g)
  BY <1>1, <1>2, <1>3, <1>4 DEF EmitterGood
<1> QED
  BY <1>5 DEF g

LEMMA WrittenIsGood ==
  ASSUME NEW e, EmitterGood(e), NEW pieces, Wrote(pieces)
  PROVE  EmitterGood(Written(e, pieces))
<1>1. IsList(pieces) /\ Len(pieces) \in Nat
  BY DEF Wrote, IsList
<1>0. PICK w : Turns(w, e, pieces)
  BY <1>1, WritesInTurn
<1>2. /\ w[0] = e
      /\ \A k \in 1..Len(pieces) : w[k] = WriteOne(w[k-1], pieces[k])
      /\ Written(e, pieces) = w[Len(pieces)]
  BY <1>0 DEF Turns
<1> DEFINE bad == {k \in 0..Len(pieces) : ~EmitterGood(w[k])}
<1>3. bad = {}
  <2> SUFFICES ASSUME bad # {} PROVE FALSE
    OBVIOUS
  <2>1. bad \in SUBSET Nat
    OBVIOUS
  <2>2. Min(bad) \in bad /\ \A k \in bad : Min(bad) <= k
    <3> HIDE DEF bad
    <3> QED
      BY <2>1, MinOfNaturals
  <2>3. PICK k \in 0..Len(pieces) : k = Min(bad)
    BY <2>2, Zenon
  <2>4. k # 0
    BY <1>2, <2>2, <2>3
  <2>5. k \in 1..Len(pieces) /\ k - 1 \in 0..Len(pieces)
    BY <1>1, <2>4
  <2>6. k - 1 \notin bad
    <3>1. \A l \in bad : k <= l
      BY <2>2, <2>3
    <3> HIDE DEF bad
    <3> QED
      BY <2>5, <3>1
  <2>7. EmitterGood(w[k-1])
    BY <2>5, <2>6
  <2>8. EmitterGood(w[k])
    BY <1>2, <2>5, <2>7, WriteOneIsGood DEF Wrote
  <2> QED
    BY <2>2, <2>3, <2>8
<1>4. Len(pieces) \in 0..Len(pieces)
  BY <1>1
<1> QED
  BY <1>2, <1>3, <1>4

LEMMA WritesAll ==
  ASSUME NEW emitted, Emission!WriteAll(emitted)
  PROVE  /\ emitter' = Written(emitter, emitted.pieces)
         /\ backendErrors' = backendErrors \o emitted.errors
BY Zenon DEF Emission!WriteAll, Written

-----------------------------------------------------------------------------
(* From the tree to the generated text: every node the backend comes to    *)
(* was built over ranges of the source, and it writes texts.               *)

BuildAt ==
  /\ construction \in {"building", "inFunction"} => child \in 1..Len(unit.children)+1
  /\ construction = "inFunction" =>
       /\ child <= Len(unit.children) /\ unit.children[child].kind = "FunctionDeclaration"
       /\ bodyChild \in Nat \ {0}

EmitAt ==
  /\ child \in Nat \ {0}
  /\ emission = "inFunction" =>
       /\ child <= Len(program) /\ program[child].kind = "FailureAwareFunction"
       /\ bodyChild \in Nat \ {0}
  /\ activeFunction = <<>> \/ \E f : activeFunction = <<f>> /\ HeaderSourced(f)

EarlyStages == {"lex", "lexed", "parse", "analyze", "build", "lower"}

SourcesInv ==
  /\ stage = "analyze" /\ analysis \in {"accepted", "rejected"} => child = 1
  /\ stage = "build" => BuildAt
  /\ stage = "lower" /\ lowering \in {"lowered", "failed"} => child = 1
  /\ stage = "emit" => EmitAt
  /\ stage \in EarlyStages => activeFunction = <<>>
  /\ ProgramSourced(program)
  /\ construction = "inFunction" => \E f : irFunction = <<f>> /\ FunctionSourced(f)
  /\ EmitterGood(emitter)

LEMMA ProgramSourcedGrows ==
  ASSUME NEW nodes, IsList(nodes), ProgramSourced(nodes), NEW node,
         IF node.kind = "FailureAwareFunction" THEN FunctionSourced(node) ELSE Sourced(node)
  PROVE  ProgramSourced(nodes \o <<node>>)
<1>1. /\ Len(nodes) \in Nat
      /\ Len(nodes \o <<node>>) = Len(nodes) + 1
      /\ \A k \in 1..Len(nodes) : (nodes \o <<node>>)[k] = nodes[k]
      /\ (nodes \o <<node>>)[Len(nodes) + 1] = node
  BY PushedElement
<1>2. \A k \in 1..Len(nodes) + 1 : k \in 1..Len(nodes) \/ k = Len(nodes) + 1
  BY <1>1
<1> QED
  BY <1>1, <1>2 DEF ProgramSourced

LEMMA ChildrenSourced ==
  ASSUME NEW f, IsIrFunction(f), HeaderSourced(f), NEW nodes,
         \A i \in 1..Len(nodes) : Sourced(nodes[i]), NEW mark
  PROVE  /\ FunctionSourced([f EXCEPT !.children = nodes])
         /\ FunctionSourced(f) => FunctionSourced([f EXCEPT !.lowered = mark])
<1> DEFINE g == [f EXCEPT !.children = nodes]
           h == [f EXCEPT !.lowered = mark]
<1>1. g.children = nodes /\ g.successType = f.successType /\ g.declarator = f.declarator
      /\ g.outcome = f.outcome
  BY DEF IsIrFunction, IrFunctionFields
<1>2. h.children = f.children /\ h.successType = f.successType /\ h.declarator = f.declarator
      /\ h.outcome = f.outcome
  BY DEF IsIrFunction, IrFunctionFields
<1> HIDE DEF g, h
<1>3. FunctionSourced(g) /\ (FunctionSourced(f) => FunctionSourced(h))
  BY <1>1, <1>2 DEF FunctionSourced, HeaderSourced
<1> QED
  BY <1>3 DEF g, h

LEMMA BuildKeepsSources ==
  ASSUME CallInv, RangesInv, SourcesInv, BuildIr
  PROVE  SourcesInv'
<1>1. /\ stage = "build" /\ stage' = "build" /\ phase = "done"
      /\ UNCHANGED <<activeFunction, emitter, unit>>
      /\ BuildAt /\ ProgramSourced(program) /\ IsList(program)
      /\ AllUnitRanged(unit.children) /\ Len(unit.children) \in Nat
  <2>1. /\ stage = "build" /\ stage' = "build" /\ UNCHANGED <<activeFunction, emitter>>
    BY DEF BuildIr, controlVars, emissionVars
  <2>2. unit' = unit
    BY DEF BuildIr, Construction!Next, Construction!BuildTopLevel,
       Construction!BeginFunction, Construction!BuildBodyChild, Construction!EndFunction,
       Construction!FinishConstruction
  <2>3. phase = "done"
    BY <2>1 DEF CallInv, RInv, SInv, AnalysisInv
  <2>4. AllUnitRanged(unit.children) /\ Len(unit.children) \in Nat
    BY <2>3 DEF RangesInv, AllUnitRanged, IsList
  <2> QED
    BY <2>1, <2>2, <2>3, <2>4 DEF CallInv, SourcesInv, ProgramInv, IsProgram
<1>2. ASSUME BuildAt', ProgramSourced(program'),
             construction' = "inFunction" => \E f : irFunction' = <<f>> /\ FunctionSourced(f)
      PROVE  SourcesInv'
  <2>1. (stage \in EarlyStages)' => (activeFunction = <<>>)'
    BY <1>1 DEF SourcesInv, EarlyStages
  <2>2. ProgramSourced(program)' /\ EmitterGood(emitter)'
    BY <1>1, <1>2 DEF SourcesInv
  <2> QED
    BY <1>1, <1>2, <2>1, <2>2 DEF SourcesInv
<1>3. CASE Construction!BuildTopLevel
  <2> DEFINE node == unit.children[child]
             built == Construction!Build(node, contract)
  <2>1. /\ construction = "building" /\ node.kind # "FunctionDeclaration"
        /\ child <= Len(unit.children)
        /\ \/ construction' = "failed" /\ program' = program
           \/ /\ built.ir # <<>> /\ program' = program \o built.ir
              /\ construction' = construction /\ child' = child + 1
    BY <1>3 DEF Construction!BuildTopLevel, Construction!Stop
  <2>2. child \in 1..Len(unit.children)
    BY <1>1, <2>1 DEF BuildAt
  <2>3. RangedTwice(node)
    BY <1>1, <2>1, <2>2 DEF AllUnitRanged, UnitRanged
  <2>4. ASSUME built.ir # <<>> PROVE ProgramSourced(program \o built.ir)
    <3>1. PICK ir : built.ir = <<ir>> /\ ir.kind # "FailureAwareFunction"
      BY <2>4, BuiltIsPlain
    <3>2. Sourced(ir)
      BY <2>3, <3>1, BuiltIsSourced
    <3> HIDE DEF built
    <3> QED
      BY <1>1, <3>1, <3>2, ProgramSourcedGrows
  <2> HIDE DEF built, node
  <2>5. BuildAt'
    BY <1>1, <2>1, <2>2 DEF BuildAt
  <2> QED
    BY <1>1, <1>2, <2>1, <2>4, <2>5
<1>4. CASE Construction!BeginFunction
  <2> DEFINE node == unit.children[child]
             at == Construction!FirstOfKind(node, "FailureSpecification")
             built == Construction!BuildFunction(node)
  <2>1. /\ program' = program /\ construction = "building"
        /\ node.kind = "FunctionDeclaration" /\ child <= Len(unit.children) /\ child' = child
        /\ \/ construction' = "failed"
           \/ /\ built.ir # <<>> /\ irFunction' = built.ir /\ construction' = "inFunction"
              /\ bodyChild' = at + 1
    BY <1>4 DEF Construction!BeginFunction, Construction!Stop
  <2>2. child \in 1..Len(unit.children)
    BY <1>1, <2>1 DEF BuildAt
  <2>3. AllRanged(node.children)
    BY <1>1, <2>1, <2>2 DEF AllUnitRanged, UnitRanged
  <2>4. ASSUME built.ir # <<>> PROVE \E f : built.ir = <<f>> /\ FunctionSourced(f)
    <3>1. PICK f : built.ir = <<f>> /\ f.children = <<>>
      BY <2>4, BuiltFunctionIsValid
    <3>2. HeaderSourced(f)
      BY <2>3, <3>1, BuiltFunctionIsSourced
    <3>3. FunctionSourced(f)
      BY <3>1, <3>2, EmptyList DEF FunctionSourced
    <3> HIDE DEF built
    <3> QED
      BY <3>1, <3>3
  <2>5. at \in Nat
    <3> DEFINE S == {i \in 1..Len(node.children) : node.children[i].kind = "FailureSpecification"}
    <3>1. at = IF S = {} THEN 0 ELSE Min(S)
      BY DEF Construction!FirstOfKind, Construction!SelectInSeq, Construction!Min, Min
    <3>2. S # {} => Min(S) \in S
      <4>1. S \in SUBSET Nat
        OBVIOUS
      <4> HIDE DEF S
      <4> QED
        BY <4>1, MinOfNaturals
    <3> HIDE DEF at, node
    <3> QED
      BY <3>1, <3>2
  <2> HIDE DEF built, at
  <2>6. BuildAt'
    <3>1. at + 1 \in Nat \ {0}
      BY <2>5
    <3> QED
      BY <1>1, <2>1, <2>2, <3>1 DEF BuildAt
  <2> QED
    BY <1>1, <1>2, <2>1, <2>4, <2>6
<1>5. CASE Construction!BuildBodyChild
  <2> DEFINE body == unit.children[child].children
             built == Construction!Build(body[bodyChild], bodyContract)
  <2>1. /\ construction = "inFunction" /\ program' = program /\ bodyChild <= Len(body)
        /\ child' = child
        /\ \/ construction' = "failed"
           \/ /\ built.ir # <<>> /\ construction' = construction
              /\ irFunction' = <<[irFunction[1] EXCEPT !.children = @ \o built.ir]>>
              /\ bodyChild' = bodyChild + 1
    BY <1>5 DEF Construction!BuildBodyChild, Construction!Stop
  <2>2. PICK node : irFunction = <<node>> /\ IsIrFunction(node) /\ FunctionSourced(node)
    <3>1. PICK node : irFunction = <<node>> /\ IsIrFunction(node)
      BY <2>1 DEF CallInv, ProgramInv
    <3>2. PICK f : irFunction = <<f>> /\ FunctionSourced(f)
      BY <2>1 DEF SourcesInv
    <3>3. f = node
      BY <3>1, <3>2, SingletonList
    <3> QED
      BY <3>1, <3>2, <3>3
  <2>3. irFunction[1] = node
    BY <2>2, SingletonList
  <2>4. RangedTwice(body[bodyChild])
    <3>1. /\ child \in 1..Len(unit.children)+1 /\ child <= Len(unit.children)
          /\ unit.children[child].kind = "FunctionDeclaration" /\ bodyChild \in Nat \ {0}
      BY <1>1, <2>1 DEF BuildAt
    <3>2. child \in 1..Len(unit.children)
      <4> HIDE DEF body
      <4> QED
        BY <1>1, <3>1
    <3>3. AllRanged(body)
      BY <1>1, <3>1, <3>2 DEF AllUnitRanged, UnitRanged
    <3> HIDE DEF body
    <3>4. Len(body) \in Nat
      BY <3>3 DEF AllRanged, IsList
    <3>5. bodyChild \in 1..Len(body)
      BY <2>1, <3>1, <3>4
    <3> QED
      BY <3>3, <3>5 DEF AllRanged
  <2>5. ASSUME built.ir # <<>>
        PROVE  FunctionSourced([node EXCEPT !.children = node.children \o built.ir])
    <3>1. PICK ir : built.ir = <<ir>>
      BY <2>5, BuiltIsPlain
    <3>2. Sourced(ir)
      BY <2>4, <3>1, BuiltIsSourced
    <3> DEFINE old == node.children
               grown == old \o <<ir>>
    <3>3. IsList(old) /\ \A i \in 1..Len(old) : Sourced(old[i])
      BY <2>2 DEF IsIrFunction, FunctionSourced
    <3>4. \A i \in 1..Len(grown) : Sourced(grown[i])
      <4> HIDE DEF old
      <4>1. /\ Len(old) \in Nat /\ Len(grown) = Len(old) + 1
            /\ \A k \in 1..Len(old) : grown[k] = old[k]
            /\ grown[Len(old) + 1] = ir
        BY <3>3, PushedElement
      <4> HIDE DEF grown
      <4>2. \A k \in 1..Len(old) + 1 : k \in 1..Len(old) \/ k = Len(old) + 1
        BY <4>1
      <4> QED
        BY <3>2, <3>3, <4>1, <4>2
    <3> HIDE DEF grown
    <3>5. FunctionSourced([node EXCEPT !.children = grown])
      BY <2>2, <3>4, ChildrenSourced DEF FunctionSourced
    <3> QED
      BY <3>1, <3>5 DEF grown
  <2> HIDE DEF built, body
  <2>6. BuildAt'
    <3>1. /\ child \in 1..Len(unit.children)+1 /\ child <= Len(unit.children)
          /\ unit.children[child].kind = "FunctionDeclaration" /\ bodyChild \in Nat \ {0}
      BY <1>1, <2>1 DEF BuildAt
    <3>2. bodyChild + 1 \in Nat \ {0}
      BY <3>1
    <3> QED
      BY <1>1, <2>1, <3>1, <3>2 DEF BuildAt
  <2> QED
    BY <1>1, <1>2, <2>1, <2>3, <2>5, <2>6
<1>6. CASE Construction!EndFunction
  <2>1. /\ construction = "inFunction" /\ construction' = "building"
        /\ program' = program \o irFunction /\ child' = child + 1
    BY <1>6 DEF Construction!EndFunction
  <2>2. PICK node : irFunction = <<node>> /\ node.kind = "FailureAwareFunction"
                    /\ FunctionSourced(node)
    <3>1. PICK node : irFunction = <<node>> /\ IsIrFunction(node)
      BY <2>1 DEF CallInv, ProgramInv
    <3>2. PICK f : irFunction = <<f>> /\ FunctionSourced(f)
      BY <2>1 DEF SourcesInv
    <3>3. f = node
      BY <3>1, <3>2, SingletonList
    <3> QED
      BY <3>1, <3>2, <3>3 DEF IsIrFunction
  <2>3. ProgramSourced(program')
    BY <1>1, <2>1, <2>2, ProgramSourcedGrows
  <2>4. BuildAt'
    <3>1. child \in 1..Len(unit.children)
      BY <1>1, <2>1 DEF BuildAt
    <3> QED
      BY <1>1, <2>1, <3>1 DEF BuildAt
  <2> QED
    BY <1>2, <2>1, <2>3, <2>4
<1>7. CASE Construction!FinishConstruction
  <2>1. program' = program /\ construction' = "built"
    BY <1>7 DEF Construction!FinishConstruction
  <2>2. BuildAt'
    BY <2>1 DEF BuildAt
  <2> QED
    BY <1>1, <1>2, <2>1, <2>2
<1> QED
  BY <1>3, <1>4, <1>5, <1>6, <1>7 DEF BuildIr, Construction!Next

LEMMA ProgramSourcedReplaced ==
  ASSUME NEW nodes, IsList(nodes), ProgramSourced(nodes), NEW k \in 1..Len(nodes),
         NEW node, node.kind = "FailureAwareFunction", FunctionSourced(node)
  PROVE  ProgramSourced([nodes EXCEPT ![k] = node])
<1> DEFINE new == [nodes EXCEPT ![k] = node]
<1>1. /\ Len(new) = Len(nodes) /\ new[k] = node
      /\ \A l \in 1..Len(nodes) : l # k => new[l] = nodes[l]
  BY NodeReplaced
<1> HIDE DEF new
<1>2. ProgramSourced(new)
  BY <1>1 DEF ProgramSourced
<1> QED
  BY <1>2 DEF new

LEMMA LowerKeepsSources ==
  ASSUME CallInv, SourcesInv, Lower
  PROVE  SourcesInv'
<1> DEFINE f == program[child]
<1>1. /\ stage = "lower" /\ stage' = "lower" /\ LoweringStage!Next
      /\ UNCHANGED <<construction, irFunction, activeFunction, emitter>>
      /\ IsProgram(program) /\ IsList(program) /\ Len(program) \in Nat /\ LoweringAt
      /\ ProgramSourced(program)
  BY DEF Lower, controlVars, irVars, emissionVars, CallInv, ProgramInv, SourcesInv,
         IsProgram, IsList
<1>2. ASSUME lowering' \in {"lowered", "failed"} => child' = 1, ProgramSourced(program')
      PROVE  SourcesInv'
  <2>1. (stage \in EarlyStages)' => (activeFunction = <<>>)'
    BY <1>1 DEF SourcesInv, EarlyStages
  <2>2. (construction = "inFunction")' => (\E g : irFunction = <<g>> /\ FunctionSourced(g))'
    BY <1>1 DEF SourcesInv
  <2>3. ProgramSourced(program)' /\ EmitterGood(emitter)'
    BY <1>1, <1>2 DEF SourcesInv
  <2> QED
    BY <1>1, <1>2, <2>1, <2>2, <2>3 DEF SourcesInv
<1>3. CASE LoweringStage!LowerNode \/ LoweringStage!RefuseVoidFunction
           \/ LoweringStage!BeginFunction
  <2>1. program' = program /\ lowering' \in {"lowering", "numbering"}
    BY <1>3 DEF LoweringStage!LowerNode, LoweringStage!RefuseVoidFunction,
       LoweringStage!BeginFunction
  <2> QED
    BY <1>1, <1>2, <2>1
<1>4. CASE LoweringStage!NumberInitialization
  <2> DEFINE body == f.children
             old == body[bodyChild]
             node == LoweringStage!Numbered(old, LoweringStage!FreshId(f.range))
             nodes == [body EXCEPT ![bodyChild] = node]
  <2>1. /\ lowering = "numbering" /\ lowering' = "numbering"
        /\ child <= Len(program) /\ bodyChild <= Len(body)
        /\ \/ /\ old.kind = "TryInitialization"
              /\ program' = [program EXCEPT ![child] = [f EXCEPT !.children = nodes]]
           \/ program' = program
    BY <1>4 DEF LoweringStage!NumberInitialization, LoweringStage!InFunction
  <2>2. child \in 1..Len(program) /\ f.kind = "FailureAwareFunction" /\ IsIrFunction(f)
        /\ FunctionSourced(f) /\ bodyChild \in 1..Len(body)
    <3>1. child \in 1..Len(program) /\ f.kind = "FailureAwareFunction" /\ IsIrFunction(f)
      BY <1>1, <2>1 DEF LoweringAt, IsProgram
    <3>2. Len(f.children) \in Nat /\ bodyChild \in 1..Len(f.children)+1
      BY <1>1, <2>1, <3>1 DEF LoweringAt, IsIrFunction, IsList
    <3>3. FunctionSourced(f)
      BY <1>1, <3>1 DEF ProgramSourced
    <3> QED
      BY <2>1, <3>1, <3>2, <3>3
  <2>3. old.kind = "TryInitialization" => Sourced(node)
    <3>1. Sourced(old)
      BY <2>2 DEF FunctionSourced
    <3>2. node.kind = "TryInitialization" /\ node.declaration = old.declaration
          /\ node.propagation = old.propagation
      BY DEF LoweringStage!Numbered
    <3> HIDE DEF node, old
    <3> QED
      BY <3>1, <3>2 DEF Sourced
  <2>4. IsList(body) /\ \A i \in 1..Len(body) : Sourced(body[i])
    BY <2>2 DEF IsIrFunction, FunctionSourced
  <2> HIDE DEF node, old
  <2>5. ASSUME old.kind = "TryInitialization"
        PROVE  FunctionSourced([f EXCEPT !.children = nodes])
               /\ [f EXCEPT !.children = nodes].kind = "FailureAwareFunction"
    <3>1. /\ Len(nodes) = Len(body) /\ nodes[bodyChild] = node
          /\ \A l \in 1..Len(body) : l # bodyChild => nodes[l] = body[l]
          /\ IsList(nodes)
      <4> HIDE DEF body
      <4> QED
        BY <2>2, <2>4, NodeReplaced
    <3> HIDE DEF nodes
    <3>2. \A i \in 1..Len(nodes) : Sourced(nodes[i])
      BY <2>3, <2>4, <2>5, <3>1
    <3> HIDE DEF f
    <3> QED
      BY <2>2, <3>1, <3>2, ChildrenSourced, PartsStay DEF FunctionSourced, IsIrFunction
  <2> DEFINE g == [f EXCEPT !.children = nodes]
  <2>6. old.kind = "TryInitialization" => ProgramSourced([program EXCEPT ![child] = g])
    <3> HIDE DEF g
    <3>1. old.kind = "TryInitialization" => FunctionSourced(g) /\ g.kind = "FailureAwareFunction"
      BY <2>5 DEF g
    <3> HIDE DEF f, nodes
    <3> QED
      BY <1>1, <2>2, <3>1, ProgramSourcedReplaced
  <2> HIDE DEF nodes
  <2> QED
    BY <1>1, <1>2, <2>1, <2>6
<1>5. CASE LoweringStage!MarkLowered
  <2> DEFINE g == [f EXCEPT !.lowered = TRUE]
  <2>1. /\ lowering = "numbering" /\ lowering' = "lowering"
        /\ child <= Len(program) /\ program' = [program EXCEPT ![child] = g]
    BY <1>5 DEF LoweringStage!MarkLowered, LoweringStage!InFunction
  <2>2. child \in 1..Len(program) /\ IsIrFunction(f) /\ FunctionSourced(f)
    <3>1. child \in 1..Len(program) /\ f.kind = "FailureAwareFunction"
      BY <1>1, <2>1 DEF LoweringAt
    <3> QED
      BY <1>1, <3>1 DEF IsProgram, ProgramSourced
  <2>3. FunctionSourced(g) /\ g.kind = "FailureAwareFunction"
    <3> HIDE DEF f
    <3>1. FunctionSourced(g)
      BY <2>2, ChildrenSourced DEF FunctionSourced
    <3>2. IsIrFunction(g)
      BY <2>2, PartsStay DEF IsIrFunction
    <3> QED
      BY <3>1, <3>2 DEF IsIrFunction
  <2> HIDE DEF g, f
  <2>4. ProgramSourced(program')
    BY <1>1, <2>1, <2>2, <2>3, ProgramSourcedReplaced
  <2> QED
    BY <1>2, <2>1, <2>4
<1>6. CASE LoweringStage!FinishLowering
  BY <1>1, <1>2, <1>6 DEF LoweringStage!FinishLowering
<1> QED
  BY <1>1, <1>3, <1>4, <1>5, <1>6 DEF LoweringStage!Next

LEMMA EmitKeepsSources ==
  ASSUME CallInv, SourcesInv, Emit
  PROVE  SourcesInv'
<1>1. /\ stage = "emit" /\ stage' = "emit" /\ Emission!Next
      /\ UNCHANGED <<construction, irFunction, program>>
      /\ IsProgram(program) /\ Len(program) \in Nat /\ EmitAt
      /\ ProgramSourced(program) /\ EmitterGood(emitter)
  <2>1. program' = program
    BY Zenon DEF Emit, Emission!Next, Emission!EmitSupport, Emission!EmitTopLevel,
       Emission!EnterFunction, Emission!EmitBodyChild, Emission!LeaveFunction,
       Emission!FinishEmission
  <2> QED
    BY <2>1 DEF Emit, controlVars, irVars, CallInv, ProgramInv, SourcesInv, IsProgram, IsList
<1>2. ASSUME EmitAt', EmitterGood(emitter')
      PROVE  SourcesInv'
  <2>1. stage' \notin EarlyStages
    BY <1>1 DEF EarlyStages
  <2>2. (construction = "inFunction")' => (\E g : irFunction = <<g>> /\ FunctionSourced(g))'
    BY <1>1 DEF SourcesInv
  <2>3. ProgramSourced(program)' /\ EmitterGood(emitter)'
    BY <1>1, <1>2
  <2> QED
    BY <1>1, <1>2, <2>1, <2>2, <2>3 DEF SourcesInv
<1>3. CASE Emission!EmitSupport
  <2> DEFINE support == IF \E f \in Emission!ToSet(program) :
                             f.kind = "FailureAwareFunction" /\ f.lowered
                        THEN <<Emission!Glue(<<"#include <utility> ...}\n\n">>)>>
                        ELSE <<>>
  <2>1. Emission!WriteAll(Emission!Emitted(support)) /\ emission' = "emitting"
        /\ UNCHANGED <<child, activeFunction>>
    BY <1>3, Zenon DEF Emission!EmitSupport
  <2>2. Wrote(support)
    <3>1. IsList(Emission!Glue(<<"#include <utility> ...}\n\n">>).text)
      BY SingletonList, GeneratedIsText, Zenon
    <3>2. Wrote(<<Emission!Glue(<<"#include <utility> ...}\n\n">>)>>)
      BY <3>1, OneWritten, Zenon
    <3>3. Wrote(<<>>)
      BY EmptyList DEF Wrote
    <3> QED
      BY <3>2, <3>3, Zenon
  <2>3. Emission!Emitted(support).pieces = support
    BY DEF Emission!Emitted
  <2> HIDE DEF support
  <2>4. EmitterGood(emitter')
    BY <1>1, <2>1, <2>2, <2>3, WritesAll, WrittenIsGood
  <2>5. EmitAt'
    BY <1>1, <2>1 DEF EmitAt
  <2> QED
    BY <1>2, <2>4, <2>5
<1>4. CASE Emission!EmitTopLevel
  <2> DEFINE node == program[child]
  <2>1. /\ emission = "emitting" /\ emission' = "emitting" /\ child <= Len(program)
        /\ node.kind # "FailureAwareFunction" /\ Emission!WriteAll(Emission!Emit(node))
        /\ child' = child + 1 /\ UNCHANGED activeFunction
    BY <1>4 DEF Emission!EmitTopLevel
  <2>2. child \in 1..Len(program)
    BY <1>1, <2>1 DEF EmitAt
  <2>3. Sourced(node)
    BY <1>1, <2>1, <2>2 DEF ProgramSourced
  <2> HIDE DEF node
  <2>4. Wrote(Emission!Emit(node).pieces)
    BY <1>1, <2>3, NodeIsWritten DEF EmitAt
  <2>5. EmitterGood(emitter')
    BY <1>1, <2>1, <2>4, WritesAll, WrittenIsGood
  <2>6. EmitAt'
    BY <1>1, <2>1 DEF EmitAt
  <2> QED
    BY <1>2, <2>5, <2>6
<1>5. CASE Emission!EnterFunction
  <2> DEFINE node == program[child]
             emitted == Emission!EmitHeader(node)
  <2>1. /\ emission = "emitting" /\ child <= Len(program)
        /\ node.kind = "FailureAwareFunction" /\ Emission!WriteAll(emitted)
        /\ \/ child' = child + 1 /\ UNCHANGED <<emission, activeFunction>>
           \/ /\ activeFunction' = <<node>> /\ emission' = "inFunction" /\ bodyChild' = 1
              /\ child' = child
    BY <1>5 DEF Emission!EnterFunction
  <2>2. child \in 1..Len(program)
    BY <1>1, <2>1 DEF EmitAt
  <2>3. HeaderSourced(node)
    BY <1>1, <2>1, <2>2 DEF ProgramSourced, FunctionSourced
  <2>4. Wrote(emitted.pieces)
    BY <2>3, HeaderIsWritten
  <2> HIDE DEF emitted
  <2>5. EmitterGood(emitter')
    BY <1>1, <2>1, <2>4, WritesAll, WrittenIsGood
  <2>6. EmitAt'
    BY <1>1, <2>1, <2>2, <2>3 DEF EmitAt
  <2> QED
    BY <1>2, <2>5, <2>6
<1>6. CASE Emission!EmitBodyChild
  <2> DEFINE body == program[child].children
             node == body[bodyChild]
  <2>1. /\ emission = "inFunction" /\ emission' = "inFunction" /\ bodyChild <= Len(body)
        /\ Emission!WriteAll(Emission!Emit(node))
        /\ bodyChild' = bodyChild + 1 /\ UNCHANGED <<child, activeFunction>>
    BY <1>6 DEF Emission!EmitBodyChild
  <2>2. /\ child \in 1..Len(program) /\ program[child].kind = "FailureAwareFunction"
        /\ bodyChild \in Nat \ {0}
    BY <1>1, <2>1 DEF EmitAt
  <2>3. FunctionSourced(program[child]) /\ IsIrFunction(program[child])
    BY <1>1, <2>2 DEF ProgramSourced, IsProgram
  <2>4. bodyChild \in 1..Len(body)
    <3>1. Len(body) \in Nat
      BY <2>3 DEF IsIrFunction, IsList
    <3> HIDE DEF body
    <3> QED
      BY <2>1, <2>2, <3>1
  <2>5. Sourced(node)
    BY <2>3, <2>4 DEF FunctionSourced
  <2> HIDE DEF node
  <2>6. Wrote(Emission!Emit(node).pieces)
    BY <1>1, <2>5, NodeIsWritten DEF EmitAt
  <2>7. EmitterGood(emitter')
    BY <1>1, <2>1, <2>6, WritesAll, WrittenIsGood
  <2>8. EmitAt'
    BY <1>1, <2>1, <2>2 DEF EmitAt
  <2> QED
    BY <1>2, <2>7, <2>8
<1>7. CASE Emission!LeaveFunction
  <2>1. activeFunction' = <<>> /\ emission' = "emitting" /\ child' = child + 1 /\ UNCHANGED emitter
    BY <1>7 DEF Emission!LeaveFunction
  <2>2. EmitAt'
    BY <1>1, <2>1 DEF EmitAt
  <2> QED
    BY <1>1, <1>2, <2>1, <2>2
<1>8. CASE Emission!FinishEmission
  <2>1. emission' \in {"generated", "failed"} /\ child' = 1 /\ UNCHANGED <<emitter, activeFunction>>
    BY <1>8 DEF Emission!FinishEmission
  <2>2. EmitAt'
    BY <1>1, <2>1 DEF EmitAt
  <2> QED
    BY <1>1, <1>2, <2>1, <2>2
<1> QED
  BY <1>1, <1>3, <1>4, <1>5, <1>6, <1>7, <1>8 DEF Emission!Next

LEMMA InitIsSourced == Init => SourcesInv
<1> SUFFICES ASSUME Init PROVE SourcesInv
  OBVIOUS
<1>1. /\ stage = "lex" /\ program = <<>> /\ construction = "building" /\ activeFunction = <<>>
      /\ emitter = Emission!EmptyEmitter
  BY DEF Init, Construction!Init, Emission!Init
<1>2. ProgramSourced(program)
  BY <1>1, EmptyList DEF ProgramSourced
<1>3. EmitterGood(emitter)
  BY <1>1, EmptyList DEF EmitterGood, Emission!EmptyEmitter
<1> QED
  BY <1>1, <1>2, <1>3 DEF SourcesInv

LEMMA SourcesAreKept == CallInv /\ RangesInv /\ SourcesInv /\ [Next]_vars => SourcesInv'
<1> SUFFICES ASSUME CallInv, RangesInv, SourcesInv, [Next]_vars PROVE SourcesInv'
  OBVIOUS
<1> DEFINE Results == <<program, construction, irFunction, emitter, activeFunction>>
<1>1. /\ workVars' = workVars => UNCHANGED <<Results, unit, child, bodyChild, analysis, lowering, emission>>
      /\ irVars' = irVars => UNCHANGED <<construction, irFunction>>
      /\ emissionVars' = emissionVars => UNCHANGED <<emitter, activeFunction>>
      /\ SInv
  BY DEF workVars, cursor, analysisVars, irVars, loweringVars, emissionVars, CallInv, RInv
\* Away from the construction, the lowering and the emission.
<1>2. ASSUME UNCHANGED Results, stage' \in EarlyStages => stage \in EarlyStages,
             stage' = "analyze" /\ analysis' \in {"accepted", "rejected"} => child' = 1,
             stage' = "build" => BuildAt',
             stage' = "lower" => lowering' \notin {"lowered", "failed"},
             stage' = "emit" => EmitAt'
      PROVE  SourcesInv'
  <2>1. (stage \in EarlyStages)' => (activeFunction = <<>>)'
    BY <1>2 DEF SourcesInv, EarlyStages
  <2>2. (construction = "inFunction")' => (\E g : irFunction = <<g>> /\ FunctionSourced(g))'
    BY <1>2 DEF SourcesInv
  <2>3. ProgramSourced(program)' /\ EmitterGood(emitter)'
    BY <1>2 DEF SourcesInv
  <2> QED
    BY <1>2, <2>1, <2>2, <2>3 DEF SourcesInv
<1>3. CASE Lex
  <2>1. stage = "lex" /\ stage' = "lexed" /\ workVars' = workVars
    BY <1>3 DEF Lex
  <2> QED
    BY <1>1, <1>2, <2>1 DEF EarlyStages
<1>4. CASE FinishLexing
  <2>1. stage = "lexed" /\ stage' \in {"parse", "done"} /\ workVars' = workVars
    BY <1>4 DEF FinishLexing, Proceed, Refuse, MakeResult
  <2> QED
    BY <1>1, <1>2, <2>1 DEF EarlyStages
<1>5. CASE Parse
  <2>1. stage = "parse" /\ stage' = "parse" /\ UNCHANGED Results
    BY <1>1, <1>5 DEF Parse, controlVars
  <2> QED
    BY <1>2, <2>1
<1>6. CASE FinishParsing
  <2>1. stage = "parse" /\ stage' \in {"analyze", "done"} /\ workVars' = workVars
    BY <1>6 DEF FinishParsing, Proceed, Refuse, MakeResult
  <2>2. analysis' = "collecting"
    BY <1>1, <2>1 DEF SInv
  <2> QED
    BY <1>1, <1>2, <2>1, <2>2 DEF EarlyStages
<1>7. CASE Analyze
  <2>1. stage = "analyze" /\ stage' = "analyze" /\ UNCHANGED Results
    BY <1>1, <1>7 DEF Analyze, controlVars
  <2>2. Analysis!TypeOK /\ Analysis!Next
    BY <1>7, <2>1 DEF CallInv, AnalysisInv, Analyze
  <2>3. analysis' \in {"accepted", "rejected"} => child' = 1
    <3>1. analysis \in {"collecting", "analyzing", "inFunction"}
      BY <2>2 DEF Analysis!Next, Analysis!CollectDeclaration, Analysis!StartAnalyzing,
         Analysis!AnalyzeTopLevel, Analysis!EnterFunction, Analysis!AnalyzeBodyChild,
         Analysis!LeaveFunction, Analysis!FinishAnalysis
    <3> QED
      BY <2>2, <3>1 DEF Analysis!Next, Analysis!CollectDeclaration, Analysis!StartAnalyzing,
         Analysis!AnalyzeTopLevel, Analysis!EnterFunction, Analysis!AnalyzeBodyChild,
         Analysis!LeaveFunction, Analysis!FinishAnalysis
  <2> QED
    BY <1>2, <2>1, <2>3
<1>8. CASE FinishAnalyzing
  <2>1. /\ stage = "analyze" /\ stage' \in {"build", "done"} /\ workVars' = workVars
        /\ analysis \in {"accepted", "rejected"}
    BY <1>8 DEF FinishAnalyzing, Proceed, Refuse, MakeResult
  <2>2. child = 1 /\ construction = "building" /\ Len(unit.children) \in Nat
    <3>1. phase = "done"
      BY <2>1 DEF CallInv, AnalysisInv
    <3>2. Len(unit.children) \in Nat
      BY <3>1 DEF RangesInv, AllUnitRanged, IsList
    <3> QED
      BY <1>1, <2>1, <3>2 DEF SourcesInv, SInv
  <2>3. BuildAt
    BY <2>2 DEF BuildAt
  <2>4. BuildAt'
    BY <1>1, <2>1, <2>3 DEF BuildAt
  <2> QED
    BY <1>1, <1>2, <2>1, <2>4 DEF EarlyStages
<1>9. CASE BuildIr
  BY <1>9, BuildKeepsSources
<1>10. CASE FinishBuilding
  <2>1. /\ stage = "build" /\ stage' \in {"lower", "done"} /\ workVars' = workVars
    BY <1>10 DEF FinishBuilding, Proceed, Refuse, MakeResult
  <2>2. lowering' = "lowering"
    BY <1>1, <2>1 DEF SInv
  <2> QED
    BY <1>1, <1>2, <2>1, <2>2 DEF EarlyStages
<1>11. CASE Lower
  BY <1>11, LowerKeepsSources
<1>12. CASE FinishLowering
  <2>1. /\ stage = "lower" /\ stage' \in {"emit", "done"} /\ workVars' = workVars
        /\ lowering \in {"lowered", "failed"}
    BY <1>12 DEF FinishLowering, Proceed, Refuse, MakeResult
  <2>2. child = 1 /\ emission = "support" /\ activeFunction = <<>>
    BY <1>1, <2>1 DEF SourcesInv, SInv, EarlyStages
  <2>3. EmitAt'
    BY <1>1, <2>1, <2>2 DEF EmitAt
  <2> QED
    BY <1>1, <1>2, <2>1, <2>3 DEF EarlyStages
<1>13. CASE Emit
  BY <1>13, EmitKeepsSources
<1>14. CASE FinishEmitting
  <2>1. stage = "emit" /\ stage' = "done" /\ workVars' = workVars
    BY <1>14 DEF FinishEmitting, Refuse, MakeResult
  <2> QED
    BY <1>1, <1>2, <2>1 DEF EarlyStages
<1>15. CASE UNCHANGED vars
  <2>1. UNCHANGED <<stage, Results, unit, child, bodyChild, analysis, lowering, emission>>
    BY <1>1, <1>15 DEF vars, controlVars
  <2>2. /\ (BuildAt' <=> BuildAt) /\ (EmitAt' <=> EmitAt)
        /\ EmitterGood(emitter)' /\ ProgramSourced(program)'
    BY <2>1 DEF BuildAt, EmitAt, SourcesInv
  <2>3. (stage \in EarlyStages)' <=> (stage \in EarlyStages)
    BY <2>1 DEF EarlyStages
  <2>4. (construction = "inFunction")' => (\E g : irFunction = <<g>> /\ FunctionSourced(g))'
    BY <2>1 DEF SourcesInv
  <2> QED
    BY <2>1, <2>2, <2>3, <2>4 DEF SourcesInv
<1> QED
  BY <1>3, <1>4, <1>5, <1>6, <1>7, <1>8, <1>9, <1>10, <1>11, <1>12, <1>13, <1>14, <1>15
     DEF Next, Process, Returned

-----------------------------------------------------------------------------
(* The ranges of the tree, in the call.                                    *)

LEMMA InitHasRanges == Init => RangesInv
BY InitIsRanged DEF Init

LEMMA RangesAreKeptInCall == IInv /\ RangesInv /\ [Next]_vars => RangesInv'
BY ParserRunsAlone, RangesAreKept, RangesStay

=============================================================================
