--------------------------- MODULE FrontendContract ---------------------------
(***************************************************************************)
(* What one call of Frontend::process promises: it answers, it refuses     *)
(* exactly when an error was reported, and only an accepted Emit request   *)
(* carries output, with a source map if one was asked for.                 *)
(***************************************************************************)
CONSTANT Requests  \* [action : {"Analyze", "Lower", "Emit"}, retainSourceMap : BOOLEAN]

VARIABLES
  request,
  reported,  \* an error diagnostic was emitted
  answer     \* "none", then what the FrontendResult tells

vars == <<request, reported, answer>>

NoAnswer == [given |-> FALSE, success |-> FALSE, output |-> FALSE, mappings |-> FALSE]
Refusal == [NoAnswer EXCEPT !.given = TRUE]

Init ==
  /\ request \in Requests
  /\ reported = FALSE
  /\ answer = NoAnswer

Report ==
  /\ ~answer.given /\ ~reported
  /\ reported' = TRUE
  /\ UNCHANGED <<request, answer>>

Refuse ==
  /\ ~answer.given /\ reported
  /\ answer' = Refusal
  /\ UNCHANGED <<request, reported>>

Accept ==
  /\ ~answer.given /\ ~reported
  /\ \E output, mappings \in BOOLEAN :
       /\ output => request.action = "Emit"
       /\ mappings => output /\ request.retainSourceMap
       /\ answer' = [given |-> TRUE, success |-> TRUE,
                     output |-> output, mappings |-> mappings]
  /\ UNCHANGED <<request, reported>>

Next == Report \/ Refuse \/ Accept

Spec == Init /\ [][Next]_vars

\* The call returns.
Answers == <>answer.given

=============================================================================
