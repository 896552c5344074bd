------------------------- MODULE DelegatedRunsProofs -------------------------
(***************************************************************************)
(* Proofs about DelegatedRuns, for any plans, budget policies and number   *)
(* of repairs.                                                             *)
(***************************************************************************)
EXTENDS DelegatedRuns, PipelineCoreProofs

(* A run that was sound, has followed the FSM, and reports something once  *)
(* it is sealed.                                                           *)
Safe(r) ==
  /\ Sound(r)
  /\ r.error # "InvalidTransitionError"
  /\ Halted(r) => r.completionStatus # "running"

(* Where the code expects the run to be in phase p, it is, or has been     *)
(* stopped.                                                                *)
Fit(r, p) == Safe(r) /\ (Running(r) => r.phase = p \/ Halted(r))

StopStatus == {"budget_exhausted", "external_stop", "fail_safe"}

(* The run s reports what r does, or that it has been stopped.             *)
SameReport(r, s) == s.completionStatus \in {r.completionStatus} \cup StopStatus

LEMMA CreateFits ==
  ASSUME NEW policy \in BudgetPolicy
  PROVE  /\ Fit(CreatePipelineState(policy), "receive")
         /\ ~Halted(CreatePipelineState(policy))
         /\ CreatePipelineState(policy).completionStatus = "running"
  <1>1. /\ CreatePipelineState(policy).error = "none"
        /\ CreatePipelineState(policy).completionStatus = "running"
    BY DEF CreatePipelineState
  <1>2. QED
    BY <1>1, CreateSound DEF Fit, Safe, Alive, Halted

(* A transition the FSM has leads there, or throws because of a stop.      *)
LEMMA TransitionFits ==
  ASSUME NEW p \in Phase, NEW to \in ValidTransitions[p], NEW r, Fit(r, p)
  PROVE  /\ Fit(Transition(r, to), to)
         /\ Running(Transition(r, to)) =>
              Running(r) /\ ~Halted(r) /\ Transition(r, to).phase = to
         /\ to # "audit_seal" =>
              /\ Alive(Transition(r, to))
              /\ Transition(r, to).completionStatus = r.completionStatus
         /\ Running(Transition(r, to)) /\ to = "audit_seal" =>
              /\ Halted(Transition(r, to))
              /\ Transition(r, to).completionStatus =
                   IF r.completionStatus = "running" THEN "succeeded" ELSE r.completionStatus
  <1>0. r \in RunRecord /\ to \in Phase
    BY DEF Fit, Safe, Sound, ValidTransitions, Phase
  <1>1. Sound(Transition(r, to)) /\ (to # "audit_seal" => Alive(Transition(r, to)))
    BY <1>0, TransitionSound DEF Fit, Safe
  <1>2. CASE ~Running(r)
    BY <1>1, <1>2 DEF Transition, Fit
  <1>3. CASE Running(r) /\ Halted(r)
    <2>1. Transition(r, to) = [r EXCEPT !.error = "TerminalStateError"]
      BY <1>3 DEF Transition
    <2>2. QED
      BY <1>0, <1>1, <1>3, <2>1 DEF Fit, Safe, RunRecord, Running, Halted
  <1>4. CASE Running(r) /\ ~Halted(r)
    <2>1. r.phase = p
      BY <1>4 DEF Fit
    <2>2. CASE to = "audit_seal"
      <3>1. Transition(r, to) = Sealed(r)
        BY <1>4, <2>1, <2>2 DEF Transition
      <3>2. QED
        BY <1>0, <1>1, <1>4, <2>2, <3>1 DEF Sealed, Fit, Safe, RunRecord, Running, Halted
    <2>3. CASE to # "audit_seal"
      <3>1. Transition(r, to) = [r EXCEPT !.phase = to]
        BY <1>4, <2>1, <2>3 DEF Transition
      <3>2. QED
        BY <1>0, <1>1, <1>4, <2>3, <3>1 DEF Fit, Safe, RunRecord, Running, Halted
    <2>4. QED
      BY <2>2, <2>3
  <1>5. QED
    BY <1>2, <1>3, <1>4

(* Charging a budget leaves the run where it is, or stops it.              *)
LEMMA RecordFits ==
  ASSUME NEW r, NEW p, Fit(r, p), NEW field \in BudgetField, NEW count \in Int,
         field \in {"steps", "toolCalls"} => (count = 1 /\ Alive(r))
  PROVE  /\ Fit(Record(r, field, count), p)
         /\ Running(Record(r, field, count)) = Running(r)
         /\ SameReport(r, Record(r, field, count))
  <1> DEFINE charged == [r EXCEPT !.remaining[field] = @ - count]
  <1>0. r \in RunRecord
    BY DEF Fit, Safe, Sound
  <1>1. /\ Sound(Record(r, field, count))
        /\ Running(Record(r, field, count)) = Running(r)
        /\ Running(r) => \/ Record(r, field, count).phase = r.phase
                         \/ Halted(Record(r, field, count))
    BY RecordSound DEF Fit, Safe
  <1>2. CASE ~Running(r)
    BY <1>1, <1>2 DEF Record, SameReport, Fit
  <1>3. CASE Running(r)
    <2>1. /\ charged.error = r.error /\ charged.phase = r.phase
          /\ charged.completionStatus = r.completionStatus /\ charged \in RunRecord
      BY <1>0 DEF RunRecord
    <2>2. Record(r, field, count) = CheckExhaustion(charged)
      BY <1>3 DEF Record
    <2> HIDE DEF charged
    <2>3. CASE CheckExhaustion(charged) = charged
      BY <1>1, <1>3, <2>1, <2>2, <2>3 DEF Fit, Safe, SameReport, Halted, Running
    <2>4. CASE CheckExhaustion(charged) = ForceStop(charged, "budget_exhausted")
      <3>1. Running(charged)
        BY <1>3, <2>1 DEF Running
      <3>2. /\ ForceStop(charged, "budget_exhausted").completionStatus = "budget_exhausted"
            /\ ForceStop(charged, "budget_exhausted").error = charged.error
        BY <2>1, <3>1 DEF ForceStop, RunRecord
      <3>3. QED
        BY <1>1, <1>3, <2>1, <2>2, <2>4, <3>2 DEF Fit, Safe, SameReport, StopStatus, Halted
    <2>5. QED
      BY <2>3, <2>4 DEF CheckExhaustion
  <1>4. QED
    BY <1>2, <1>3

LEMMA RecordStepFits ==
  ASSUME NEW r, NEW p, Fit(r, p), Alive(r)
  PROVE  /\ Fit(RecordStep(r), p) /\ Running(RecordStep(r)) = Running(r)
         /\ SameReport(r, RecordStep(r))
  BY RecordFits DEF RecordStep, BudgetField

(* A stop seals the run under the status it is given.                      *)
LEMMA ForceStopFits ==
  ASSUME NEW r, Safe(r), NEW p, NEW status \in CompletionStatus, status # "running"
  PROVE  /\ Fit(ForceStop(r, status), p)
         /\ Running(ForceStop(r, status)) = Running(r)
         /\ Running(r) => /\ Halted(ForceStop(r, status))
                          /\ ForceStop(r, status).completionStatus = status
  <1>1. CASE ~Running(r)
    BY <1>1 DEF ForceStop, Fit
  <1>2. CASE Running(r)
    <2>1. Sound(ForceStop(r, status)) /\ Halted(ForceStop(r, status))
      BY <1>2, ForceStopSound DEF Safe
    <2>2. /\ ForceStop(r, status).completionStatus = status
          /\ ForceStop(r, status).error = r.error
      BY <1>2 DEF ForceStop, Safe, Sound, RunRecord
    <2>3. QED
      BY <1>2, <2>1, <2>2 DEF Fit, Safe, Running
  <1>3. QED
    BY <1>1, <1>2

(* So does every way a model call can end.                                 *)
LEMMA LLMFits ==
  ASSUME NEW r, NEW p, Fit(r, p), Running(r), NEW x \in LLMResults(r)
  PROVE  Fit(x, p) /\ Running(x) /\ SameReport(r, x)
  <1> USE LLMCallAssumption
  <1>0. StopStatus \subseteq CompletionStatus /\ "running" \notin StopStatus /\ "tokens" \in BudgetField
    BY DEF CompletionStatus, StopStatus, BudgetField
  <1>1. CASE x = r
    BY <1>1 DEF SameReport
  <1>2. CASE \E status \in StopStatus : x = ForceStop(r, status)
    BY <1>0, <1>2, ForceStopFits DEF Fit, SameReport
  <1>3. CASE \E u \in Usage : x = RecordTokens(r, u)
    BY <1>0, <1>3, RecordFits DEF RecordTokens, Usage
  <1>4. CASE \E status \in StopStatus, e \in Usage : x = Trip(r, status, e)
    <2>1. PICK status \in StopStatus, e \in Usage : x = Trip(r, status, e)
      BY <1>4
    <2>2. PromptEstimate + e \in Int
      BY DEF Usage
    <2>3. /\ Fit(ForceStop(r, status), p) /\ Running(ForceStop(r, status))
          /\ ForceStop(r, status).completionStatus \in StopStatus
      BY <1>0, ForceStopFits DEF Fit
    <2>4. QED
      BY <1>0, <2>1, <2>2, <2>3, RecordFits DEF Trip, RecordTokens, SameReport
  <1>5. QED
    BY <1>1, <1>2, <1>3, <1>4
       DEF LLMResults, AnswerResults, FailureResults, TripResults, StopStatus
-----------------------------------------------------------------------------
PlanPoints == {"receive", "frame_consult", "frame_llm", "plan_consult", "plan_llm"}
FinalPoints == {"finalize_consult", "finalize_llm"}
CallPoints == {"call_consult", "evaluate", "dispatch", "running", "observe_consult",
               "critique_consult", "critique_llm"}

(* Where the run is suspended without a look at what the charge before it  *)
(* has done.                                                               *)
UncheckedPoints == {"call_consult", "dispatch", "running"}

(* The phase the code expects the run to be in.                            *)
PhaseAt(point) ==
  CASE point = "receive"                               -> "receive"
    [] point \in {"frame_consult", "frame_llm"}        -> "frame"
    [] point \in {"plan_consult", "plan_llm"}          -> "plan"
    [] point = "call_consult"                          -> "plan"
    [] point = "evaluate"                              -> "validate_authority"
    [] point \in {"dispatch", "running"}               -> "execute_tool"
    [] point = "observe_consult"                       -> "observe_result"
    [] point \in {"critique_consult", "critique_llm"}  -> "critique_verify"
    [] point \in FinalPoints                           -> "finalize"

(* Nothing but a stop has been reported yet.                               *)
Expected(r) == r.completionStatus \in {"running"} \cup StopStatus

RunInv ==
  /\ Safe(run)
  /\ pc \in Points =>
       /\ Running(run) /\ Fit(run, PhaseAt(pc))
       /\ pc \notin UncheckedPoints => ~Halted(run)
       /\ pc \notin FinalPoints => Expected(run)
       /\ pc \in FinalPoints => Expected(run) \/ run.completionStatus = "failed"

(* A run that waits for its answer has the verdict it will report.         *)
FailureFits == verdict = "failed" /\ repairs = MaxRepairs

VerdictInv ==
  pc \in FinalPoints =>
    /\ run.completionStatus = "failed" => FailureFits
    /\ run.completionStatus = "running" /\ kind = "coder" => verdict = "passed"

(* The calls of the plan up to which the run has come, by stage: the one   *)
(* being processed counts from the point where the code has dealt with it. *)
RequestedTo == IF pc = "call_consult" THEN i - 1 ELSE i
DecidedTo   == IF pc \in {"call_consult", "evaluate"} THEN i - 1 ELSE i
StartedTo   == IF pc \in {"call_consult", "evaluate", "dispatch"} THEN i - 1 ELSE i
ObservedTo  == IF pc \in {"call_consult", "evaluate", "dispatch", "running",
                          "observe_consult"} THEN i - 1 ELSE i

LoopInv ==
  pc \in Points =>
    /\ pc \in PlanPoints => i = 0
    /\ pc \in CallPoints => i \in 1 .. calls
    /\ pc \in FinalPoints => i = calls
    /\ requests = 1 .. RequestedTo
    /\ executed \subseteq 1 .. StartedTo
    /\ observed = 1 .. ObservedTo
    /\ \A c \in Calls : IF c <= DecidedTo THEN Proceeds(c) ELSE decisions[c] = "none"

(* Only the charge for the call itself can have stopped a run that waits   *)
(* for the registry.                                                       *)
DispatchInv ==
  pc \in {"dispatch", "running"} /\ Halted(run) => run.remaining["toolCalls"] = 0

IInv == /\ TypeOK /\ RunInv /\ VerdictInv /\ LoopInv /\ DispatchInv
        /\ ReturnsSealed /\ ReportMatchesTheRun /\ RefusalEndsTheRun
-----------------------------------------------------------------------------
LEMMA InitIInv == Init => IInv
  <1> SUFFICES ASSUME Init PROVE IInv
    OBVIOUS
  <1> USE DelegatedAssumption, CoderAssumption
  <1>1. PICK policy \in BudgetPolicy : run = CreatePipelineState(policy)
    BY DEF Init, ChatInit, CallsInit
  <1>2. /\ Fit(run, "receive") /\ ~Halted(run) /\ run.completionStatus = "running"
        /\ Running(run)
    BY <1>1, CreateFits, CreateSound
  <1>3. pc = "receive" /\ calls = 0 /\ i = 0 /\ repairs = 0 /\ verdict = "none"
        /\ requests = {} /\ executed = {} /\ observed = {}
        /\ decisions = [c \in Calls |-> "none"] /\ kind \in {"chat", "coder"}
    BY DEF Init, ChatInit, CoderInit, CallsInit
  <1>4. TypeOK
    BY <1>2, <1>3 DEF TypeOK, RunTypeOK, Fit, Safe, Sound, Points, Decision
  <1>5. RunInv
    BY <1>2, <1>3 DEF RunInv, PhaseAt, Fit, Expected, FinalPoints
  <1>6. LoopInv
    BY <1>3 DEF LoopInv, PlanPoints, CallPoints, FinalPoints, RequestedTo, StartedTo,
                ObservedTo, DecidedTo, Calls
  <1>7. VerdictInv /\ DispatchInv /\ ReturnsSealed /\ ReportMatchesTheRun /\ RefusalEndsTheRun
    BY <1>3 DEF VerdictInv, FinalPoints, DispatchInv, ReturnsSealed, ReportMatchesTheRun,
                RefusalEndsTheRun, Refused, RefusingDecision
  <1>8. QED
    BY <1>4, <1>5, <1>6, <1>7 DEF IInv

(* The edges of the FSM that the pipelines use.                            *)
LEMMA EdgesUsed ==
  /\ "frame" \in ValidTransitions["receive"] /\ "plan" \in ValidTransitions["frame"]
  /\ {"finalize", "request_authority"} \subseteq ValidTransitions["plan"]
  /\ "validate_authority" \in ValidTransitions["request_authority"]
  /\ {"delegate_narrow", "deny", "escalate"} \subseteq ValidTransitions["validate_authority"]
  /\ "execute_tool" \in ValidTransitions["delegate_narrow"]
  /\ "observe_result" \in ValidTransitions["execute_tool"]
  /\ "critique_verify" \in ValidTransitions["observe_result"]
  /\ {"plan", "finalize"} \subseteq ValidTransitions["critique_verify"]
  /\ "audit_seal" \in ValidTransitions["finalize"] \cap ValidTransitions["deny"]
                        \cap ValidTransitions["escalate"]
  /\ {"receive", "frame", "plan", "request_authority", "validate_authority",
      "delegate_narrow", "execute_tool", "observe_result", "critique_verify",
      "finalize", "deny", "escalate"} \subseteq Phase
  BY DEF ValidTransitions, Phase

(* The run is suspended at a point, or one of the statements has thrown.   *)
LEMMA SuspendedRun ==
  ASSUME NEW r, NEW point \in Points, Fit(r, PhaseAt(point)), Continue(r, point),
         Alive(r) \/ point \in UncheckedPoints,
         Running(r) => Expected(r) \/ (point \in FinalPoints /\ r.completionStatus = "failed"),
         Running(r) /\ point \in FinalPoints /\ r.completionStatus = "failed" => FailureFits',
         Running(r) /\ point \in FinalPoints /\ r.completionStatus = "running" /\ kind' = "coder"
            => verdict' = "passed"
  PROVE  RunInv' /\ VerdictInv' /\ ReturnsSealed' /\ ReportMatchesTheRun'
  <1>1. run' = r /\ pc' = (IF Running(r) THEN point ELSE "thrown") /\ Safe(r)
    BY DEF Continue, Fit
  <1>2. "thrown" \notin Points /\ "returned" \notin Points
    BY DEF Points, ConsultPoints, LLMPoints
  <1>3. RunInv'
    BY <1>1, <1>2 DEF RunInv, Alive
  <1>4. VerdictInv'
    BY <1>1, <1>2 DEF VerdictInv, FinalPoints
  <1>5. QED
    BY <1>1, <1>2, <1>3, <1>4 DEF ReturnsSealed, ReportMatchesTheRun

(* end(): the run returns sealed, with a report that fits what it has done.*)
LEMMA EndedRun ==
  ASSUME NEW r, Safe(r), Running(r) => Halted(r), End(r),
         Running(r) /\ r.completionStatus = "succeeded" =>
           /\ (\A c \in 1 .. calls : Proceeds(c) /\ c \in observed)'
           /\ HardBudget(r) => ~IsExhausted(r)
           /\ kind' = "coder" => verdict' = "passed",
         Running(r) /\ r.completionStatus = "failed" => FailureFits'
  PROVE  /\ RunInv' /\ VerdictInv' /\ ReturnsSealed' /\ ReportMatchesTheRun'
         /\ pc' \in Ended
         /\ pc' = "returned" => run'.termination = r.completionStatus
  <1> DEFINE s == FinalizeTrace(r)
  <1>0. {"thrown", "returned"} \cap (Points \cup FinalPoints) = {}
    BY DEF Points, ConsultPoints, LLMPoints, FinalPoints
  <1>1. CASE ~Running(r)
    <2>1. run' = r /\ pc' = "thrown"
      BY <1>1 DEF End, Continue
    <2>2. QED
      BY <1>0, <2>1 DEF RunInv, VerdictInv, ReturnsSealed, ReportMatchesTheRun, Ended
  <1>2. CASE Running(r)
    <2>1. /\ Sound(s) /\ s.completionStatus = r.completionStatus /\ s.error = r.error
          /\ s.phase = r.phase /\ s.termination = r.completionStatus
          /\ s.remaining = r.remaining /\ s.max = r.max /\ s.enforcement = r.enforcement
      BY FinalizeTraceSound DEF Safe, Sound, FinalizeTrace, RunRecord
    <2> HIDE DEF s
    <2>2. run' = s /\ pc' = "returned"
      BY <1>2, <2>1 DEF End, Continue, Running, s
    <2>3. Safe(s) /\ Halted(s)
      BY <1>2, <2>1 DEF Safe, Halted
    <2>4. RunInv' /\ VerdictInv' /\ ReturnsSealed'
      BY <1>0, <2>1, <2>2, <2>3 DEF RunInv, VerdictInv, ReturnsSealed, Safe
    <2>5. ReportMatchesTheRun'
      BY <1>2, <2>1, <2>2 DEF ReportMatchesTheRun, HardBudget, IsExhausted, FailureFits
    <2>6. QED
      BY <2>1, <2>2, <2>4, <2>5 DEF Ended
  <1>3. QED
    BY <1>1, <1>2
-----------------------------------------------------------------------------
ReportInv == RunInv /\ VerdictInv /\ ReturnsSealed /\ ReportMatchesTheRun

(* What a model call leaves of a run that waits for it, before and after   *)
(* the step is charged.                                                    *)
LEMMA AnswerFits ==
  ASSUME RunInv, pc \in LLMPoints
  PROVE  /\ \A x \in LLMResults(run) : Fit(x, PhaseAt(pc)) /\ Running(x) /\ SameReport(run, x)
         /\ \A x \in Charged : Fit(x, PhaseAt(pc)) /\ Running(x) /\ SameReport(run, x)
  <1>1. Running(run) /\ Fit(run, PhaseAt(pc))
    BY DEF RunInv, Points
  <1>2. \A x \in LLMResults(run) : Fit(x, PhaseAt(pc)) /\ Running(x) /\ SameReport(run, x)
    BY <1>1, LLMFits
  <1>3. \A x \in Answered : /\ Fit(RecordStep(x), PhaseAt(pc)) /\ Running(RecordStep(x))
                            /\ SameReport(run, RecordStep(x))
    <2>1. TAKE x \in Answered
    <2>2. x \in LLMResults(run) /\ Alive(x)
      BY DEF Answered, Alive
    <2>3. SameReport(x, RecordStep(x)) /\ Fit(RecordStep(x), PhaseAt(pc)) /\ Running(RecordStep(x))
      BY <1>2, <2>2, RecordStepFits
    <2>4. QED
      BY <1>2, <2>2, <2>3 DEF SameReport
  <1>4. QED
    BY <1>2, <1>3 DEF Charged

(* recordStep and transition, where the code may do both.                  *)
LEMMA StepFits ==
  ASSUME NEW r, NEW p \in Phase, Fit(r, p), Alive(r), NEW to \in ValidTransitions[p],
         to # "audit_seal"
  PROVE  /\ Fit(Transition(RecordStep(r), to), to) /\ Alive(Transition(RecordStep(r), to))
         /\ SameReport(r, Transition(RecordStep(r), to))
  BY RecordStepFits, TransitionFits DEF SameReport

(* recordStep on the answer of the model, then transition.                 *)
LEMMA ChargedTransition ==
  ASSUME RunInv, pc \in LLMPoints \ FinalPoints, NEW x \in Charged, NEW p \in Phase,
         p = PhaseAt(pc), NEW to \in ValidTransitions[p], to # "audit_seal"
  PROVE  /\ Fit(Transition(x, to), to) /\ Alive(Transition(x, to))
         /\ Expected(Transition(x, to))
  <1>1. Fit(x, p) /\ SameReport(run, x)
    BY AnswerFits
  <1>2. Expected(run)
    BY DEF RunInv, Points
  <1>3. Transition(x, to).completionStatus = x.completionStatus
    BY <1>1, TransitionFits
  <1>4. QED
    BY <1>1, <1>2, <1>3, TransitionFits DEF Expected, SameReport

(* A stop before the answer: nothing but the stop is reported.             *)
LEMMA StoppedRun ==
  ASSUME NEW r, Safe(r), Running(r) => Halted(r), End(r), Expected(r) \/ r.completionStatus = "denied"
  PROVE  ReportInv'
  <1>1. r.completionStatus \notin {"succeeded", "failed"}
    BY DEF Expected, StopStatus
  <1>2. QED
    BY <1>1, EndedRun DEF ReportInv

(* How a refusal d is reported, and the run it seals.                      *)
Refusal(d) == IF d = "denied" THEN "denied" ELSE "escalation_timeout"

RefusedRun(r, d) ==
  Transition(Transition(SetStatus(RecordStep(r), Refusal(d)),
                        IF d = "denied" THEN "deny" ELSE "escalate"), "audit_seal")

LEMMA RefusalSeals ==
  ASSUME NEW r, Fit(r, "validate_authority"), Alive(r), NEW d
  PROVE  /\ Fit(RefusedRun(r, d), "audit_seal")
         /\ Running(RefusedRun(r, d)) =>
              /\ Halted(RefusedRun(r, d))
              /\ RefusedRun(r, d).completionStatus = Refusal(d)
  <1> USE EdgesUsed
  <1> DEFINE to == IF d = "denied" THEN "deny" ELSE "escalate"
             x == RecordStep(r)
             s == SetStatus(x, Refusal(d))
             t == Transition(s, to)
  <1>1. Fit(x, "validate_authority")
    BY RecordStepFits
  <1>2. Refusal(d) \in CompletionStatus /\ Refusal(d) # "running"
    BY DEF CompletionStatus, Refusal
  <1> HIDE DEF x
  <1>3. Fit(s, "validate_authority") /\ (Running(s) => s.completionStatus = Refusal(d))
    <2>1. CASE ~Running(x)
      BY <1>1, <2>1 DEF SetStatus
    <2>2. CASE Running(x)
      <3>1. Sound(s)
        BY <1>1, <1>2, SetStatusSound DEF Fit, Safe
      <3>2. s.phase = x.phase /\ s.error = x.error /\ s.completionStatus = Refusal(d)
        BY <1>1, <2>2 DEF SetStatus, Fit, Safe, Sound, RunRecord
      <3>3. QED
        BY <1>1, <1>2, <3>1, <3>2 DEF Fit, Safe, Halted, Running
    <2>3. QED
      BY <2>1, <2>2
  <1>4. RefusedRun(r, d) = Transition(t, "audit_seal")
    BY DEF RefusedRun, x
  <1> HIDE DEF s
  <1>5. Fit(t, to) /\ (Running(t) => t.completionStatus = Refusal(d))
    BY <1>3, TransitionFits
  <1> HIDE DEF t
  <1>6. QED
    BY <1>2, <1>4, <1>5, TransitionFits

LEMMA SharedReport ==
  ASSUME IInv, SharedStep, UNCHANGED <<kind, loopVars>>
  PROVE  ReportInv'
  <1> USE EdgesUsed
  <1>0. /\ RunInv /\ VerdictInv /\ ReturnsSealed /\ ReportMatchesTheRun
        /\ \A p \in Points : pc = p => Running(run) /\ Fit(run, PhaseAt(p)) /\ Safe(run)
        /\ \A p \in Points \ UncheckedPoints : pc = p => Alive(run)
        /\ \A p \in Points \ FinalPoints : pc = p => Expected(run)
    BY DEF IInv, RunInv, Alive
  <1>1. CASE Receive
    <2> DEFINE r == Transition(RecordStep(run), "frame")
    <2>1. Fit(run, "receive") /\ Alive(run) /\ Expected(run)
      BY <1>0, <1>1 DEF Receive, Points, UncheckedPoints, FinalPoints, PhaseAt
    <2>2. Fit(r, "frame") /\ Alive(r) /\ Expected(r)
      BY <2>1, StepFits DEF Expected, SameReport
    <2>3. Continue(r, "frame_consult")
      BY <1>1 DEF Receive
    <2> HIDE DEF r
    <2>4. QED
      BY <2>2, <2>3, SuspendedRun
         DEF ReportInv, Points, ConsultPoints, FinalPoints, PhaseAt
  <1>2. CASE ConsultAllowed
    <2>1. /\ pc \in Points \ UncheckedPoints /\ pc' \in Points \ UncheckedPoints
          /\ PhaseAt(pc') = PhaseAt(pc) /\ (pc \in FinalPoints <=> pc' \in FinalPoints)
          /\ run' = run /\ kind' = kind /\ verdict' = verdict /\ repairs' = repairs
      BY <1>2 DEF ConsultAllowed, Points, ConsultPoints, LLMPoints, UncheckedPoints,
                  FinalPoints, PhaseAt, loopVars
    <2>2. pc' # "returned"
      BY <2>1 DEF Points, ConsultPoints, LLMPoints
    <2>3. RunInv'
      BY <1>0, <2>1 DEF RunInv
    <2>4. VerdictInv'
      BY <1>0, <2>1 DEF VerdictInv, FailureFits
    <2>5. QED
      BY <2>2, <2>3, <2>4 DEF ReportInv, ReturnsSealed, ReportMatchesTheRun
  <1>3. CASE ConsultDenied
    <2>1. pc \in Points /\ "denied" \in CompletionStatus /\ "denied" # "running"
      BY <1>3 DEF ConsultDenied, Points, CompletionStatus
    <2>2. Safe(ForceStop(run, "denied")) /\ Halted(ForceStop(run, "denied"))
          /\ ForceStop(run, "denied").completionStatus = "denied"
      BY <1>0, <2>1, ForceStopFits DEF Fit
    <2>3. QED
      BY <1>3, <2>2, StoppedRun DEF ConsultDenied
  <1>4. CASE PolicyEngineThrows
    <2>1. /\ pc \in Points /\ pc' = "thrown" /\ run' = run
      BY <1>4 DEF PolicyEngineThrows, Continue, Points
    <2>2. QED
      BY <1>0, <2>1 DEF ReportInv, RunInv, VerdictInv, ReturnsSealed, ReportMatchesTheRun,
                        Points, ConsultPoints, LLMPoints, FinalPoints
  <1>5. CASE LLMHalts
    <2>1. pc \in LLMPoints /\ pc \in Points
      BY <1>5 DEF LLMHalts, Points
    <2>2. PICK r \in LLMResults(run) : Halted(r) /\ End(r)
      BY <1>5 DEF LLMHalts
    <2>3. Safe(r) /\ Running(r) /\ SameReport(run, r)
      BY <1>0, <2>1, AnswerFits DEF Fit
    <2>4. CASE Expected(r)
      BY <2>2, <2>3, <2>4, StoppedRun
    <2>5. CASE r.completionStatus = "failed"
      <3>1. run.completionStatus = "failed"
        BY <2>3, <2>5 DEF SameReport, StopStatus
      <3>2. pc \in FinalPoints
        BY <1>0, <2>1, <3>1 DEF RunInv, Expected, StopStatus
      <3>3. FailureFits'
        BY <1>0, <3>1, <3>2 DEF VerdictInv, FailureFits, loopVars
      <3>4. QED
        BY <2>2, <2>3, <2>5, <3>3, EndedRun DEF ReportInv
    <2>6. Expected(r) \/ r.completionStatus = "failed"
      BY <1>0, <2>1, <2>3 DEF RunInv, SameReport, Expected
    <2>7. QED
      BY <2>4, <2>5, <2>6
  <1>6. CASE Frame
    <2>1. pc \in LLMPoints \ FinalPoints /\ PhaseAt(pc) = "frame"
      BY <1>6 DEF Frame, LLMPoints, FinalPoints, PhaseAt
    <2>2. PICK x \in Charged : Continue(Transition(x, "plan"), "plan_consult")
      BY <1>6 DEF Frame
    <2>3. /\ Fit(Transition(x, "plan"), "plan") /\ Alive(Transition(x, "plan"))
          /\ Expected(Transition(x, "plan"))
      BY <1>0, <2>1, ChargedTransition
    <2>4. QED
      BY <2>2, <2>3, SuspendedRun
         DEF ReportInv, Points, ConsultPoints, FinalPoints, PhaseAt
  <1>7. CASE RequestAuthority
    <2> DEFINE r == Transition(run, "request_authority")
               s == Transition(RecordStep(r), "validate_authority")
    <2>1. Fit(run, "plan") /\ Expected(run)
      BY <1>0, <1>7 DEF RequestAuthority, Points, ConsultPoints, FinalPoints, PhaseAt
    <2>2. Fit(r, "request_authority") /\ Alive(r) /\ Expected(r)
      BY <2>1, TransitionFits DEF Expected
    <2>3. Continue(s, "evaluate")
      BY <1>7 DEF RequestAuthority
    <2> HIDE DEF r
    <2>4. Fit(s, "validate_authority") /\ Alive(s) /\ Expected(s)
      BY <2>2, StepFits DEF Expected, SameReport
    <2> HIDE DEF s
    <2>5. QED
      BY <2>3, <2>4, SuspendedRun DEF ReportInv, Points, FinalPoints, PhaseAt
  <1>8. CASE Refuse
    <2>1. PICK d \in RefusingDecision : End(RefusedRun(run, d))
      BY <1>8 DEF Refuse, RefusedRun, Refusal
    <2>2. pc = "evaluate"
      BY <1>8 DEF Refuse
    <2>3. Fit(run, "validate_authority") /\ Alive(run)
      BY <1>0, <2>2 DEF Points, UncheckedPoints, PhaseAt, FinalPoints
    <2>4. Fit(RefusedRun(run, d), "audit_seal")
          /\ (Running(RefusedRun(run, d)) =>
                /\ Halted(RefusedRun(run, d))
                /\ RefusedRun(run, d).completionStatus = Refusal(d))
      BY <2>3, RefusalSeals
    <2>5. QED
      BY <2>1, <2>4, EndedRun DEF Fit, Refusal, ReportInv
  <1>9. CASE Delegate
    <2> DEFINE r == Transition(RecordStep(run), "delegate_narrow")
               s == RecordStep(r)
               t == Transition(s, "execute_tool")
               u == RecordToolCall(t)
    <2>1. Fit(run, "validate_authority") /\ Alive(run) /\ Expected(run)
      BY <1>0, <1>9 DEF Delegate, Points, UncheckedPoints, FinalPoints, PhaseAt
    <2>2. Fit(r, "delegate_narrow") /\ Alive(r) /\ Expected(r)
      BY <2>1, StepFits DEF Expected, SameReport
    <2>3. Continue(u, "dispatch")
      BY <1>9 DEF Delegate
    <2> HIDE DEF r
    <2>4. Fit(t, "execute_tool") /\ Alive(t) /\ Expected(t)
      BY <2>2, StepFits DEF Expected, SameReport
    <2> HIDE DEF t
    <2>5. Fit(u, "execute_tool") /\ Expected(u)
      BY <2>4, RecordFits DEF RecordToolCall, BudgetField, Expected, SameReport
    <2> HIDE DEF u
    <2>6. QED
      BY <2>3, <2>5, SuspendedRun
         DEF ReportInv, Points, FinalPoints, PhaseAt, UncheckedPoints
  <1>10. CASE RejectCall \/ HandlerEnds
    <2> DEFINE r == Transition(run, "observe_result")
    <2>1. Fit(run, "execute_tool") /\ Expected(run)
      BY <1>0, <1>10 DEF RejectCall, HandlerEnds, Points, FinalPoints, PhaseAt
    <2>2. Fit(r, "observe_result") /\ Alive(r) /\ Expected(r)
      BY <2>1, TransitionFits DEF Expected
    <2>3. Continue(r, "observe_consult")
      BY <1>10 DEF RejectCall, HandlerEnds
    <2> HIDE DEF r
    <2>4. QED
      BY <2>2, <2>3, SuspendedRun DEF ReportInv, Points, ConsultPoints, FinalPoints, PhaseAt
  <1>11. CASE StartHandler
    <2>1. pc = "dispatch" /\ pc' = "running" /\ run' = run
      BY <1>11 DEF StartHandler
    <2>2. QED
      BY <1>0, <2>1 DEF ReportInv, RunInv, VerdictInv, ReturnsSealed, ReportMatchesTheRun,
                        Points, FinalPoints, UncheckedPoints, PhaseAt
  <1>12. CASE RegistryThrows
    <2>1. pc \in Points /\ "fail_safe" \in CompletionStatus /\ "fail_safe" # "running"
      BY <1>12 DEF RegistryThrows, Points, CompletionStatus
    <2>2. Safe(ForceStop(run, "fail_safe")) /\ Halted(ForceStop(run, "fail_safe"))
          /\ ForceStop(run, "fail_safe").completionStatus = "fail_safe"
      BY <1>0, <2>1, ForceStopFits DEF Fit
    <2>3. QED
      BY <1>12, <2>2, StoppedRun DEF RegistryThrows, Expected, StopStatus
  <1>13. CASE Observe
    <2> DEFINE r == Transition(RecordStep(run), "critique_verify")
    <2>1. Fit(run, "observe_result") /\ Alive(run) /\ Expected(run)
      BY <1>0, <1>13 DEF Observe, Points, ConsultPoints, UncheckedPoints, FinalPoints, PhaseAt
    <2>2. Fit(r, "critique_verify") /\ Alive(r) /\ Expected(r)
      BY <2>1, StepFits DEF Expected, SameReport
    <2>3. Continue(r, "critique_consult")
      BY <1>13 DEF Observe
    <2> HIDE DEF r
    <2>4. QED
      BY <2>2, <2>3, SuspendedRun
         DEF ReportInv, Points, ConsultPoints, FinalPoints, PhaseAt
  <1>14. QED
    BY <1>1, <1>2, <1>3, <1>4, <1>5, <1>6, <1>7, <1>8, <1>9, <1>10, <1>11, <1>12, <1>13
       DEF SharedStep, FrameStep, ConsultStep, CallStep

(* The head of the loop for the next call, or the stop before it.          *)
LEMMA NextCallReport ==
  ASSUME RunInv, pc = "critique_llm", NEW x \in Charged, NextCall(x)
  PROVE  ReportInv'
  <1> USE EdgesUsed
  <1>1. pc \in LLMPoints \ FinalPoints /\ pc \in Points /\ PhaseAt(pc) = "critique_verify"
    BY DEF LLMPoints, FinalPoints, Points, PhaseAt
  <1>2. /\ Fit(x, "critique_verify") /\ Running(x) /\ SameReport(run, x) /\ Expected(run)
    BY <1>1, AnswerFits DEF RunInv
  <1>3. CASE Halted(x)
    BY <1>2, <1>3, StoppedRun DEF NextCall, Fit, Expected, SameReport
  <1>4. CASE ~Halted(x)
    <2> DEFINE r == Transition(x, "plan")
    <2>1. Fit(r, "plan") /\ Alive(r) /\ Expected(r)
      BY <1>1, ChargedTransition
    <2>2. Continue(RecordStep(r), "call_consult")
      BY <1>4 DEF NextCall
    <2> HIDE DEF r
    <2>3. Fit(RecordStep(r), "plan") /\ Expected(RecordStep(r))
      BY <2>1, RecordStepFits DEF Expected, SameReport
    <2>4. QED
      BY <2>2, <2>3, SuspendedRun
         DEF ReportInv, Points, ConsultPoints, FinalPoints, PhaseAt, UncheckedPoints
  <1>5. QED
    BY <1>3, <1>4

(* A plan with tool calls, or a stop.                                      *)
LEMMA PlanReport ==
  ASSUME RunInv, pc = "plan_llm", NEW x \in Charged, EndOr(x, "call_consult")
  PROVE  ReportInv'
  <1>1. pc \in LLMPoints \ FinalPoints /\ pc \in Points /\ PhaseAt(pc) = "plan"
    BY DEF LLMPoints, FinalPoints, Points, PhaseAt
  <1>2. Fit(x, "plan") /\ Running(x) /\ SameReport(run, x) /\ Expected(run)
    BY <1>1, AnswerFits DEF RunInv
  <1>3. Safe(x) /\ Expected(x)
    BY <1>2 DEF Fit, Expected, SameReport
  <1>4. CASE Halted(x)
    BY <1>3, <1>4, StoppedRun DEF EndOr
  <1>5. CASE ~Halted(x)
    BY <1>2, <1>3, <1>5, SuspendedRun
       DEF EndOr, ReportInv, Points, ConsultPoints, FinalPoints, PhaseAt, UncheckedPoints
  <1>6. QED
    BY <1>4, <1>5

(* Leaving the loop for the answer, with a verdict that fits, or a stop.   *)
LEMMA LeaveReport ==
  ASSUME RunInv, pc \in {"plan_llm", "critique_llm"}, NEW x \in Charged, NEW r,
         \/ r = x /\ (kind' = "coder" => verdict' = "passed")
         \/ r = SetStatus(x, "failed") /\ FailureFits',
         LeaveLoop(r)
  PROVE  ReportInv'
  <1> USE EdgesUsed
  <1>1. /\ pc \in LLMPoints \ FinalPoints /\ pc \in Points
        /\ "finalize" \in ValidTransitions[PhaseAt(pc)] /\ PhaseAt(pc) \in Phase
    BY DEF LLMPoints, FinalPoints, Points, PhaseAt
  <1>2. Fit(x, PhaseAt(pc)) /\ Running(x) /\ SameReport(run, x) /\ Expected(run)
    BY <1>1, AnswerFits DEF RunInv
  <1>3. /\ Fit(r, PhaseAt(pc)) /\ Running(r)
        /\ \/ r.completionStatus = "failed" /\ FailureFits'
           \/ Expected(r) /\ (kind' = "coder" => verdict' = "passed")
    <2>1. CASE r = x /\ (kind' = "coder" => verdict' = "passed")
      BY <1>2, <2>1 DEF Expected, SameReport, StopStatus
    <2>2. CASE r = SetStatus(x, "failed") /\ FailureFits'
      <3>1. "failed" \in CompletionStatus
        BY DEF CompletionStatus
      <3>2. Sound(r)
        BY <1>2, <2>2, <3>1, SetStatusSound DEF Fit, Safe
      <3>3. /\ r.phase = x.phase /\ r.error = x.error /\ r.completionStatus = "failed"
        BY <1>2, <2>2 DEF SetStatus, Fit, Safe, Sound, RunRecord
      <3>4. QED
        BY <1>2, <2>2, <3>2, <3>3 DEF Fit, Safe, Halted, Running
    <2>3. QED
      BY <2>1, <2>2
  <1>4. CASE Halted(r)
    <2>1. End(r) /\ Safe(r)
      BY <1>3, <1>4 DEF LeaveLoop, Fit
    <2>2. r.completionStatus # "succeeded"
      BY <1>3 DEF Expected, StopStatus
    <2>3. r.completionStatus = "failed" => FailureFits'
      BY <1>3 DEF Expected, StopStatus
    <2>4. QED
      BY <1>4, <2>1, <2>2, <2>3, EndedRun DEF ReportInv
  <1>5. CASE ~Halted(r)
    <2> DEFINE s == Transition(r, "finalize")
    <2>1. Fit(s, "finalize") /\ Alive(s) /\ s.completionStatus = r.completionStatus
      BY <1>1, <1>3, TransitionFits
    <2>2. Continue(s, "finalize_consult")
      BY <1>5 DEF LeaveLoop
    <2> HIDE DEF s
    <2>3. /\ "finalize_consult" \in Points /\ PhaseAt("finalize_consult") = "finalize"
          /\ "finalize_consult" \in FinalPoints
      BY DEF Points, ConsultPoints, FinalPoints, PhaseAt
    <2>4. Expected(s) \/ s.completionStatus = "failed"
      BY <1>3, <2>1 DEF Expected
    <2>5. /\ s.completionStatus = "failed" => FailureFits'
          /\ s.completionStatus = "running" /\ kind' = "coder" => verdict' = "passed"
      BY <1>3, <2>1 DEF Expected, StopStatus
    <2>6. QED
      BY <2>1, <2>2, <2>3, <2>4, <2>5, SuspendedRun DEF ReportInv
  <1>6. QED
    BY <1>4, <1>5

(* The answer seals the run, unless the charge for it has.                 *)
LEMMA FinalReport ==
  ASSUME IInv, pc = "finalize_llm", NEW x, x \in Answered \cup Charged,
         End(Transition(x, "audit_seal")), UNCHANGED <<callVars, loopVars, kind>>
  PROVE  ReportInv'
  <1> USE EdgesUsed
  <1> DEFINE r == Transition(x, "audit_seal")
  <1>1. pc \in LLMPoints /\ pc \in Points /\ pc \in FinalPoints /\ PhaseAt(pc) = "finalize"
    BY DEF LLMPoints, FinalPoints, Points, PhaseAt
  <1>2. Fit(x, "finalize") /\ Running(x) /\ SameReport(run, x)
    BY <1>1, AnswerFits DEF IInv, Answered
  <1>3. /\ Fit(r, "audit_seal")
        /\ Running(r) => /\ Halted(r) /\ ~Halted(x)
                         /\ r.completionStatus = IF x.completionStatus = "running"
                                                 THEN "succeeded" ELSE x.completionStatus
    BY <1>2, TransitionFits
  <1>4. Sound(x) /\ x \in RunRecord
    BY <1>2 DEF Fit, Safe, Sound
  <1>5. /\ r.remaining = x.remaining /\ r.max = x.max /\ r.enforcement = x.enforcement
    BY <1>4, TransitionCases DEF Phase
  <1>6. End(r)
    OBVIOUS
  <1> HIDE DEF r
  <1>7. ASSUME Running(r), r.completionStatus = "failed" PROVE FailureFits'
    <2>1. run.completionStatus = "failed"
      BY <1>2, <1>3, <1>7 DEF SameReport, StopStatus
    <2>2. QED
      BY <1>1, <2>1 DEF IInv, VerdictInv, FailureFits, loopVars
  <1>8. ASSUME Running(r), r.completionStatus = "succeeded"
        PROVE  /\ (\A c \in 1 .. calls : Proceeds(c) /\ c \in observed)'
               /\ HardBudget(r) => ~IsExhausted(r)
               /\ kind' = "coder" => verdict' = "passed"
    <2>1. x.completionStatus \in {"running", "succeeded"} /\ ~Halted(x)
      BY <1>3, <1>8
    <2>2. run.completionStatus = "running"
      BY <1>1, <1>2, <2>1 DEF SameReport, StopStatus, IInv, RunInv, Expected
    <2>3. kind' = "coder" => verdict' = "passed"
      BY <1>1, <2>2 DEF IInv, VerdictInv, loopVars
    <2>4. HardBudget(r) => ~IsExhausted(r)
      BY <1>2, <1>4, <1>5, <2>1 DEF Sound, Guarded, HardBudget, IsExhausted
    <2>5. ASSUME NEW c \in 1 .. calls PROVE Proceeds(c)' /\ c \in observed'
      <3>1. calls \in 0 .. MaxCalls
        BY DEF IInv, TypeOK, RunTypeOK
      <3>2. /\ i = calls /\ c \in Calls /\ observed = 1 .. i
            /\ c <= i => Proceeds(c)
        BY <1>1, <3>1, DelegatedAssumption
           DEF IInv, LoopInv, ObservedTo, DecidedTo, Calls, FinalPoints
      <3>3. c <= i /\ Proceeds(c) /\ c \in observed
        BY <3>1, <3>2, DelegatedAssumption
      <3>4. QED
        BY <3>3 DEF callVars, Proceeds
    <2>6. calls' = calls
      BY DEF callVars
    <2>7. QED
      BY <2>3, <2>4, <2>5, <2>6
  <1>9. QED
    BY <1>3, <1>6, <1>7, <1>8, EndedRun DEF ReportInv, Fit

LEMMA ChatReport ==
  ASSUME IInv, ChatStep, UNCHANGED <<kind, loopVars>>, kind = "chat"
  PROVE  ReportInv'
  <1> USE EdgesUsed
  <1>0. RunInv /\ kind' = "chat"
    BY DEF IInv
  <1>1. CASE ChatPlanWithoutTools
    <2>1. pc \in LLMPoints \ FinalPoints /\ PhaseAt(pc) = "plan"
      BY <1>1 DEF ChatPlanWithoutTools, LLMPoints, FinalPoints, PhaseAt
    <2>2. PICK x \in Charged : Continue(Transition(x, "finalize"), "finalize_consult")
      BY <1>1 DEF ChatPlanWithoutTools
    <2>3. /\ Fit(Transition(x, "finalize"), "finalize") /\ Alive(Transition(x, "finalize"))
          /\ Expected(Transition(x, "finalize"))
      BY <1>0, <2>1, ChargedTransition
    <2>4. /\ Transition(x, "finalize").completionStatus # "failed"
          /\ "finalize_consult" \in Points /\ PhaseAt("finalize_consult") = "finalize"
          /\ kind' # "coder"
      BY <1>0, <2>3 DEF Expected, StopStatus, Points, ConsultPoints, PhaseAt, FinalPoints
    <2>5. QED
      BY <2>2, <2>3, <2>4, SuspendedRun DEF ReportInv
  <1>2. CASE ChatPlanWithTools
    BY <1>0, <1>2, PlanReport DEF ChatPlanWithTools
  <1>3. CASE ChatCritiqueThenNextCall
    BY <1>0, <1>3, NextCallReport DEF ChatCritiqueThenNextCall
  <1>4. CASE ChatCritiqueThenFinalize
    BY <1>0, <1>4, LeaveReport DEF ChatCritiqueThenFinalize
  <1>5. CASE ChatFinalize
    BY <1>5, FinalReport DEF ChatFinalize
  <1>6. QED
    BY <1>1, <1>2, <1>3, <1>4, <1>5 DEF ChatStep

LEMMA CoderReport ==
  ASSUME IInv, CoderStep, UNCHANGED kind
  PROVE  ReportInv'
  <1> USE EdgesUsed
  <1>0. RunInv /\ repairs \in 0 .. MaxRepairs
    BY DEF IInv, TypeOK
  <1>1. CASE CoderPlanWithoutTools
    BY <1>0, <1>1, LeaveReport DEF CoderPlanWithoutTools
  <1>2. CASE CoderPlanWithTools
    BY <1>0, <1>2, PlanReport DEF CoderPlanWithTools
  <1>3. CASE CoderCritiqueThenNextCall
    BY <1>0, <1>3, NextCallReport DEF CoderCritiqueThenNextCall
  <1>4. CASE CritiquePasses
    BY <1>0, <1>4, LeaveReport DEF CritiquePasses, LastCritique
  <1>5. CASE GiveUp
    <2>1. FailureFits'
      BY <1>0, <1>5, CoderAssumption DEF GiveUp, LastCritique, FailureFits
    <2>2. QED
      BY <1>0, <1>5, <2>1, LeaveReport DEF GiveUp, LastCritique
  <1>6. CASE Repair
    <2>1. pc \in LLMPoints \ FinalPoints /\ PhaseAt(pc) = "critique_verify"
      BY <1>6 DEF Repair, LastCritique, LLMPoints, FinalPoints, PhaseAt
    <2>2. PICK x \in Charged : Continue(Transition(x, "plan"), "plan_consult")
      BY <1>6 DEF Repair
    <2>3. /\ Fit(Transition(x, "plan"), "plan") /\ Alive(Transition(x, "plan"))
          /\ Expected(Transition(x, "plan"))
      BY <1>0, <2>1, ChargedTransition
    <2>4. QED
      BY <2>2, <2>3, SuspendedRun DEF ReportInv, Points, ConsultPoints, FinalPoints, PhaseAt
  <1>7. CASE CoderFinalize
    BY <1>7, FinalReport DEF CoderFinalize
  <1>8. QED
    BY <1>1, <1>2, <1>3, <1>4, <1>5, <1>6, <1>7 DEF CoderStep

(* Every step leaves a run whose report fits it.                           *)
LEMMA StepReport ==
  ASSUME IInv, RunStep
  PROVE  ReportInv'
  BY SharedReport, ChatReport, CoderReport DEF RunStep, ChatRunStep, CoderRunStep
-----------------------------------------------------------------------------
(* When the charge for a tool call stops the run, it has taken the last of *)
(* the tool budget and no more.                                            *)
LEMMA ToolCallStops ==
  ASSUME NEW r, Sound(r), Alive(r), Running(RecordToolCall(r)), Halted(RecordToolCall(r))
  PROVE  RecordToolCall(r).remaining["toolCalls"] = 0
  <1> DEFINE charged == [r EXCEPT !.remaining["toolCalls"] = @ - 1]
             u == RecordToolCall(r)
  <1>0. r \in RunRecord /\ r.remaining \in [BudgetField -> Int] /\ r.max \in [BudgetField -> Nat]
        /\ "toolCalls" \in BudgetField
    BY DEF Sound, RunRecord, BudgetField
  <1>1. Running(r) /\ ~Halted(r)
    BY RecordToolCallSound DEF Alive
  <1>2. /\ charged.phase = r.phase /\ charged.enforcement = r.enforcement
        /\ charged.max = r.max /\ charged.error = r.error
        /\ charged.remaining = [r.remaining EXCEPT !["toolCalls"] = @ - 1]
    BY <1>0 DEF RunRecord
  <1>3. u = CheckExhaustion(charged)
    BY <1>1 DEF RecordToolCall, Record
  <1>4. charged \in RunRecord
    BY <1>0 DEF RunRecord
  <1> HIDE DEF charged
  <1>5. IsExhausted(charged) /\ charged.enforcement = "hard"
    BY <1>1, <1>2, <1>3 DEF CheckExhaustion, Halted
  <1>6. PICK f \in BudgetField : charged.remaining[f] <= 0 /\ charged.max[f] > 0
    BY <1>5 DEF IsExhausted
  <1>7. ~(r.remaining[f] <= 0)
    BY <1>1, <1>2, <1>5, <1>6 DEF Sound, Guarded
  <1>8. f = "toolCalls"
    BY <1>0, <1>2, <1>6, <1>7
  <1>9. charged.remaining["toolCalls"] = 0
    BY <1>0, <1>2, <1>6, <1>7, <1>8
  <1>10. u.remaining = charged.remaining
    BY <1>1, <1>2, <1>3, <1>4, <1>5 DEF CheckExhaustion, ForceStop, Running, RunRecord
  <1>11. QED
    BY <1>9, <1>10

LEMMA DispatchStep ==
  ASSUME IInv, RunStep
  PROVE  DispatchInv'
  <1>1. ASSUME pc' \in {"dispatch", "running"} PROVE Delegate \/ StartHandler
    BY <1>1 DEF RunStep, ChatRunStep, CoderRunStep, SharedStep, FrameStep, ConsultStep,
         CallStep, ChatStep, CoderStep, Receive, Frame, ConsultAllowed, ConsultDenied,
         PolicyEngineThrows, LLMHalts, RequestAuthority, Refuse, RejectCall, RegistryThrows,
         HandlerEnds, Observe, ChatPlanWithoutTools, ChatPlanWithTools,
         ChatCritiqueThenNextCall, ChatCritiqueThenFinalize, ChatFinalize,
         CoderPlanWithoutTools, CoderPlanWithTools, CoderCritiqueThenNextCall,
         CritiquePasses, GiveUp, Repair, CoderFinalize, NextCall, LeaveLoop, EndOr, End,
         Continue
  <1>2. CASE Delegate
    <2> DEFINE r == RecordStep(Transition(RecordStep(run), "delegate_narrow"))
               t == Transition(r, "execute_tool")
    <2>1. pc = "evaluate"
      BY <1>2 DEF Delegate
    <2>2. Fit(run, "validate_authority") /\ Alive(run)
      BY <2>1 DEF IInv, RunInv, Points, UncheckedPoints, PhaseAt, FinalPoints, Alive
    <2>3. /\ Fit(Transition(RecordStep(run), "delegate_narrow"), "delegate_narrow")
          /\ Alive(Transition(RecordStep(run), "delegate_narrow"))
      BY <2>2, EdgesUsed, StepFits
    <2>4. Fit(t, "execute_tool") /\ Alive(t)
      BY <2>3, EdgesUsed, StepFits
    <2>5. Continue(RecordToolCall(t), "dispatch")
      BY <1>2 DEF Delegate
    <2> HIDE DEF t
    <2>6. QED
      BY <2>4, <2>5, ToolCallStops DEF Fit, Safe, Continue, DispatchInv
  <1>3. CASE StartHandler
    BY <1>3 DEF StartHandler, IInv, DispatchInv
  <1>4. QED
    BY <1>1, <1>2, <1>3 DEF DispatchInv
-----------------------------------------------------------------------------
(* What a step leaves of the plan and its calls.                           *)
PlanInv == TypeOK /\ LoopInv /\ RefusalEndsTheRun

LEMMA NothingRefused ==
  ASSUME IInv, pc \in Points
  PROVE  \A c \in Calls : ~Refused(c)
  BY DEF IInv, LoopInv, Refused, Proceeds, RefusingDecision, ProceedingDecision

LEMMA PointsAndEnds ==
  /\ Points \cap Ended = {}
  /\ PlanPoints \cup CallPoints \cup FinalPoints = Points
  /\ PlanPoints \cap CallPoints = {} /\ PlanPoints \cap FinalPoints = {}
  /\ CallPoints \cap FinalPoints = {}
  BY DEF Points, ConsultPoints, LLMPoints, Ended, PlanPoints, CallPoints, FinalPoints

(* A step that ends the run leaves its plan as it is.                      *)
LEMMA EndedPlan ==
  ASSUME IInv, pc \in Points, pc' \in Ended, run' \in RunRecord,
         calls' = calls, i' = i, requests' \subseteq Calls,
         executed' = executed, observed' \subseteq Calls, decisions' = decisions,
         kind' = kind, repairs' \in 0 .. MaxRepairs, verdict' \in {"none", "passed", "failed"}
  PROVE  PlanInv'
  <1>1. TypeOK'
    BY DEF IInv, TypeOK, RunTypeOK
  <1>2. LoopInv'
    BY PointsAndEnds DEF LoopInv
  <1>3. RefusalEndsTheRun'
    BY NothingRefused DEF RefusalEndsTheRun, Refused
  <1>4. QED
    BY <1>1, <1>2, <1>3 DEF PlanInv

(* A new plan starts at its first call, or needs none.                     *)
LEMMA FreshPlanKept ==
  ASSUME IInv, NEW n \in 0 .. MaxCalls, FreshPlan(n), run' \in RunRecord,
         pc' \in Ended \cup (IF n = 0 THEN PlanPoints \cup FinalPoints ELSE {"call_consult"}),
         kind' = kind, repairs' \in 0 .. MaxRepairs, verdict' \in {"none", "passed", "failed"}
  PROVE  PlanInv'
  <1> USE DelegatedAssumption
  <1>0. /\ calls' = n /\ i' = (IF n = 0 THEN 0 ELSE 1)
        /\ requests' = {} /\ executed' = {} /\ observed' = {}
        /\ decisions' = [c \in Calls |-> "none"]
    BY DEF FreshPlan
  <1>1. TypeOK'
    <2>1. i' \in 0 .. MaxCalls
      BY <1>0
    <2>2. pc' \in Points \cup Ended
      BY PointsAndEnds DEF CallPoints
    <2>3. decisions' \in [Calls -> Decision]
      BY <1>0 DEF Decision
    <2>4. QED
      BY <1>0, <2>1, <2>2, <2>3 DEF IInv, TypeOK, RunTypeOK
  <1>2. LoopInv'
    <2>1. CASE n = 0
      <3>1. pc' \notin CallPoints
        BY <2>1, PointsAndEnds DEF CallPoints, Ended
      <3>2. QED
        BY <1>0, <2>1, <3>1 DEF LoopInv, RequestedTo, StartedTo, ObservedTo, DecidedTo,
                                CallPoints, Calls
    <2>2. CASE n # 0
      <3>1. pc' \in Points => pc' = "call_consult"
        BY <2>2, PointsAndEnds
      <3>2. QED
        BY <1>0, <2>2, <3>1, PointsAndEnds
           DEF LoopInv, RequestedTo, StartedTo, ObservedTo, DecidedTo, CallPoints, Calls
    <2>3. QED
      BY <2>1, <2>2
  <1>3. RefusalEndsTheRun'
    BY <1>0 DEF RefusalEndsTheRun, Refused, RefusingDecision
  <1>4. QED
    BY <1>1, <1>2, <1>3 DEF PlanInv

(* A step from one point to the next, for the same calls.                  *)
LEMMA SamePlan ==
  ASSUME IInv, pc \in Points, pc' \in Points \cup Ended, run' \in RunRecord,
         UNCHANGED callVars,
         pc' \in Points =>
           /\ pc' \in PlanPoints <=> pc \in PlanPoints
           /\ pc' \in CallPoints => pc \in CallPoints
           /\ pc' \in FinalPoints => i = calls
           /\ RequestedTo' = RequestedTo /\ DecidedTo' = DecidedTo
           /\ 1 .. StartedTo \subseteq 1 .. StartedTo' /\ ObservedTo' = ObservedTo,
         kind' = kind, repairs' \in 0 .. MaxRepairs, verdict' \in {"none", "passed", "failed"}
  PROVE  PlanInv'
  <1>0. /\ calls' = calls /\ i' = i /\ requests' = requests /\ decisions' = decisions
        /\ executed' = executed /\ observed' = observed
    BY DEF callVars
  <1>1. TypeOK'
    BY <1>0 DEF IInv, TypeOK, RunTypeOK
  <1>2. LoopInv'
    BY <1>0, PointsAndEnds DEF IInv, LoopInv, Proceeds
  <1>3. RefusalEndsTheRun'
    BY <1>0, NothingRefused DEF RefusalEndsTheRun, Refused
  <1>4. QED
    BY <1>1, <1>2, <1>3 DEF PlanInv

LEMMA SharedPlan ==
  ASSUME IInv, SharedStep, UNCHANGED <<kind, loopVars>>, ReportInv'
  PROVE  PlanInv'
  <1> USE PointsAndEnds, DelegatedAssumption
  <1>0. /\ run' \in RunRecord /\ kind' = kind /\ repairs' \in 0 .. MaxRepairs
        /\ verdict' \in {"none", "passed", "failed"}
    BY DEF ReportInv, RunInv, Safe, Sound, loopVars, IInv, TypeOK
  <1>t. /\ i \in 0 .. MaxCalls /\ calls \in 0 .. MaxCalls /\ Calls = 1 .. MaxCalls
        /\ requests \subseteq Calls /\ executed \subseteq Calls /\ observed \subseteq Calls
        /\ decisions \in [Calls -> Decision] /\ kind \in {"chat", "coder"}
    BY DEF IInv, TypeOK, RunTypeOK, Calls
  <1>1. CASE Receive \/ Frame \/ ConsultAllowed \/ HandlerEnds \/ RejectCall
    <2>1. /\ pc \in Points /\ pc' \in Points \cup Ended /\ UNCHANGED callVars
      BY <1>1 DEF Receive, Frame, ConsultAllowed, HandlerEnds, RejectCall, Continue, Points,
                  ConsultPoints, LLMPoints, Ended
    <2>2. pc' \in Points =>
           /\ pc' \in PlanPoints <=> pc \in PlanPoints
           /\ pc' \in CallPoints => pc \in CallPoints
           /\ pc' \in FinalPoints => pc \in FinalPoints
           /\ RequestedTo' = RequestedTo /\ DecidedTo' = DecidedTo
           /\ (StartedTo' = StartedTo \/ StartedTo' = StartedTo + 1) /\ ObservedTo' = ObservedTo
      BY <1>1, <1>t DEF Receive, Frame, ConsultAllowed, HandlerEnds, RejectCall, Continue, PlanPoints,
             CallPoints, FinalPoints, RequestedTo, DecidedTo, StartedTo, ObservedTo, callVars,
             Points, ConsultPoints, LLMPoints
    <2>3. 1 .. StartedTo \subseteq 1 .. (StartedTo + 1)
      BY <1>t DEF StartedTo
    <2>4. pc' \in Points => 1 .. StartedTo \subseteq 1 .. StartedTo'
      BY <2>2, <2>3
    <2>5. pc \in FinalPoints => i = calls
      BY <2>1 DEF IInv, LoopInv
    <2>6. QED
      BY <1>0, <2>1, <2>2, <2>4, <2>5, SamePlan
  <1>2. CASE ConsultDenied \/ PolicyEngineThrows \/ LLMHalts \/ RegistryThrows
    <2>1. pc \in Points /\ pc' \in Ended /\ UNCHANGED callVars
      BY <1>2 DEF ConsultDenied, PolicyEngineThrows, LLMHalts, RegistryThrows, End, Continue,
                  Points, Ended
    <2>2. QED
      BY <1>0, <1>t, <2>1, EndedPlan DEF callVars
  <1>3. CASE RequestAuthority
    <2> DEFINE r == Transition(run, "request_authority")
               s == Transition(RecordStep(r), "validate_authority")
    <2>1. /\ pc = "call_consult" /\ pc \in Points /\ pc \in CallPoints /\ Continue(s, "evaluate")
          /\ requests' = (IF Running(r) THEN requests \cup {i} ELSE requests)
          /\ UNCHANGED <<calls, i, decisions, executed, observed>>
      BY <1>3 DEF RequestAuthority, Points, ConsultPoints, CallPoints
    <2>2. i \in Calls /\ i \in 1 .. calls
      BY <1>t, <2>1 DEF IInv, LoopInv
    <2>3. CASE pc' = "thrown"
      BY <1>0, <1>t, <2>1, <2>2, <2>3, EndedPlan DEF Ended
    <2>4. CASE pc' # "thrown"
      <3>1. pc' = "evaluate" /\ Running(s)
        BY <2>1, <2>4 DEF Continue
      <3>2. Fit(run, "plan")
        BY <2>1 DEF IInv, RunInv, PhaseAt, FinalPoints
      <3>3. Fit(r, "request_authority") /\ Alive(r)
        BY <3>2, EdgesUsed, TransitionFits
      <3> HIDE DEF r
      <3>4. Fit(RecordStep(r), "request_authority") /\ Running(RecordStep(r)) = Running(r)
        BY <3>3, RecordStepFits
      <3>5. Running(r)
        BY <3>1, <3>4, EdgesUsed, TransitionFits
      <3> HIDE DEF s
      <3>6. requests' = requests \cup {i}
        BY <2>1, <3>5 DEF r
      <3>7. requests' = 1 .. i
        <4>1. requests = 1 .. (i - 1)
          BY <2>1 DEF IInv, LoopInv, RequestedTo
        <4>2. i \in Nat /\ i >= 1
          BY <1>t, <2>2
        <4>3. 1 .. (i - 1) \cup {i} = 1 .. i
          BY <4>2
        <4>4. QED
          BY <3>6, <4>1, <4>3
      <3>8. LoopInv'
        BY <1>t, <2>1, <2>2, <3>1, <3>7
           DEF IInv, LoopInv, RequestedTo, DecidedTo, StartedTo, ObservedTo, CallPoints,
               FinalPoints, PlanPoints, Proceeds
      <3>9. TypeOK'
        BY <1>0, <1>t, <2>1, <2>2, <3>1, <3>6 DEF TypeOK, RunTypeOK, Points
      <3>10. RefusalEndsTheRun'
        BY <2>1, NothingRefused DEF RefusalEndsTheRun, Refused
      <3>11. QED
        BY <3>8, <3>9, <3>10 DEF PlanInv
    <2>5. QED
      BY <2>3, <2>4
  <1>4. CASE Refuse
    <2>1. PICK d \in RefusingDecision :
             decisions' = [decisions EXCEPT ![i] = d] /\ End(RefusedRun(run, d))
      BY <1>4 DEF Refuse, RefusedRun, Refusal
    <2>2. /\ pc = "evaluate" /\ pc \in Points /\ pc \in CallPoints
          /\ UNCHANGED <<calls, i, requests, executed, observed>>
      BY <1>4 DEF Refuse, Points, CallPoints
    <2>3. i \in Calls /\ executed \subseteq 1 .. (i - 1)
      BY <1>t, <2>2 DEF IInv, LoopInv, StartedTo
    <2>4. /\ pc' \in Ended
          /\ pc' = "returned" => run'.termination = Refusal(d)
      <3>1. Fit(run, "validate_authority") /\ Alive(run)
        BY <2>2 DEF IInv, RunInv, UncheckedPoints, PhaseAt, FinalPoints, Alive
      <3>2. /\ Fit(RefusedRun(run, d), "audit_seal")
            /\ Running(RefusedRun(run, d)) =>
                  /\ Halted(RefusedRun(run, d))
                  /\ RefusedRun(run, d).completionStatus = Refusal(d)
        BY <3>1, RefusalSeals
      <3>3. /\ pc' \in Ended
            /\ pc' = "returned" => run'.termination = RefusedRun(run, d).completionStatus
        BY <2>1, <3>2, EndedRun DEF Fit, Refusal
      <3>4. pc' = "returned" => Running(RefusedRun(run, d))
        BY <2>1 DEF End, Continue
      <3>5. QED
        BY <3>2, <3>3, <3>4
    <2>5. RefusalEndsTheRun'
      <3>1. SUFFICES ASSUME NEW c \in Calls, Refused(c)'
                     PROVE  /\ pc' \in Ended /\ i' = c
                            /\ \A e \in c .. calls' : e \notin executed'
                            /\ pc' = "returned" => run'.termination = Refusal(decisions'[c])
        BY DEF RefusalEndsTheRun, Refusal
      <3>2. c = i /\ decisions'[c] = d
        BY <1>t, <2>1, <2>2, <2>3, <3>1, NothingRefused DEF Refused
      <3>3. \A e \in c .. calls' : e \notin executed'
        BY <1>t, <2>2, <2>3, <3>2
      <3>4. QED
        BY <2>2, <2>4, <3>2, <3>3
    <2>6. TypeOK'
      BY <1>0, <1>t, <2>1, <2>2, <2>4 DEF TypeOK, RunTypeOK, Decision
    <2>7. LoopInv'
      BY <2>4 DEF LoopInv
    <2>8. QED
      BY <2>5, <2>6, <2>7 DEF PlanInv
  <1>5. CASE Delegate
    <2>1. PICK d \in ProceedingDecision : decisions' = [decisions EXCEPT ![i] = d]
      BY <1>5 DEF Delegate
    <2>2. /\ pc = "evaluate" /\ pc \in Points /\ pc \in CallPoints
          /\ pc' \in {"dispatch", "thrown"}
          /\ UNCHANGED <<calls, i, requests, executed, observed>>
      BY <1>5 DEF Delegate, Points, CallPoints, Continue
    <2>3. i \in Calls /\ i \in 1 .. calls
      BY <1>t, <2>2 DEF IInv, LoopInv
    <2>4. TypeOK'
      BY <1>0, <1>t, <2>1, <2>2 DEF TypeOK, RunTypeOK, Decision, Points, Ended
    <2>5. LoopInv'
      <3>1. CASE pc' = "thrown"
        BY <3>1 DEF LoopInv, Ended
      <3>2. CASE pc' = "dispatch"
        <4>1. \A c \in Calls : IF c <= i THEN Proceeds(c)' ELSE decisions'[c] = "none"
          <5>1. TAKE c \in Calls
          <5>2. IF c <= i - 1 THEN Proceeds(c) ELSE decisions[c] = "none"
            BY <2>2 DEF IInv, LoopInv, DecidedTo
          <5>3. CASE c = i
            BY <1>t, <2>1, <2>3, <5>3 DEF Proceeds
          <5>4. CASE c # i
            BY <1>t, <2>1, <2>3, <5>2, <5>4 DEF Proceeds
          <5>5. QED
            BY <5>3, <5>4
        <4>2. QED
          BY <1>t, <2>2, <2>3, <3>2, <4>1
             DEF IInv, LoopInv, RequestedTo, DecidedTo, StartedTo, ObservedTo, CallPoints,
                 FinalPoints, PlanPoints
      <3>3. QED
        BY <2>2, <3>1, <3>2
    <2>6. RefusalEndsTheRun'
      BY <1>t, <2>1, <2>2, <2>3, NothingRefused
         DEF RefusalEndsTheRun, Refused, RefusingDecision, ProceedingDecision
    <2>7. QED
      BY <2>4, <2>5, <2>6 DEF PlanInv
  <1>6. CASE StartHandler
    <2>1. /\ pc = "dispatch" /\ pc \in Points /\ pc \in CallPoints /\ pc' = "running"
          /\ executed' = executed \cup {i}
          /\ UNCHANGED <<calls, i, requests, decisions, observed>>
      BY <1>6 DEF StartHandler, Points, CallPoints
    <2>2. i \in Calls /\ i \in 1 .. calls
      BY <1>t, <2>1 DEF IInv, LoopInv
    <2>3. TypeOK'
      BY <1>0, <1>t, <2>1, <2>2 DEF TypeOK, RunTypeOK, Points
    <2>4. LoopInv'
      BY <1>t, <2>1, <2>2 DEF IInv, LoopInv, RequestedTo, DecidedTo, StartedTo, ObservedTo,
                              CallPoints, FinalPoints, PlanPoints, Proceeds
    <2>5. RefusalEndsTheRun'
      BY <2>1, NothingRefused DEF RefusalEndsTheRun, Refused
    <2>6. QED
      BY <2>3, <2>4, <2>5 DEF PlanInv
  <1>7. CASE Observe
    <2>1. /\ pc = "observe_consult" /\ pc \in Points /\ pc \in CallPoints
          /\ pc' \in {"critique_consult", "thrown"}
          /\ observed' = observed \cup {i}
          /\ UNCHANGED <<calls, i, requests, decisions, executed>>
      BY <1>7 DEF Observe, Points, ConsultPoints, CallPoints, Continue
    <2>2. i \in Calls /\ i \in 1 .. calls
      BY <1>t, <2>1 DEF IInv, LoopInv
    <2>3. TypeOK'
      BY <1>0, <1>t, <2>1, <2>2 DEF TypeOK, RunTypeOK, Points, ConsultPoints, Ended
    <2>4. LoopInv'
      <3>1. CASE pc' = "thrown"
        BY <3>1 DEF LoopInv, Ended
      <3>2. CASE pc' = "critique_consult"
        BY <1>t, <2>1, <2>2, <3>2
           DEF IInv, LoopInv, RequestedTo, DecidedTo, StartedTo, ObservedTo, CallPoints,
               FinalPoints, PlanPoints, Proceeds
      <3>3. QED
        BY <2>1, <3>1, <3>2
    <2>5. RefusalEndsTheRun'
      BY <2>1, NothingRefused DEF RefusalEndsTheRun, Refused
    <2>6. QED
      BY <2>3, <2>4, <2>5 DEF PlanInv
  <1>8. QED
    BY <1>1, <1>2, <1>3, <1>4, <1>5, <1>6, <1>7
       DEF SharedStep, FrameStep, ConsultStep, CallStep

(* The head of the loop moves on to the next call, or the run ends.        *)
LEMMA NextCallPlan ==
  ASSUME IInv, pc = "critique_llm", NEW x, NextCall(x), run' \in RunRecord,
         kind' = kind, repairs' \in 0 .. MaxRepairs, verdict' \in {"none", "passed", "failed"}
  PROVE  PlanInv'
  <1> USE PointsAndEnds, DelegatedAssumption
  <1>0. /\ i \in 0 .. MaxCalls /\ calls \in 0 .. MaxCalls /\ Calls = 1 .. MaxCalls
        /\ requests \subseteq Calls /\ executed \subseteq Calls /\ observed \subseteq Calls
        /\ decisions \in [Calls -> Decision] /\ kind \in {"chat", "coder"}
    BY DEF IInv, TypeOK, RunTypeOK, Calls
  <1>1. /\ i < calls /\ UNCHANGED <<calls, requests, decisions, executed, observed>>
        /\ \/ pc' \in Ended /\ i' = i
           \/ pc' \in {"call_consult", "thrown"} /\ i' = i + 1
    BY DEF NextCall, End, Continue, Ended
  <1>2. /\ pc \in Points /\ pc \in CallPoints
        /\ requests = 1 .. i /\ executed \subseteq 1 .. i /\ observed = 1 .. i
        /\ \A c \in Calls : IF c <= i THEN Proceeds(c) ELSE decisions[c] = "none"
    BY DEF IInv, LoopInv, Points, LLMPoints, CallPoints, RequestedTo, StartedTo, ObservedTo,
           DecidedTo
  <1>3. CASE pc' \in Ended /\ i' = i
    BY <1>0, <1>1, <1>2, <1>3, EndedPlan
  <1>4. CASE pc' \in {"call_consult", "thrown"} /\ i' = i + 1
    <2>1. TypeOK'
      BY <1>0, <1>1, <1>4 DEF TypeOK, RunTypeOK, Points, ConsultPoints, Ended
    <2>2. LoopInv'
      <3>1. CASE pc' = "thrown"
        BY <3>1 DEF LoopInv, Ended
      <3>2. CASE pc' = "call_consult"
        <4>1. i' - 1 = i /\ i' \in 1 .. calls'
          BY <1>0, <1>1, <1>4
        <4>2. /\ RequestedTo' = i /\ DecidedTo' = i /\ StartedTo' = i /\ ObservedTo' = i
          BY <3>2, <4>1 DEF RequestedTo, DecidedTo, StartedTo, ObservedTo
        <4>3. pc' \in CallPoints
          BY <3>2 DEF CallPoints
        <4>4. QED
          BY <1>1, <1>2, <4>1, <4>2, <4>3 DEF LoopInv, Proceeds
      <3>3. QED
        BY <1>4, <3>1, <3>2
    <2>3. RefusalEndsTheRun'
      BY <1>1, <1>2, NothingRefused DEF RefusalEndsTheRun, Refused
    <2>4. QED
      BY <2>1, <2>2, <2>3 DEF PlanInv
  <1>5. QED
    BY <1>1, <1>3, <1>4

(* The last call leaves the loop for the answer, or the run ends.          *)
LEMMA LeavePlan ==
  ASSUME IInv, pc \in {"critique_llm", "finalize_llm"}, pc = "critique_llm" => i = calls,
         pc' \in Ended \cup {"finalize_consult"},
         UNCHANGED callVars, run' \in RunRecord,
         kind' = kind, repairs' \in 0 .. MaxRepairs, verdict' \in {"none", "passed", "failed"}
  PROVE  PlanInv'
  <1>1. pc \in Points /\ pc' \in Points \cup Ended
    BY DEF Points, LLMPoints, ConsultPoints
  <1>2. i = calls
    BY <1>1 DEF IInv, LoopInv, FinalPoints
  <1>3. pc' \in Points =>
           /\ pc' \in FinalPoints /\ pc \notin PlanPoints
           /\ RequestedTo' = RequestedTo /\ DecidedTo' = DecidedTo
           /\ StartedTo' = StartedTo /\ ObservedTo' = ObservedTo
    BY PointsAndEnds DEF RequestedTo, DecidedTo, StartedTo, ObservedTo, callVars, FinalPoints,
                         PlanPoints
  <1>4. QED
    BY <1>1, <1>2, <1>3, PointsAndEnds, SamePlan

LEMMA ChatPlan ==
  ASSUME IInv, ChatStep, UNCHANGED <<kind, loopVars>>, ReportInv'
  PROVE  PlanInv'
  <1> USE DelegatedAssumption
  <1>0. /\ run' \in RunRecord /\ kind' = kind /\ repairs' \in 0 .. MaxRepairs
        /\ verdict' \in {"none", "passed", "failed"}
    BY DEF ReportInv, RunInv, Safe, Sound, loopVars, IInv, TypeOK
  <1>1. CASE ChatPlanWithoutTools
    <2>1. FreshPlan(0) /\ pc' \in Ended \cup FinalPoints
      BY <1>1 DEF ChatPlanWithoutTools, Continue, Ended, FinalPoints
    <2>2. QED
      BY <1>0, <2>1, FreshPlanKept
  <1>2. CASE ChatPlanWithTools
    <2>1. PICK n \in Calls : FreshPlan(n) /\ pc' \in Ended \cup {"call_consult"}
      BY <1>2 DEF ChatPlanWithTools, EndOr, End, Continue, Ended
    <2>2. n \in 0 .. MaxCalls /\ n # 0
      BY DEF Calls
    <2>3. QED
      BY <1>0, <2>1, <2>2, FreshPlanKept
  <1>3. CASE ChatCritiqueThenNextCall
    BY <1>0, <1>3, NextCallPlan DEF ChatCritiqueThenNextCall
  <1>4. CASE ChatCritiqueThenFinalize
    <2>1. /\ pc = "critique_llm" /\ i = calls /\ UNCHANGED callVars
          /\ pc' \in Ended \cup {"finalize_consult"}
      BY <1>4 DEF ChatCritiqueThenFinalize, LeaveLoop, End, Continue, Ended
    <2>2. QED
      BY <1>0, <2>1, LeavePlan
  <1>5. CASE ChatFinalize
    <2>1. pc = "finalize_llm" /\ UNCHANGED callVars /\ pc' \in Ended
      BY <1>5 DEF ChatFinalize, End, Continue, Ended
    <2>2. QED
      BY <1>0, <2>1, LeavePlan
  <1>6. QED
    BY <1>1, <1>2, <1>3, <1>4, <1>5 DEF ChatStep

LEMMA CoderPlan ==
  ASSUME IInv, CoderStep, UNCHANGED kind, ReportInv'
  PROVE  PlanInv'
  <1> USE DelegatedAssumption, CoderAssumption
  <1>0. /\ run' \in RunRecord /\ kind' = kind /\ repairs \in 0 .. MaxRepairs
        /\ verdict \in {"none", "passed", "failed"}
    BY DEF ReportInv, RunInv, Safe, Sound, IInv, TypeOK
  <1>1. CASE CoderPlanWithoutTools
    <2>1. /\ FreshPlan(0) /\ pc' \in Ended \cup FinalPoints
          /\ verdict' = "passed" /\ repairs' = repairs
      BY <1>1 DEF CoderPlanWithoutTools, LeaveLoop, End, Continue, Ended, FinalPoints
    <2>2. QED
      BY <1>0, <2>1, FreshPlanKept
  <1>2. CASE CoderPlanWithTools
    <2>1. PICK n \in Calls : FreshPlan(n) /\ pc' \in Ended \cup {"call_consult"}
      BY <1>2 DEF CoderPlanWithTools, EndOr, End, Continue, Ended
    <2>2. n \in 0 .. MaxCalls /\ n # 0
      BY DEF Calls
    <2>3. verdict' = verdict /\ repairs' = repairs
      BY <1>2 DEF CoderPlanWithTools, loopVars
    <2>4. QED
      BY <1>0, <2>1, <2>2, <2>3, FreshPlanKept
  <1>3. CASE CoderCritiqueThenNextCall
    <2>1. /\ pc = "critique_llm" /\ \E x \in Charged : NextCall(x)
          /\ verdict' \in {"passed", "failed"} /\ repairs' = repairs
      BY <1>3 DEF CoderCritiqueThenNextCall
    <2>2. QED
      BY <1>0, <2>1, NextCallPlan
  <1>4. CASE CritiquePasses \/ GiveUp
    <2>1. /\ pc = "critique_llm" /\ i = calls /\ UNCHANGED callVars
          /\ pc' \in Ended \cup {"finalize_consult"}
          /\ verdict' \in {"passed", "failed"} /\ repairs' = repairs
      BY <1>4 DEF CritiquePasses, GiveUp, LastCritique, LeaveLoop, End, Continue, Ended
    <2>2. QED
      BY <1>0, <2>1, LeavePlan
  <1>5. CASE Repair
    <2>1. /\ FreshPlan(0) /\ pc' \in Ended \cup PlanPoints
          /\ verdict' = "failed" /\ repairs' = repairs + 1 /\ repairs < MaxRepairs
      BY <1>5 DEF Repair, LastCritique, Continue, Ended, PlanPoints
    <2>2. repairs' \in 0 .. MaxRepairs
      BY <1>0, <2>1
    <2>3. QED
      BY <1>0, <2>1, <2>2, FreshPlanKept
  <1>6. CASE CoderFinalize
    <2>1. pc = "finalize_llm" /\ UNCHANGED callVars /\ pc' \in Ended
          /\ verdict' = verdict /\ repairs' = repairs
      BY <1>6 DEF CoderFinalize, End, Continue, Ended, loopVars
    <2>2. QED
      BY <1>0, <2>1, LeavePlan
  <1>7. QED
    BY <1>1, <1>2, <1>3, <1>4, <1>5, <1>6 DEF CoderStep

LEMMA StepPlan ==
  ASSUME IInv, RunStep
  PROVE  PlanInv'
  BY StepReport, SharedPlan, ChatPlan, CoderPlan DEF RunStep, ChatRunStep, CoderRunStep

LEMMA NextIInv == IInv /\ [RunStep \/ Terminated]_vars => IInv'
  <1> SUFFICES ASSUME IInv, [RunStep \/ Terminated]_vars PROVE IInv'
    OBVIOUS
  <1>1. CASE RunStep
    BY <1>1, StepReport, DispatchStep, StepPlan DEF IInv, ReportInv, PlanInv
  <1>2. CASE UNCHANGED vars
    <2>1. UNCHANGED <<pc, run, calls, i, requests, decisions, executed, observed, repairs,
                      verdict, kind>>
      BY <1>2 DEF vars, runVars, loopVars
    <2>2. TypeOK' /\ RunInv' /\ VerdictInv' /\ DispatchInv'
      BY <2>1 DEF IInv, TypeOK, RunTypeOK, RunInv, VerdictInv, FailureFits, DispatchInv
    <2>3. LoopInv'
      BY <2>1 DEF IInv, LoopInv, RequestedTo, DecidedTo, StartedTo, ObservedTo, Proceeds
    <2>4. ReturnsSealed' /\ ReportMatchesTheRun' /\ RefusalEndsTheRun'
      BY <2>1 DEF IInv, ReturnsSealed, ReportMatchesTheRun, RefusalEndsTheRun, Refused, Proceeds
    <2>5. QED
      BY <2>2, <2>3, <2>4 DEF IInv
  <1>3. QED
    BY <1>1, <1>2 DEF Terminated

LEMMA AlwaysIInv == Spec => []IInv
  BY InitIInv, NextIInv, PTL DEF Spec
-----------------------------------------------------------------------------
(* No run of either pipeline asks the FSM for an edge it does not have,    *)
(* returns unsealed, goes on after a refusal or overspends a hard budget.  *)
THEOREM RunTheorem == Spec => []RunSafety
  <1>1. IInv => RunSafety
    BY DEF IInv, RunInv, Safe, Sound, NotOverspent, RunSafety, PathsFollowTheFSM,
           LoopBudgetNeverOverspent, HardBudget
  <1>2. QED
    BY <1>1, AlwaysIInv, PTL

(* What a run reports is what it has done.                                 *)
THEOREM ReportTheorem == Spec => []ReportMatchesTheRun
  <1>1. IInv => ReportMatchesTheRun
    BY DEF IInv
  <1>2. QED
    BY <1>1, AlwaysIInv, PTL
-----------------------------------------------------------------------------
(* What a stopped run may still do: it waits for the policy engine before  *)
(* a call, or for the registry.                                            *)
StoppedStep == ConsultDenied \/ PolicyEngineThrows \/ RequestAuthority \/ RejectCall
                 \/ StartHandler \/ RegistryThrows \/ HandlerEnds

LEMMA StoppedSteps ==
  ASSUME IInv, RunStep, Halted(run)
  PROVE  pc \in UncheckedPoints /\ StoppedStep
  <1>1. pc \in Points
    BY DEF RunStep, ChatRunStep, CoderRunStep, SharedStep, FrameStep, ConsultStep,
         CallStep, ChatStep, CoderStep, Receive, Frame, ConsultAllowed, ConsultDenied,
         PolicyEngineThrows, LLMHalts, RequestAuthority, Refuse, Delegate, RejectCall,
         StartHandler, RegistryThrows,
         HandlerEnds, Observe, ChatPlanWithoutTools, ChatPlanWithTools,
         ChatCritiqueThenNextCall, ChatCritiqueThenFinalize, ChatFinalize,
         CoderPlanWithoutTools, CoderPlanWithTools, CoderCritiqueThenNextCall,
         CritiquePasses, GiveUp, Repair, CoderFinalize, LastCritique, Points, ConsultPoints,
         LLMPoints
  <1>2. pc \in UncheckedPoints
    BY <1>1 DEF IInv, RunInv
  <1>3. QED
    BY <1>2
       DEF UncheckedPoints, StoppedStep, RunStep, ChatRunStep, CoderRunStep, SharedStep,
         FrameStep, ConsultStep,
         CallStep, ChatStep, CoderStep, Receive, Frame, ConsultAllowed,
         LLMHalts, Refuse, Delegate, Observe, ChatPlanWithoutTools, ChatPlanWithTools,
         ChatCritiqueThenNextCall, ChatCritiqueThenFinalize, ChatFinalize,
         CoderPlanWithoutTools, CoderPlanWithTools, CoderCritiqueThenNextCall,
         CritiquePasses, GiveUp, Repair, CoderFinalize, LastCritique, LLMPoints

(* A stop is not undone; at most the handler of the call that took the     *)
(* last of the tool budget is started after it.                            *)
THEOREM StopTheorem == Spec => StoppedRunWindsDown
  <1> DEFINE WindsDown ==
        Halted(run) =>
          /\ Halted(run')
          /\ requests' = requests /\ decisions' = decisions /\ observed' = observed
          /\ \A c \in executed' \ executed :
               c = i /\ Proceeds(c) /\ run.remaining["toolCalls"] = 0
  <1>1. IInv /\ [RunStep \/ Terminated]_vars => [WindsDown]_vars
    <2> SUFFICES ASSUME IInv, RunStep, Halted(run) PROVE WindsDown
      BY DEF Terminated
    <2>1. pc \in UncheckedPoints /\ pc \in Points /\ StoppedStep
      BY StoppedSteps DEF UncheckedPoints, Points, ConsultPoints
    <2>2. Running(run) /\ Safe(run) /\ run \in RunRecord /\ Fit(run, PhaseAt(pc))
      BY <2>1 DEF IInv, RunInv, Safe, Sound
    <2>3. ASSUME NEW to \in Phase
          PROVE  Transition(run, to) = [run EXCEPT !.error = "TerminalStateError"]
      BY <2>2 DEF Transition
    <2>4. CASE ConsultDenied \/ RegistryThrows
      <3>1. PICK status \in {"denied", "fail_safe"} :
              End(ForceStop(run, status)) /\ UNCHANGED callVars
        BY <2>4 DEF ConsultDenied, RegistryThrows
      <3>2. status \in CompletionStatus /\ status # "running"
        BY DEF CompletionStatus
      <3> DEFINE r == ForceStop(run, status)
      <3>3. Halted(r) /\ Running(r) /\ r \in RunRecord
        BY <2>2, <3>2, ForceStopFits DEF Fit, Safe, Sound
      <3> HIDE DEF r
      <3>4. run' = FinalizeTrace(r)
        BY <3>1, <3>3 DEF End, Continue, r
      <3>5. Halted(run')
        BY <3>3, <3>4 DEF FinalizeTrace, Halted, RunRecord
      <3>6. QED
        BY <3>1, <3>5 DEF callVars
    <2>5. CASE PolicyEngineThrows
      BY <2>5 DEF PolicyEngineThrows, Continue, callVars
    <2>6. CASE RequestAuthority
      <3> DEFINE r == [run EXCEPT !.error = "TerminalStateError"]
      <3>1. Transition(run, "request_authority") = r
        BY <2>3 DEF Phase
      <3>2. ~Running(r) /\ Halted(r)
        BY <2>2 DEF Running, Halted, RunRecord
      <3> HIDE DEF r
      <3>3. Transition(RecordStep(r), "validate_authority") = r
        BY <3>2 DEF RecordStep, Record, Transition
      <3>4. run' = r /\ requests' = requests /\ UNCHANGED <<decisions, executed, observed>>
        BY <2>6, <3>1, <3>2, <3>3 DEF RequestAuthority, Continue
      <3>5. QED
        BY <3>2, <3>4
    <2>7. CASE RejectCall \/ HandlerEnds
      <3>1. run' = [run EXCEPT !.error = "TerminalStateError"] /\ UNCHANGED callVars
        BY <2>3, <2>7 DEF RejectCall, HandlerEnds, Continue, Phase
      <3>2. Halted(run')
        BY <2>2, <3>1 DEF Halted, RunRecord
      <3>3. QED
        BY <3>1, <3>2 DEF callVars
    <2>8. CASE StartHandler
      <3>1. /\ pc = "dispatch" /\ executed' = executed \cup {i}
            /\ UNCHANGED <<run, requests, decisions, observed>>
        BY <2>8 DEF StartHandler
      <3>2. run.remaining["toolCalls"] = 0
        BY <3>1 DEF IInv, DispatchInv
      <3>3. i \in Calls /\ i <= DecidedTo
        BY <2>1, <3>1, DelegatedAssumption
           DEF IInv, LoopInv, TypeOK, RunTypeOK, Calls, CallPoints, DecidedTo
      <3>4. Proceeds(i)
        BY <2>1, <3>3 DEF IInv, LoopInv
      <3>5. QED
        BY <3>1, <3>2, <3>4
    <2>9. QED
      BY <2>1, <2>4, <2>5, <2>6, <2>7, <2>8 DEF StoppedStep
  <1>2. QED
    BY <1>1, AlwaysIInv, PTL DEF Spec, StoppedRunWindsDown
-----------------------------------------------------------------------------
(* How a suspended run looks to GovernedRun.                               *)
LEMMA StageAt ==
  ASSUME IInv, pc \in Points, NEW c \in Calls
  PROVE  /\ OutcomeOf = "running"
         /\ c <= ObservedTo => StageOf(c) = "receipted"
         /\ c > RequestedTo => StageOf(c) = "idle"
         /\ c = i /\ pc = "evaluate" => StageOf(c) = "requested"
         /\ c = i /\ pc = "dispatch" => StageOf(c) = "granted"
         /\ c = i /\ pc = "observe_consult" => StageOf(c) \in {"granted", "executed"}
  <1>1. /\ c \in Nat /\ i \in Nat
        /\ ObservedTo <= i /\ StartedTo <= RequestedTo /\ ObservedTo <= RequestedTo
        /\ DecidedTo <= RequestedTo
    BY DelegatedAssumption DEF IInv, TypeOK, RunTypeOK, Calls, ObservedTo, StartedTo,
                               RequestedTo, DecidedTo
  <1>2. /\ requests = 1 .. RequestedTo /\ executed \subseteq 1 .. StartedTo
        /\ observed = 1 .. ObservedTo
        /\ IF c <= DecidedTo THEN Proceeds(c) ELSE decisions[c] = "none"
    BY DEF IInv, LoopInv
  <1>3. c >= 1 /\ ObservedTo \in Int /\ RequestedTo \in Int /\ StartedTo \in Int
        /\ DecidedTo \in Int
    BY <1>1, DelegatedAssumption DEF Calls, ObservedTo, RequestedTo, StartedTo, DecidedTo
  <1>4. OutcomeOf = "running"
    BY PointsAndEnds DEF OutcomeOf, Ended
  <1>5. ASSUME c <= ObservedTo PROVE StageOf(c) = "receipted"
    <2>1. ObservedTo <= DecidedTo
      BY <1>1 DEF ObservedTo, DecidedTo
    <2>2. c \in observed /\ Proceeds(c)
      BY <1>1, <1>2, <1>3, <1>5, <2>1
    <2>3. QED
      BY <2>2 DEF StageOf, Proceeds, Refused, ProceedingDecision, RefusingDecision
  <1>6. ASSUME c > RequestedTo PROVE StageOf(c) = "idle"
    <2>1. c \notin observed /\ c \notin executed /\ c \notin requests /\ decisions[c] = "none"
      BY <1>1, <1>2, <1>3, <1>6
    <2>2. QED
      BY <2>1 DEF StageOf, Proceeds, Refused, ProceedingDecision, RefusingDecision
  <1>7. ASSUME c = i, pc = "evaluate" PROVE StageOf(c) = "requested"
    <2>1. ObservedTo = i - 1 /\ StartedTo = i - 1 /\ DecidedTo = i - 1 /\ RequestedTo = i
      BY <1>7 DEF ObservedTo, StartedTo, DecidedTo, RequestedTo
    <2>2. c \notin observed /\ c \notin executed /\ c \in requests /\ decisions[c] = "none"
      BY <1>1, <1>2, <1>3, <1>7, <2>1
    <2>3. QED
      BY <2>2 DEF StageOf, Proceeds, Refused, ProceedingDecision, RefusingDecision
  <1>8. ASSUME c = i, pc = "dispatch" PROVE StageOf(c) = "granted"
    <2>1. ObservedTo = i - 1 /\ StartedTo = i - 1 /\ DecidedTo = i
      BY <1>8 DEF ObservedTo, StartedTo, DecidedTo
    <2>2. c \notin observed /\ c \notin executed /\ Proceeds(c)
      BY <1>1, <1>2, <1>3, <1>8, <2>1
    <2>3. QED
      BY <2>2 DEF StageOf, Proceeds, Refused, ProceedingDecision, RefusingDecision
  <1>9. ASSUME c = i, pc = "observe_consult" PROVE StageOf(c) \in {"granted", "executed"}
    <2>1. ObservedTo = i - 1 /\ DecidedTo = i
      BY <1>9 DEF ObservedTo, DecidedTo
    <2>2. c \notin observed /\ Proceeds(c)
      BY <1>1, <1>2, <1>3, <1>9, <2>1
    <2>3. QED
      BY <2>2 DEF StageOf, Proceeds, Refused, ProceedingDecision, RefusingDecision
  <1>10. QED
    BY <1>4, <1>5, <1>6, <1>7, <1>8, <1>9

(* A call moves on, and every other one stays where it is.                 *)
LEMMA CallMoves ==
  ASSUME NEW c \in Calls, NEW from, NEW to, OutcomeOf = "running", StageOf(c) \in from,
         StageOf(c)' = to, \A e \in Calls : e # c => StageOf(e)' = StageOf(e),
         OutcomeOf' \in {"running", "thrown"}, repairs' = repairs
  PROVE  Promise!Move(c, from, to)
  BY DEF Promise!Move

LEMMA CallRefused ==
  ASSUME NEW c \in Calls, OutcomeOf = "running", StageOf(c) = "requested",
         StageOf(c)' = "refused", \A e \in Calls : e # c => StageOf(e)' = StageOf(e),
         OutcomeOf' \in {"stopped", "thrown"}, repairs' = repairs
  PROVE  Promise!Refuse(c)
  BY DEF Promise!Refuse

(* What a step does not touch does not move a call.                        *)
LEMMA StageStays ==
  ASSUME NEW c, c \in requests' <=> c \in requests, c \in executed' <=> c \in executed,
         c \in observed' <=> c \in observed, decisions'[c] = decisions[c],
         decisions[c] \in Decision, decisions[c] = "none" => c \notin executed \cup observed
  PROVE  StageOf(c)' = StageOf(c)
  <1>1. CASE c \in observed
    BY <1>1 DEF StageOf, Proceeds, Refused, Decision, ProceedingDecision, RefusingDecision
  <1>2. CASE c \notin observed /\ c \in executed
    BY <1>2 DEF StageOf, Proceeds, Refused, Decision, ProceedingDecision, RefusingDecision
  <1>3. CASE c \notin observed /\ c \notin executed
    BY <1>3 DEF StageOf, Proceeds, Refused, Decision, ProceedingDecision, RefusingDecision
  <1>4. QED
    BY <1>1, <1>2, <1>3

(* Nothing is started or observed without a decision.                      *)
LEMMA DecidedBefore ==
  ASSUME IInv, pc \in Points, NEW c \in Calls
  PROVE  decisions[c] \in Decision /\ (decisions[c] = "none" => c \notin executed \cup observed)
  <1>1. decisions[c] \in Decision /\ i \in Nat
    BY DelegatedAssumption DEF IInv, TypeOK, RunTypeOK
  <1>2. StartedTo <= DecidedTo /\ ObservedTo <= DecidedTo
    BY <1>1 DEF StartedTo, DecidedTo, ObservedTo
  <1>3. executed \subseteq 1 .. StartedTo /\ observed = 1 .. ObservedTo
    BY DEF IInv, LoopInv
  <1>4. decisions[c] = "none" => ~(c <= DecidedTo)
    BY DEF IInv, LoopInv, Proceeds, ProceedingDecision
  <1>5. c \in Int /\ StartedTo \in Int /\ ObservedTo \in Int /\ DecidedTo \in Int
    BY <1>1, DelegatedAssumption DEF Calls, StartedTo, ObservedTo, DecidedTo
  <1>6. QED
    BY <1>1, <1>2, <1>3, <1>4, <1>5

(* A step that moves no call goes on, stops the run, or succeeds.          *)
LEMMA NoCallMoves ==
  ASSUME IInv, ReportMatchesTheRun', pc \in Points, repairs' = repairs,
         \A c \in Calls : StageOf(c)' = StageOf(c), calls' = calls, observed' = observed
  PROVE  Promise!GNext \/ UNCHANGED Promise!gvars
  <1>1. OutcomeOf = "running"
    BY PointsAndEnds DEF OutcomeOf, Ended
  <1>2. OutcomeOf' \in {"running", "stopped", "thrown", "succeeded"}
    BY DEF OutcomeOf
  <1>3. [c \in Calls |-> StageOf(c)]' = [c \in Calls |-> StageOf(c)]
    OBVIOUS
  <1>4. CASE OutcomeOf' = "running"
    BY <1>1, <1>3, <1>4 DEF Promise!gvars
  <1>5. CASE OutcomeOf' \in {"stopped", "thrown"}
    <2>1. Promise!Stop
      BY <1>1, <1>3, <1>5 DEF Promise!Stop
    <2>2. QED
      BY <2>1 DEF Promise!GNext
  <1>6. CASE OutcomeOf' = "succeeded"
    <2>1. pc' = "returned" /\ run'.termination = "succeeded"
      BY <1>6 DEF OutcomeOf
    <2>2. \A c \in 1 .. calls : c \in observed
      BY <2>1 DEF ReportMatchesTheRun
    <2>3. ASSUME NEW c \in Calls PROVE StageOf(c) \in {"idle", "receipted"}
      <3>1. c \in Nat /\ c >= 1 /\ i \in Nat /\ calls \in Nat
        BY DelegatedAssumption DEF IInv, TypeOK, RunTypeOK, Calls
      <3>2. CASE c <= calls
        <4>1. c \in observed /\ decisions[c] # "none"
          BY <2>2, <3>1, <3>2, DecidedBefore
        <4>2. QED
          BY <4>1 DEF StageOf
      <3>3. CASE c > calls
        <4>1. i <= calls
          BY <3>1, PointsAndEnds DEF IInv, LoopInv
        <4>2. c > RequestedTo
          BY <3>1, <3>3, <4>1 DEF RequestedTo
        <4>3. QED
          BY <4>2, StageAt
      <3>4. QED
        BY <3>1, <3>2, <3>3
    <2>4. Promise!Settled
      BY <2>3 DEF Promise!Settled
    <2>5. Promise!Succeed
      BY <1>1, <1>3, <1>6, <2>4 DEF Promise!Succeed
    <2>6. QED
      BY <2>5 DEF Promise!GNext
  <1>7. QED
    BY <1>2, <1>4, <1>5, <1>6

(* A plan made before any call is processed moves no call either.          *)
LEMMA FreshStages ==
  ASSUME NEW n, FreshPlan(n)
  PROVE  \A c \in Calls : StageOf(c)' = "idle"
  BY DEF FreshPlan, StageOf, Proceeds, Refused, ProceedingDecision, RefusingDecision

LEMMA PlanMaps ==
  ASSUME IInv, ReportMatchesTheRun', pc = "plan_llm", NEW n, FreshPlan(n), repairs' = repairs
  PROVE  Promise!GNext \/ UNCHANGED Promise!gvars
  <1>1. pc \in Points /\ pc \in PlanPoints
    BY DEF Points, LLMPoints, PlanPoints
  <1>2. ASSUME NEW c \in Calls PROVE StageOf(c) = "idle" /\ StageOf(c)' = "idle"
    <2>1. i = 0 /\ c > RequestedTo
      BY <1>1, DelegatedAssumption DEF IInv, LoopInv, RequestedTo, Calls
    <2>2. QED
      BY <1>1, <2>1, StageAt, FreshStages
  <1>3. OutcomeOf = "running"
    BY <1>1, PointsAndEnds DEF OutcomeOf, Ended
  <1>4. OutcomeOf' \in {"running", "stopped", "thrown", "succeeded"}
    BY DEF OutcomeOf
  <1>5. [c \in Calls |-> StageOf(c)]' = [c \in Calls |-> StageOf(c)]
    BY <1>2
  <1>6. CASE OutcomeOf' = "running"
    BY <1>3, <1>5, <1>6 DEF Promise!gvars
  <1>7. CASE OutcomeOf' \in {"stopped", "thrown"}
    BY <1>3, <1>5, <1>7 DEF Promise!GNext, Promise!Stop
  <1>8. CASE OutcomeOf' = "succeeded"
    <2>1. Promise!Settled
      BY <1>2 DEF Promise!Settled
    <2>2. QED
      BY <1>3, <1>5, <1>8, <2>1 DEF Promise!GNext, Promise!Succeed
  <1>9. QED
    BY <1>4, <1>6, <1>7, <1>8

(* A step that leaves the calls of the plan alone.                         *)
LEMMA QuietMaps ==
  ASSUME IInv, ReportMatchesTheRun', pc \in Points,
         UNCHANGED <<calls, requests, decisions, executed, observed, repairs>>
  PROVE  Promise!GNext \/ UNCHANGED Promise!gvars
  <1>1. \A c \in Calls : StageOf(c)' = StageOf(c)
    BY DecidedBefore, StageStays
  <1>2. QED
    BY <1>1, NoCallMoves

(* The stages of the other calls when one is dealt with.                   *)
LEMMA OthersStay ==
  ASSUME IInv, pc \in Points, NEW c, NEW d,
         requests' = requests \/ requests' = requests \cup {c},
         executed' = executed \/ executed' = executed \cup {c},
         observed' = observed \/ observed' = observed \cup {c},
         decisions' = decisions \/ decisions' = [decisions EXCEPT ![c] = d]
  PROVE  \A e \in Calls : e # c => StageOf(e)' = StageOf(e)
  <1>1. ASSUME NEW e \in Calls, e # c PROVE StageOf(e)' = StageOf(e)
    <2>1. decisions'[e] = decisions[e]
      BY <1>1 DEF IInv, TypeOK, RunTypeOK
    <2>2. QED
      BY <1>1, <2>1, DecidedBefore, StageStays
  <1>2. QED
    BY <1>1

LEMMA CallMaps ==
  ASSUME IInv, IInv', CallStep, UNCHANGED <<kind, loopVars>>
  PROVE  Promise!GNext \/ UNCHANGED Promise!gvars
  <1> USE DelegatedAssumption
  <1>t. /\ i \in Nat /\ calls \in 0 .. MaxCalls /\ Calls = 1 .. MaxCalls
        /\ decisions \in [Calls -> Decision] /\ repairs' = repairs /\ ReportMatchesTheRun'
    BY DEF IInv, TypeOK, RunTypeOK, Calls, loopVars
  <1>1. CASE RejectCall \/ RegistryThrows \/ HandlerEnds
    <2>1. pc \in Points /\ UNCHANGED callVars
      BY <1>1 DEF RejectCall, RegistryThrows, HandlerEnds, Points
    <2>2. QED
      BY <1>t, <2>1, QuietMaps DEF callVars
  <1>2. CASE RequestAuthority
    <2>1. /\ pc = "call_consult" /\ pc' \in {"evaluate", "thrown"}
          /\ requests' \in {requests, requests \cup {i}}
          /\ UNCHANGED <<calls, i, decisions, executed, observed>>
      BY <1>2 DEF RequestAuthority, Continue
    <2>2. pc \in Points /\ pc \in CallPoints
      BY <2>1 DEF Points, ConsultPoints, CallPoints
    <2>3. i \in Calls
      BY <1>t, <2>2 DEF IInv, LoopInv
    <2>4. CASE requests' = requests
      BY <1>t, <2>1, <2>2, <2>4, QuietMaps
    <2>5. CASE requests' = requests \cup {i}
      <3>1. /\ OutcomeOf = "running"
            /\ \A c \in Calls : (c < i => StageOf(c) = "receipted")
            /\ StageOf(i) = "idle"
        <4>1. ObservedTo = i - 1 /\ RequestedTo = i - 1
          BY <2>1 DEF ObservedTo, RequestedTo
        <4>2. \A c \in Calls : c \in Nat /\ (c < i => c <= ObservedTo)
          BY <1>t, <4>1
        <4>3. i > RequestedTo
          BY <1>t, <4>1
        <4>4. QED
          BY <2>2, <2>3, <4>2, <4>3, StageAt
      <3>2. StageOf(i)' = "requested"
        <4>1. decisions[i] = "none" /\ i \notin executed /\ i \notin observed
          BY <1>t, <2>1, <2>2, <2>3 DEF IInv, LoopInv, DecidedTo, StartedTo, ObservedTo
        <4>2. QED
          BY <2>1, <2>5, <4>1
             DEF StageOf, Proceeds, Refused, ProceedingDecision, RefusingDecision
      <3>3. OutcomeOf' \in {"running", "thrown"}
        BY <2>1 DEF OutcomeOf
      <3>4. Promise!Move(i, {"idle"}, "requested")
        BY <1>t, <2>1, <2>2, <2>3, <3>1, <3>2, <3>3, OthersStay, CallMoves
      <3>5. Promise!Request(i)
        BY <3>1, <3>4 DEF Promise!Request
      <3>6. QED
        BY <2>3, <3>5 DEF Promise!GNext
    <2>6. QED
      BY <2>1, <2>4, <2>5
  <1>3. CASE Refuse
    <2>1. PICK d \in RefusingDecision : decisions' = [decisions EXCEPT ![i] = d]
      BY <1>3 DEF Refuse
    <2>2. /\ pc = "evaluate" /\ pc \in Points /\ pc \in CallPoints
          /\ pc' \in {"returned", "thrown"}
          /\ UNCHANGED <<calls, i, requests, executed, observed>>
      BY <1>3 DEF Refuse, Points, CallPoints, End, Continue
    <2>3. i \in Calls
      BY <1>t, <2>2 DEF IInv, LoopInv
    <2>4. OutcomeOf = "running" /\ StageOf(i) = "requested"
      BY <2>2, <2>3, StageAt
    <2>5. StageOf(i)' = "refused"
      <3>1. decisions'[i] = d /\ i \notin executed /\ i \notin observed
        BY <1>t, <2>1, <2>2, <2>3 DEF IInv, LoopInv, StartedTo, ObservedTo
      <3>2. QED
        BY <2>2, <3>1 DEF StageOf, Proceeds, Refused, ProceedingDecision, RefusingDecision
    <2>6. OutcomeOf' \in {"stopped", "thrown"}
      <3>1. Refused(i)'
        BY <1>t, <2>1, <2>2, <2>3 DEF Refused
      <3>2. pc' = "returned" => run'.termination # "succeeded"
        BY <2>2, <2>3, <3>1 DEF IInv, RefusalEndsTheRun
      <3>3. QED
        BY <2>2, <3>2 DEF OutcomeOf
    <2>7. \A e \in Calls : e # i => StageOf(e)' = StageOf(e)
      BY <2>1, <2>2, OthersStay
    <2>8. Promise!Refuse(i)
      BY <1>t, <2>2, <2>3, <2>4, <2>5, <2>6, <2>7, CallRefused
    <2>9. QED
      BY <2>3, <2>8 DEF Promise!GNext
  <1>4. CASE Delegate
    <2>1. PICK d \in ProceedingDecision : decisions' = [decisions EXCEPT ![i] = d]
      BY <1>4 DEF Delegate
    <2>2. /\ pc = "evaluate" /\ pc \in Points /\ pc \in CallPoints
          /\ pc' \in {"dispatch", "thrown"}
          /\ UNCHANGED <<calls, i, requests, executed, observed>>
      BY <1>4 DEF Delegate, Points, CallPoints, Continue
    <2>3. i \in Calls
      BY <1>t, <2>2 DEF IInv, LoopInv
    <2>4. OutcomeOf = "running" /\ StageOf(i) = "requested"
      BY <2>2, <2>3, StageAt
    <2>5. StageOf(i)' = "granted"
      <3>1. decisions'[i] = d /\ i \notin executed /\ i \notin observed
        BY <1>t, <2>1, <2>2, <2>3 DEF IInv, LoopInv, StartedTo, ObservedTo
      <3>2. QED
        BY <2>2, <3>1 DEF StageOf, Proceeds, Refused, ProceedingDecision, RefusingDecision
    <2>6. OutcomeOf' \in {"running", "thrown"}
      BY <2>2 DEF OutcomeOf
    <2>7. \A e \in Calls : e # i => StageOf(e)' = StageOf(e)
      BY <2>1, <2>2, OthersStay
    <2>8. Promise!Grant(i)
      <3>1. Promise!Move(i, {"requested"}, "granted")
        BY <1>t, <2>2, <2>3, <2>4, <2>5, <2>6, <2>7, CallMoves
      <3>2. QED
        BY <3>1 DEF Promise!Grant
    <2>9. QED
      BY <2>3, <2>8 DEF Promise!GNext
  <1>5. CASE StartHandler
    <2>1. /\ pc = "dispatch" /\ pc \in Points /\ pc \in CallPoints /\ pc' = "running"
          /\ executed' = executed \cup {i}
          /\ UNCHANGED <<calls, i, requests, decisions, observed>>
      BY <1>5 DEF StartHandler, Points, CallPoints
    <2>2. i \in Calls
      BY <1>t, <2>1 DEF IInv, LoopInv
    <2>3. OutcomeOf = "running" /\ StageOf(i) = "granted"
      BY <2>1, <2>2, StageAt
    <2>4. StageOf(i)' = "executed"
      <3>1. i \notin observed /\ Proceeds(i)
        BY <1>t, <2>1, <2>2 DEF IInv, LoopInv, DecidedTo, ObservedTo
      <3>2. QED
        BY <2>1, <3>1 DEF StageOf, Proceeds, Refused, ProceedingDecision, RefusingDecision
    <2>5. OutcomeOf' \in {"running", "thrown"}
      BY <2>1 DEF OutcomeOf
    <2>6. \A e \in Calls : e # i => StageOf(e)' = StageOf(e)
      BY <2>1, OthersStay
    <2>7. Promise!Execute(i)
      <3>1. Promise!Move(i, {"granted"}, "executed")
        BY <1>t, <2>1, <2>2, <2>3, <2>4, <2>5, <2>6, CallMoves
      <3>2. QED
        BY <3>1 DEF Promise!Execute
    <2>8. QED
      BY <2>2, <2>7 DEF Promise!GNext
  <1>6. CASE Observe
    <2>1. /\ pc = "observe_consult" /\ pc \in Points /\ pc \in CallPoints
          /\ pc' \in {"critique_consult", "thrown"}
          /\ observed' = observed \cup {i}
          /\ UNCHANGED <<calls, i, requests, decisions, executed>>
      BY <1>6 DEF Observe, Points, ConsultPoints, CallPoints, Continue
    <2>2. i \in Calls
      BY <1>t, <2>1 DEF IInv, LoopInv
    <2>3. OutcomeOf = "running" /\ StageOf(i) \in {"granted", "executed"}
      BY <2>1, <2>2, StageAt
    <2>4. StageOf(i)' = "receipted"
      <3>1. Proceeds(i)
        BY <1>t, <2>1, <2>2 DEF IInv, LoopInv, DecidedTo
      <3>2. QED
        BY <2>1, <3>1 DEF StageOf, Proceeds, Refused, ProceedingDecision, RefusingDecision
    <2>5. OutcomeOf' \in {"running", "thrown"}
      BY <2>1 DEF OutcomeOf
    <2>6. \A e \in Calls : e # i => StageOf(e)' = StageOf(e)
      BY <2>1, OthersStay
    <2>7. Promise!Receipt(i)
      <3>1. Promise!Move(i, {"granted", "executed"}, "receipted")
        BY <1>t, <2>1, <2>2, <2>3, <2>4, <2>5, <2>6, CallMoves
      <3>2. QED
        BY <3>1 DEF Promise!Receipt
    <2>8. QED
      BY <2>2, <2>7 DEF Promise!GNext
  <1>7. QED
    BY <1>1, <1>2, <1>3, <1>4, <1>5, <1>6 DEF CallStep

(* A repair plans anew, once every call of the failed plan is dealt with.  *)
LEMMA RepairMaps ==
  ASSUME IInv, Repair
  PROVE  Promise!GNext
  <1> USE DelegatedAssumption, CoderAssumption
  <1>1. /\ pc = "critique_llm" /\ i = calls /\ repairs < MaxRepairs /\ repairs' = repairs + 1
        /\ FreshPlan(0) /\ pc' \in {"plan_consult", "thrown"}
        /\ pc \in Points /\ pc \in CallPoints
    BY DEF Repair, LastCritique, Continue, Points, LLMPoints, CallPoints
  <1>2. i \in Nat /\ calls \in 0 .. MaxCalls /\ Calls = 1 .. MaxCalls /\ i \in 1 .. calls
        /\ i \in Calls
    BY <1>1 DEF IInv, TypeOK, RunTypeOK, Calls, LoopInv
  <1>3. ASSUME NEW c \in Calls
        PROVE  StageOf(c) \in {"idle", "receipted"} /\ (c = i => StageOf(c) = "receipted")
    <2>1. ObservedTo = i /\ RequestedTo = i /\ c \in Nat
      BY <1>1, <1>2 DEF ObservedTo, RequestedTo
    <2>2. c <= ObservedTo \/ c > RequestedTo
      BY <1>2, <2>1
    <2>3. c = i => c <= ObservedTo
      BY <1>2, <2>1
    <2>4. QED
      BY <1>1, <2>2, <2>3, StageAt
  <1>4. \A c \in Calls : StageOf(c)' = "idle"
    BY <1>1, FreshStages
  <1>5. OutcomeOf = "running" /\ OutcomeOf' \in {"running", "thrown"}
    BY <1>1, PointsAndEnds DEF OutcomeOf, Ended
  <1>6. Promise!Settled
    BY <1>3 DEF Promise!Settled
  <1>7. [c \in Calls |-> StageOf(c)]' = [c \in Calls |-> "idle"]
    BY <1>4
  <1>8. \E c \in Calls : [e \in Calls |-> StageOf(e)][c] = "receipted"
    BY <1>2, <1>3
  <1>9. Promise!Replan
    BY <1>1, <1>5, <1>6, <1>7, <1>8 DEF Promise!Replan
  <1>10. QED
    BY <1>9 DEF Promise!GNext

LEMMA StepMaps ==
  ASSUME IInv, RunStep, IInv'
  PROVE  Promise!GNext \/ UNCHANGED Promise!gvars
  <1>t. ReportMatchesTheRun'
    BY DEF IInv
  <1>1. CASE CallStep /\ UNCHANGED <<kind, loopVars>>
    BY <1>1, CallMaps
  <1>2. CASE (FrameStep \/ ConsultStep) /\ UNCHANGED loopVars
    <2>1. pc \in Points /\ UNCHANGED callVars
      BY <1>2 DEF FrameStep, ConsultStep, Receive, Frame, ConsultAllowed, ConsultDenied,
                  PolicyEngineThrows, LLMHalts, Points, ConsultPoints, LLMPoints
    <2>2. QED
      BY <1>t, <1>2, <2>1, QuietMaps DEF callVars, loopVars
  <1>3. CASE \E n : pc = "plan_llm" /\ FreshPlan(n) /\ repairs' = repairs
    BY <1>t, <1>3, PlanMaps
  <1>4. CASE pc \in {"critique_llm", "finalize_llm"} /\ repairs' = repairs
             /\ UNCHANGED <<calls, requests, decisions, executed, observed>>
    BY <1>t, <1>4, QuietMaps DEF Points, LLMPoints
  <1>5. CASE Repair
    BY <1>5, RepairMaps
  <1>6. ChatStep /\ UNCHANGED loopVars =>
           \/ \E n : pc = "plan_llm" /\ FreshPlan(n) /\ repairs' = repairs
           \/ /\ pc \in {"critique_llm", "finalize_llm"} /\ repairs' = repairs
              /\ UNCHANGED <<calls, requests, decisions, executed, observed>>
    BY DEF ChatStep, ChatPlanWithoutTools, ChatPlanWithTools, ChatCritiqueThenNextCall,
           ChatCritiqueThenFinalize, ChatFinalize, NextCall, callVars, loopVars
  <1>7. CoderStep =>
           \/ \E n : pc = "plan_llm" /\ FreshPlan(n) /\ repairs' = repairs
           \/ /\ pc \in {"critique_llm", "finalize_llm"} /\ repairs' = repairs
              /\ UNCHANGED <<calls, requests, decisions, executed, observed>>
           \/ Repair
    BY DEF CoderStep, CoderPlanWithoutTools, CoderPlanWithTools, CoderCritiqueThenNextCall,
           CritiquePasses, GiveUp, CoderFinalize, LastCritique, NextCall, callVars, loopVars
  <1>8. QED
    BY <1>1, <1>2, <1>3, <1>4, <1>5, <1>6, <1>7
       DEF RunStep, ChatRunStep, CoderRunStep, SharedStep

(* Runs of both pipelines keep the promise of a governed run.              *)
THEOREM PromiseTheorem == Spec => KeepsThePromise
  <1>1. Init => Promise!GInit
    <2> SUFFICES ASSUME Init PROVE Promise!GInit
      OBVIOUS
    <2>1. /\ pc = "receive" /\ repairs = 0
          /\ requests = {} /\ executed = {} /\ observed = {}
          /\ decisions = [c \in Calls |-> "none"]
      BY DEF Init, ChatInit, CoderInit, CallsInit
    <2>2. \A c \in Calls : StageOf(c) = "idle"
      BY <2>1 DEF StageOf, Proceeds, Refused, ProceedingDecision, RefusingDecision
    <2>3. OutcomeOf = "running"
      BY <2>1 DEF OutcomeOf
    <2>4. QED
      BY <2>1, <2>2, <2>3 DEF Promise!GInit
  <1>2. IInv /\ IInv' /\ [RunStep \/ Terminated]_vars => [Promise!GNext]_(Promise!gvars)
    <2> SUFFICES ASSUME IInv, IInv', [RunStep \/ Terminated]_vars
                 PROVE  Promise!GNext \/ UNCHANGED Promise!gvars
      OBVIOUS
    <2>1. CASE RunStep
      BY <2>1, StepMaps
    <2>2. CASE UNCHANGED vars
      <3>1. UNCHANGED <<pc, run, requests, decisions, executed, observed, repairs>>
        BY <2>2 DEF vars, runVars, loopVars
      <3>2. QED
        BY <3>1 DEF Promise!gvars, StageOf, OutcomeOf, Proceeds, Refused
    <2>3. QED
      BY <2>1, <2>2 DEF Terminated
  <1>3. QED
    BY <1>1, <1>2, AlwaysIInv, PTL DEF Spec, KeepsThePromise, Promise!GSpec
=============================================================================
