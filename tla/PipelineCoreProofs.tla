-------------------------- MODULE PipelineCoreProofs --------------------------
(***************************************************************************)
(* Lemmas about the operations of PipelineCore and the results of LLMCall. *)
(* They compose: a record that is Sound stays sound under every operation, *)
(* if a step or a tool call is only charged to a run that is Alive.        *)
(***************************************************************************)
EXTENDS LLMCall, TLAPS

(* A hard budget that has run out has stopped the run.                     *)
Guarded(r) ==
  (Running(r) /\ r.enforcement = "hard") =>
    \A f \in BudgetField : (r.max[f] > 0 /\ r.remaining[f] <= 0) => Halted(r)

NotOverspent(r) ==
  r.enforcement = "hard" =>
    \A f \in {"steps", "toolCalls"} : r.max[f] > 0 => r.remaining[f] >= 0

Sound(r) == r \in RunRecord /\ Guarded(r) /\ NotOverspent(r)

(* The run has thrown, or it has not been stopped.                         *)
Alive(r) == Running(r) => ~Halted(r)

(* A new run is sound, alive and in its first phase.                       *)
LEMMA CreateSound ==
  ASSUME NEW policy \in BudgetPolicy
  PROVE  /\ Sound(CreatePipelineState(policy))
         /\ Alive(CreatePipelineState(policy))
         /\ Running(CreatePipelineState(policy))
         /\ CreatePipelineState(policy).phase = "receive"
  <1> DEFINE r == CreatePipelineState(policy)
  <1>1. /\ r.phase = "receive" /\ r.error = "none" /\ r.termination = "none"
        /\ r.completionStatus = "running" /\ r.enforcement \in Enforcement
        /\ r.max \in [BudgetField -> Nat] /\ r.remaining = r.max
    BY DEF CreatePipelineState, BudgetPolicy
  <1>2. r \in RunRecord
    <2>1. r.remaining \in [BudgetField -> Int]
      BY <1>1
    <2>2. QED
      BY <1>1, <2>1 DEF CreatePipelineState, RunRecord, Phase, CompletionStatus, Error
  <1>3. Guarded(r) /\ NotOverspent(r)
    BY <1>1 DEF Guarded, NotOverspent, BudgetField
  <1>4. QED
    BY <1>1, <1>2, <1>3 DEF Sound, Alive, Running, Halted

(* Finalizing the trace only rewrites the reported termination.            *)
LEMMA FinalizeTraceSound ==
  ASSUME NEW r, Sound(r)
  PROVE  Sound(FinalizeTrace(r)) /\ FinalizeTrace(r) \in RunRecord
  <1>1. r \in RunRecord
    BY DEF Sound
  <1> DEFINE s == FinalizeTrace(r)
  <1>2. /\ s \in RunRecord
        /\ s.error = r.error /\ s.phase = r.phase /\ s.max = r.max
        /\ s.remaining = r.remaining /\ s.enforcement = r.enforcement
    BY <1>1 DEF FinalizeTrace, RunRecord
  <1> HIDE DEF s
  <1>3. Guarded(s) /\ NotOverspent(s)
    BY <1>2 DEF Sound, Guarded, NotOverspent, Running, Halted
  <1>4. QED
    BY <1>2, <1>3 DEF Sound, s

(* What the FSM leaves of a run when it is asked for a phase.              *)
LEMMA TransitionCases ==
  ASSUME NEW r \in RunRecord, NEW to \in Phase
  PROVE  /\ Transition(r, to) \in RunRecord
         /\ Transition(r, to).max = r.max
         /\ Transition(r, to).remaining = r.remaining
         /\ Transition(r, to).enforcement = r.enforcement
         /\ Running(Transition(r, to)) =>
              Running(r) /\ ~Halted(r) /\ Transition(r, to).phase = to
         /\ Running(r) => \/ Transition(r, to).phase = r.phase
                          \/ Transition(r, to).phase = to
  <1>1. CASE ~Running(r)
    BY <1>1 DEF Transition, Running
  <1>2. CASE Running(r) /\ Halted(r)
    <2>1. Transition(r, to) = [r EXCEPT !.error = "TerminalStateError"]
      BY <1>2 DEF Transition
    <2>2. QED
      BY <2>1, <1>2 DEF RunRecord, Error, Running
  <1>3. CASE Running(r) /\ ~Halted(r) /\ to \notin ValidTransitions[r.phase]
    <2>1. Transition(r, to) = [r EXCEPT !.error = "InvalidTransitionError"]
      BY <1>3 DEF Transition
    <2>2. QED
      BY <2>1, <1>3 DEF RunRecord, Error, Running
  <1>4. CASE Running(r) /\ ~Halted(r) /\ to \in ValidTransitions[r.phase] /\ to = "audit_seal"
    <2>1. Transition(r, to) = Sealed(r)
      BY <1>4 DEF Transition
    <2>2. QED
      BY <2>1, <1>4 DEF Sealed, RunRecord, Phase, CompletionStatus, Running
  <1>5. CASE Running(r) /\ ~Halted(r) /\ to \in ValidTransitions[r.phase] /\ to # "audit_seal"
    <2>1. Transition(r, to) = [r EXCEPT !.phase = to]
      BY <1>5 DEF Transition
    <2>2. QED
      BY <2>1, <1>5 DEF RunRecord, Running
  <1>6. QED
    BY <1>1, <1>2, <1>3, <1>4, <1>5

LEMMA TransitionSound ==
  ASSUME NEW r, NEW to \in Phase, Sound(r)
  PROVE  /\ Sound(Transition(r, to))
         /\ to # "audit_seal" => Alive(Transition(r, to))
  <1>1. r \in RunRecord
    BY DEF Sound
  <1>2. QED
    BY <1>1, TransitionCases DEF Sound, Guarded, NotOverspent, Alive, Halted

(* What a forced stop writes, and what it leaves.                          *)
LEMMA ForceStopFields ==
  ASSUME NEW r \in RunRecord, NEW status \in CompletionStatus, Running(r)
  PROVE  /\ ForceStop(r, status) \in RunRecord
         /\ Halted(ForceStop(r, status)) /\ Running(ForceStop(r, status))
         /\ ForceStop(r, status).max = r.max
         /\ ForceStop(r, status).enforcement = r.enforcement
         /\ ForceStop(r, status).remaining = r.remaining
  BY DEF ForceStop, RunRecord, Phase, CompletionStatus, Running, Halted

(* A stopped run is sealed; a run that has thrown is left as it was.       *)
LEMMA ForceStopSound ==
  ASSUME NEW r, NEW status \in CompletionStatus, Sound(r)
  PROVE  /\ Sound(ForceStop(r, status))
         /\ Running(r) => Halted(ForceStop(r, status)) /\ Running(ForceStop(r, status))
         /\ ForceStop(r, status).max = r.max
         /\ ForceStop(r, status).enforcement = r.enforcement
         /\ ForceStop(r, status).remaining = r.remaining
  <1>1. CASE ~Running(r)
    BY <1>1 DEF ForceStop
  <1>2. CASE Running(r)
    BY <1>2, ForceStopFields DEF Sound, Guarded, NotOverspent
  <1>3. QED
    BY <1>1, <1>2

LEMMA SetStatusSound ==
  ASSUME NEW r, NEW status \in CompletionStatus, Sound(r)
  PROVE  Sound(SetStatus(r, status)) /\ (Alive(r) => Alive(SetStatus(r, status)))
         /\ SetStatus(r, status).phase = r.phase
         /\ Running(SetStatus(r, status)) = Running(r)
  BY DEF SetStatus, Sound, RunRecord, Running, Halted, Alive, Guarded, NotOverspent

(* Charging a budget keeps a run sound: any amount of tokens, or one step  *)
(* or tool call of a run that is alive.                                    *)
LEMMA RecordSound ==
  ASSUME NEW r, Sound(r), NEW field \in BudgetField, NEW count \in Int,
         field \in {"steps", "toolCalls"} => (count = 1 /\ Alive(r))
  PROVE  /\ Sound(Record(r, field, count))
         /\ Running(Record(r, field, count)) = Running(r)
         /\ Running(r) => \/ Record(r, field, count).phase = r.phase
                          \/ Halted(Record(r, field, count))
         /\ Record(r, field, count).enforcement = r.enforcement
         /\ Record(r, field, count).max = r.max
  <1> DEFINE charged == [r EXCEPT !.remaining[field] = @ - count]
  <1>0. r \in RunRecord
    BY DEF Sound
  <1>1. CASE ~Running(r)
    BY <1>1 DEF Record
  <1>2. CASE Running(r)
    <2>1. /\ charged \in RunRecord /\ charged.max = r.max /\ charged.phase = r.phase
          /\ charged.enforcement = r.enforcement /\ charged.error = r.error
          /\ charged.remaining = [r.remaining EXCEPT ![field] = @ - count]
      BY <1>0 DEF RunRecord
    <2>2. NotOverspent(charged)
      <3>1. SUFFICES ASSUME r.enforcement = "hard", NEW f \in {"steps", "toolCalls"},
                            r.max[f] > 0
                     PROVE  charged.remaining[f] >= 0
        BY <2>1 DEF NotOverspent
      <3>2. r.remaining \in [BudgetField -> Int] /\ r.max \in [BudgetField -> Nat]
            /\ f \in BudgetField
        BY <1>0 DEF RunRecord, BudgetField
      <3>3. r.remaining[f] >= 0
        BY <3>1 DEF Sound, NotOverspent
      <3>4. CASE f # field
        BY <2>1, <3>2, <3>3, <3>4
      <3>5. CASE f = field
        <4>1. count = 1 /\ ~Halted(r)
          BY <3>5, <1>2 DEF Alive
        <4>2. ~(r.remaining[f] <= 0)
          BY <4>1, <3>1, <3>2, <1>2 DEF Sound, Guarded
        <4>3. charged.remaining[f] = r.remaining[f] - 1
          BY <2>1, <3>2, <3>5, <4>1
        <4>4. QED
          BY <4>2, <4>3, <3>2
      <3>6. QED
        BY <3>4, <3>5
    <2>3. Record(r, field, count) = CheckExhaustion(charged)
      BY <1>2 DEF Record
    <2>4. Running(charged)
      BY <2>1, <1>2 DEF Running
    <2>5. CASE IsExhausted(charged) /\ charged.enforcement = "hard"
      <3>1. Record(r, field, count) = ForceStop(charged, "budget_exhausted")
        BY <2>3, <2>5 DEF CheckExhaustion
      <3> DEFINE stopped == Record(r, field, count)
      <3>2. /\ stopped \in RunRecord /\ Halted(stopped) /\ Running(stopped)
            /\ stopped.max = r.max /\ stopped.enforcement = r.enforcement
            /\ stopped.remaining = charged.remaining
        <4> HIDE DEF charged
        <4>1. "budget_exhausted" \in CompletionStatus
          BY DEF CompletionStatus
        <4>2. QED
          BY <2>1, <2>4, <3>1, <4>1, ForceStopFields
      <3>3. Guarded(stopped) /\ NotOverspent(stopped)
        BY <3>2, <2>1, <2>2 DEF Guarded, NotOverspent
      <3>4. QED
        BY <3>2, <3>3, <1>2 DEF Sound
    <2>6. CASE ~(IsExhausted(charged) /\ charged.enforcement = "hard")
      <3>1. Record(r, field, count) = charged
        BY <2>3, <2>6 DEF CheckExhaustion
      <3>2. Guarded(charged)
        BY <2>6 DEF Guarded, IsExhausted
      <3>3. QED
        BY <3>1, <3>2, <2>1, <2>2, <2>4, <1>2 DEF Sound, Running
    <2>7. QED
      BY <2>5, <2>6
  <1>3. QED
    BY <1>1, <1>2

LEMMA RecordStepSound ==
  ASSUME NEW r, Sound(r), Alive(r)
  PROVE  /\ Sound(RecordStep(r))
         /\ Running(RecordStep(r)) = Running(r)
         /\ Running(r) => RecordStep(r).phase = r.phase \/ Halted(RecordStep(r))
  BY RecordSound DEF RecordStep, BudgetField

LEMMA RecordToolCallSound ==
  ASSUME NEW r, Sound(r), Alive(r)
  PROVE  /\ Sound(RecordToolCall(r))
         /\ Running(RecordToolCall(r)) = Running(r)
         /\ Running(r) => RecordToolCall(r).phase = r.phase \/ Halted(RecordToolCall(r))
  BY RecordSound DEF RecordToolCall, BudgetField

LEMMA RecordTokensSound ==
  ASSUME NEW r, Sound(r), NEW n \in Int
  PROVE  /\ Sound(RecordTokens(r, n))
         /\ Running(RecordTokens(r, n)) = Running(r)
         /\ Running(r) => RecordTokens(r, n).phase = r.phase \/ Halted(RecordTokens(r, n))
  BY RecordSound DEF RecordTokens, BudgetField

(* Every way a model call can end leaves a sound run that has not thrown.  *)
LEMMA LLMResultsSound ==
  ASSUME NEW r, Sound(r), Running(r), NEW x \in LLMResults(r)
  PROVE  Sound(x) /\ Running(x)
  <1> USE LLMCallAssumption
  <1>0. {"budget_exhausted", "external_stop", "fail_safe"} \subseteq CompletionStatus
    BY DEF CompletionStatus
  <1>1. CASE x = r
    BY <1>1
  <1>2. CASE x = ForceStop(r, "budget_exhausted")
    BY <1>0, <1>2, ForceStopSound
  <1>3. CASE x \in AnswerResults(r)
    <2>1. PICK u \in Usage : x = RecordTokens(r, u)
      BY <1>3 DEF AnswerResults
    <2>2. u \in Int
      BY DEF Usage
    <2>3. QED
      BY <2>1, <2>2, RecordTokensSound
  <1>4. CASE x \in FailureResults(r)
    <2>1. x = ForceStop(r, "external_stop") \/ x = ForceStop(r, "fail_safe")
      BY <1>4 DEF FailureResults
    <2>2. QED
      BY <1>0, <2>1, ForceStopSound
  <1>5. CASE x \in TripResults(r)
    <2>1. PICK status \in {"budget_exhausted", "fail_safe"}, e \in Usage :
             x = Trip(r, status, e)
      BY <1>5 DEF TripResults
    <2>2. PromptEstimate + e \in Int
      BY DEF Usage
    <2>3. Sound(ForceStop(r, status)) /\ Running(ForceStop(r, status))
      BY <1>0, ForceStopSound
    <2>4. QED
      BY <2>1, <2>2, <2>3, RecordTokensSound DEF Trip
  <1>6. QED
    BY <1>1, <1>2, <1>3, <1>4, <1>5 DEF LLMResults
=============================================================================
