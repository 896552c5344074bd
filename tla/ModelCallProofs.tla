--------------------------- MODULE ModelCallProofs ---------------------------
(***************************************************************************)
(* A call to the model, on both sides of onChunk.                          *)
(*                                                                         *)
(* The breaker: a call leaves the run as module LLMCall promises to the    *)
(* pipelines, decodes a bounded rest after a stop, and keeps the stop that *)
(* was decided on, for every budget policy, chunk length, size of a read   *)
(* and length limit.                                                       *)
(*                                                                         *)
(* The stream: what it is put together to is the message, and the caller   *)
(* was told of all of it, for every message and however its stream is cut  *)
(* into reads.                                                             *)
(***************************************************************************)
EXTENDS CircuitBreaker, ModelStream, PipelineCoreProofs,
        FiniteSetTheorems, FunctionTheorems, SequenceTheorems, WellFoundedInduction

(***************************************************************************)
(* The inductive invariant.  Until the call returns, the run is the one it *)
(* was called with; decoding has begun only with an allowance left; what   *)
(* was decoded is bounded by the events of the current read that have been *)
(* handled; and the stop is set exactly when a limit has been reached,     *)
(* which is what makes its estimate fit its reason.                        *)
(***************************************************************************)
Decoding == pc \in {"reading", "handling"}

StatusAgrees(r) == Halted(r) => r.completionStatus = r.termination

RunInv ==
  /\ pc \in {"called", "reading", "handling", "returned"}
  /\ pc # "returned" => /\ run = before /\ Sound(run) /\ Running(run)
                        /\ StatusAgrees(run)
  /\ Decoding => ~Halted(run) /\ ~PreflightStops(run)
  /\ pc = "returned" => run \in LLMResults(before)

TextInv ==
  /\ text \in Nat /\ estimate \in Nat /\ estimate <= text
  /\ burst \in 0 .. MaxBurst
  /\ pc = "called" => text = 0 /\ estimate = 0 /\ stop = "none"
  /\ pc \in {"called", "reading"} => burst = 0
  /\ text <= MaxDecodedChars + (MaxBurst - burst) * LongestDelta
  /\ Decoding /\ HardBudget(run) =>
       estimate < CompletionBudget(run) + (MaxBurst - burst) * TextTokens(LongestDelta)

StopInv ==
  /\ stop \in {"none", "budget_exhausted", "fail_safe"}
  /\ ~Aborted => text <= MaxDecodedChars
  /\ Decoding => /\ ~Aborted => ~OverBudget(estimate)
                 /\ stop = "budget_exhausted" => OverBudget(estimate)
                 /\ stop = "fail_safe" => ~OverBudget(estimate)

IInv == RunInv /\ TextInv /\ StopInv
-----------------------------------------------------------------------------
(* Arithmetic of the products in TextInv.                                  *)
LEMMA MoreBursts ==
  ASSUME NEW a \in Nat, NEW b \in Nat
  PROVE  (a + 1) * b = a * b + b /\ a * b \in Nat
  OBVIOUS

LEMMA FewerBursts ==
  ASSUME NEW m \in Nat, NEW a \in 0 .. m, NEW b \in Nat
  PROVE  (m - a) * b <= m * b /\ (m - a) * b \in Nat /\ m * b \in Nat
  <1>1. a * b \in Nat /\ (m - a) * b \in Nat /\ m * b \in Nat
    <2>1. m - a \in Nat
      OBVIOUS
    <2>2. \A x, y \in Nat : x * y \in Nat
      OBVIOUS
    <2>3. QED
      BY <2>1, <2>2
  <1>2. m * b = (m - a) * b + a * b
    OBVIOUS
  <1>3. QED
    BY <1>1, <1>2

LEMMA Chunks ==
  /\ LongestDelta \in Nat /\ TextTokens(LongestDelta) \in Nat
  /\ \A d \in Deltas : /\ d \in Nat /\ d <= LongestDelta
                       /\ TextTokens(d) \in Nat /\ TextTokens(d) <= d
                       /\ TextTokens(d) <= TextTokens(LongestDelta)
  <1>1. LongestDelta \in Deltas /\ \A d \in Deltas : d <= LongestDelta
    BY ChunkAssumption DEF LongestDelta
  <1>2. Deltas \subseteq Nat
    BY BreakerAssumption
  <1>3. \A d \in Nat : TextTokens(d) \in Nat /\ TextTokens(d) <= d
    BY DEF TextTokens
  <1>4. \A d, e \in Nat : d <= e => TextTokens(d) <= TextTokens(e)
    BY DEF TextTokens
  <1>5. QED
    BY <1>1, <1>2, <1>3, <1>4

LEMMA BudgetIsNat ==
  ASSUME NEW r \in RunRecord
  PROVE  CompletionBudget(r) \in Nat
  <1>1. r.remaining["tokens"] \in Int
    BY DEF RunRecord, BudgetField
  <1>2. QED
    BY <1>1, LLMCallAssumption DEF CompletionBudget
-----------------------------------------------------------------------------
(* A run stopped by the breaker ends with the reason of the breaker: the   *)
(* charge that follows a safety stop cannot exhaust a budget.              *)
LEMMA TripKeepsTheStop ==
  ASSUME NEW r, Sound(r), Running(r), ~Halted(r),
         NEW status \in {"budget_exhausted", "fail_safe"}, NEW e \in Nat,
         status = "fail_safe" => ~(HardBudget(r) /\ e >= CompletionBudget(r))
  PROVE  /\ Halted(Trip(r, status, e))
         /\ Trip(r, status, e).termination = status
         /\ Trip(r, status, e).completionStatus = status
  <1> DEFINE s == ForceStop(r, status)
             t == [s EXCEPT !.remaining["tokens"] = @ - (PromptEstimate + e)]
  <1>1. r \in RunRecord /\ status \in CompletionStatus
    BY DEF Sound, CompletionStatus
  <1>2. /\ s = [r EXCEPT !.completionStatus = status, !.phase = "audit_seal",
                         !.termination = status]
    BY DEF ForceStop
  <1>3. /\ s \in RunRecord /\ Halted(s) /\ Running(s)
        /\ s.termination = status /\ s.completionStatus = status
        /\ s.max = r.max /\ s.remaining = r.remaining /\ s.enforcement = r.enforcement
    BY <1>1, <1>2 DEF RunRecord, Phase, CompletionStatus, Halted, Running
  <1>4. Trip(r, status, e) = CheckExhaustion(t)
    BY <1>3 DEF Trip, RecordTokens, Record
  <1> HIDE DEF s
  <1>5. /\ t \in RunRecord /\ Halted(t) /\ Running(t)
        /\ t.termination = status /\ t.completionStatus = status
        /\ t.max = r.max /\ t.enforcement = r.enforcement
        /\ t.remaining = [r.remaining EXCEPT !["tokens"] = @ - (PromptEstimate + e)]
    <2>1. PromptEstimate + e \in Int
      BY LLMCallAssumption
    <2>2. QED
      BY <1>3, <2>1 DEF RunRecord, Halted, Running, BudgetField
  <1> HIDE DEF t
  <1>6. CASE status = "budget_exhausted"
    BY <1>4, <1>5, <1>6 DEF CheckExhaustion, ForceStop, RunRecord, Halted
  <1>7. CASE status = "fail_safe"
    <2>1. ~(IsExhausted(t) /\ t.enforcement = "hard")
      <3>1. SUFFICES ASSUME r.enforcement = "hard", NEW f \in BudgetField,
                            t.remaining[f] <= 0, r.max[f] > 0
                     PROVE  FALSE
        BY <1>5 DEF IsExhausted
      <3>2. r.remaining \in [BudgetField -> Int]
        BY <1>1 DEF RunRecord
      <3>3. ~(r.remaining[f] <= 0)
        BY <3>1 DEF Sound, Guarded
      <3>4. CASE f # "tokens"
        BY <1>5, <3>1, <3>2, <3>3, <3>4
      <3>5. CASE f = "tokens"
        <4>1. e < CompletionBudget(r)
          BY <1>7, <3>1, BudgetIsNat, <1>1 DEF HardBudget
        <4>2. t.remaining["tokens"] = r.remaining["tokens"] - (PromptEstimate + e)
          BY <1>5, <3>2, <3>5
        <4>3. r.remaining["tokens"] \in Int
          BY <3>2, <3>5
        <4>4. t.remaining["tokens"] > 0
          BY <4>1, <4>2, <4>3, LLMCallAssumption DEF CompletionBudget
        <4>5. QED
          BY <4>2, <4>3, <4>4, <3>1, <3>5, LLMCallAssumption
      <3>6. QED
        BY <3>4, <3>5
    <2>2. QED
      BY <1>4, <1>5, <1>7, <2>1 DEF CheckExhaustion
  <1>8. QED
    BY <1>6, <1>7

(* An answer whose charge stops the run stops it with an exhausted budget. *)
LEMMA AnswerStatus ==
  ASSUME NEW r \in RunRecord, Running(r), ~Halted(r), NEW u \in Int,
         Halted(RecordTokens(r, u))
  PROVE  /\ RecordTokens(r, u).termination = "budget_exhausted"
         /\ RecordTokens(r, u).completionStatus = "budget_exhausted"
  <1> DEFINE t == [r EXCEPT !.remaining["tokens"] = @ - u]
  <1>1. t \in RunRecord /\ ~Halted(t) /\ Running(t)
    BY DEF RunRecord, Halted, Running
  <1>2. RecordTokens(r, u) = CheckExhaustion(t)
    BY DEF RecordTokens, Record
  <1> HIDE DEF t
  <1>3. RecordTokens(r, u) = ForceStop(t, "budget_exhausted")
    BY <1>1, <1>2 DEF CheckExhaustion
  <1>4. QED
    BY <1>1, <1>3 DEF ForceStop, RunRecord

(* A failure of the backend stops the run with the status of the failure.  *)
LEMMA FailureStatus ==
  ASSUME NEW r \in RunRecord, Running(r), ~Halted(r), NEW x \in FailureResults(r)
  PROVE  Halted(x) /\ x.completionStatus = x.termination
  BY DEF FailureResults, ForceStop, RunRecord, Halted

(* The stops a pipeline can inherit agree with their status.               *)
LEMMA StopStatus ==
  ASSUME NEW r \in RunRecord, Running(r), ~Halted(r), NEW status \in CompletionStatus
  PROVE  StatusAgrees(ForceStop(r, status))
  BY DEF StatusAgrees, ForceStop, RunRecord, Halted
-----------------------------------------------------------------------------
LEMMA InitIInv == Init => IInv
  <1> SUFFICES ASSUME Init PROVE IInv
    OBVIOUS
  <1>1. PICK policy \in Policies :
          LET r == Transition(CreatePipelineState(policy), "frame")
          IN  run \in {r, ForceStop(r, "external_stop")}
    BY DEF Init
  <1> DEFINE r == Transition(CreatePipelineState(policy), "frame")
             c == CreatePipelineState(policy)
  <1>2. policy \in BudgetPolicy
    BY BreakerAssumption
  <1>3. Sound(c) /\ Running(c) /\ c.phase = "receive"
    BY <1>2, CreateSound
  <1>4. r = [c EXCEPT !.phase = "frame"]
    <2>1. "frame" \in ValidTransitions["receive"]
      BY DEF ValidTransitions, Phase
    <2>2. ~Halted(c)
      BY <1>3 DEF Halted
    <2> HIDE DEF c
    <2>3. QED
      BY <1>3, <2>1, <2>2 DEF Transition, Halted, c
  <1>5. "frame" \in Phase /\ "external_stop" \in CompletionStatus
    BY DEF Phase, CompletionStatus
  <1>6. Sound(r) /\ Running(r) /\ ~Halted(r) /\ r \in RunRecord
    <2>1. Sound(r)
      BY <1>3, <1>5, TransitionSound
    <2>2. c \in RunRecord
      BY <1>3 DEF Sound
    <2> HIDE DEF c
    <2>3. QED
      BY <1>3, <1>4, <2>1, <2>2 DEF Sound, Running, Halted, RunRecord
  <1> HIDE DEF r, c
  <1>7. run = r \/ run = ForceStop(r, "external_stop")
    BY <1>1 DEF r, c
  <1>8. Sound(run) /\ Running(run) /\ StatusAgrees(run)
    BY <1>5, <1>6, <1>7, ForceStopSound, StopStatus DEF StatusAgrees
  <1>9. RunInv
    BY <1>8 DEF RunInv, Init, Decoding
  <1>10. TextInv
    <2>1. MaxBurst \in Nat /\ 0 \in 0 .. MaxBurst /\ MaxDecodedChars \in Nat
      BY BreakerAssumption
    <2>2. (MaxBurst - 0) * LongestDelta \in Nat
      BY <2>1, Chunks, FewerBursts
    <2>3. QED
      BY <2>1, <2>2 DEF TextInv, Init, Decoding
  <1>11. StopInv
    BY BreakerAssumption DEF StopInv, Init, Decoding, Aborted
  <1>12. QED
    BY <1>9, <1>10, <1>11 DEF IInv
-----------------------------------------------------------------------------
(* The results a call may return, from a state in which decoding goes on.  *)
LEMMA Results ==
  ASSUME IInv, Decoding
  PROVE  /\ AnswerResults(run) \cup TripResults(run) \cup FailureResults(run)
              = LLMResults(before)
         /\ Aborted /\ estimate \in Usage => Trip(run, stop, estimate) \in TripResults(run)
  <1>1. /\ run = before /\ ~Halted(run) /\ ~PreflightStops(run) /\ Sound(run)
    BY DEF IInv, RunInv, Decoding
  <1>2. LLMResults(before)
          = AnswerResults(run) \cup TripResults(run) \cup FailureResults(run)
    BY <1>1 DEF LLMResults
  <1>3. ASSUME Aborted, estimate \in Usage
        PROVE  Trip(run, stop, estimate) \in TripResults(run)
    <2>1. CompletionBudget(run) \in Nat /\ estimate \in Nat
      BY <1>1, BudgetIsNat DEF Sound, IInv, TextInv
    <2>2. \/ stop = "budget_exhausted" /\ OverBudget(estimate)
          \/ stop = "fail_safe" /\ ~OverBudget(estimate)
      BY <1>3 DEF IInv, StopInv, Aborted
    <2>3. CASE stop = "budget_exhausted" /\ OverBudget(estimate)
      BY <1>3, <2>3 DEF TripResults, OverBudget
    <2>4. CASE stop = "fail_safe" /\ ~OverBudget(estimate)
      <3>1. ~HardBudget(run) \/ estimate < CompletionBudget(run)
        BY <2>1, <2>4 DEF OverBudget
      <3>2. QED
        BY <1>3, <2>4, <3>1 DEF TripResults
    <2>5. QED
      BY <2>2, <2>3, <2>4
  <1>4. QED
    BY <1>2, <1>3

(* What was decoded fits the range of what a call may be charged.          *)
LEMMA EstimateIsUsage == IInv => estimate \in Usage
  <1> SUFFICES ASSUME IInv PROVE estimate \in Usage
    OBVIOUS
  <1>1. /\ MaxBurst \in Nat /\ MaxDecodedChars \in Nat /\ burst \in 0 .. MaxBurst
        /\ text \in Nat /\ estimate \in Nat /\ estimate <= text
        /\ text <= MaxDecodedChars + (MaxBurst - burst) * LongestDelta
    BY BreakerAssumption DEF IInv, TextInv
  <1>2. /\ (MaxBurst - burst) * LongestDelta <= MaxBurst * LongestDelta
        /\ (MaxBurst - burst) * LongestDelta \in Nat
        /\ MaxBurst * LongestDelta \in Nat
    BY <1>1, Chunks, FewerBursts
  <1>3. MaxDecodedChars + MaxBurst * LongestDelta <= MaxUsage /\ MaxUsage \in Nat
    BY ChunkAssumption, LLMCallAssumption
  <1>4. QED
    BY <1>1, <1>2, <1>3 DEF Usage

(* The catch clause returns one of the results, with the breaker's reason. *)
LEMMA CatchResult ==
  ASSUME IInv, Decoding, Catch
  PROVE  /\ run' \in LLMResults(before) /\ pc' = "returned"
         /\ UNCHANGED <<before, stream>>
         /\ Halted(run') /\ run'.completionStatus = run'.termination
         /\ Aborted => run'.termination = stop
  <1>1. /\ Sound(run) /\ Running(run) /\ ~Halted(run) /\ run \in RunRecord
        /\ estimate \in Nat /\ CompletionBudget(run) \in Nat
    BY BudgetIsNat DEF IInv, RunInv, TextInv, Decoding, Sound
  <1>2. CASE Aborted /\ Return(Trip(run, stop, estimate))
    <2>1. run' = Trip(run, stop, estimate) /\ pc' = "returned" /\ UNCHANGED <<before, stream>>
      BY <1>2 DEF Return
    <2>2. stop \in {"budget_exhausted", "fail_safe"}
      BY <1>2 DEF IInv, StopInv, Aborted
    <2>3. stop = "fail_safe" => ~(HardBudget(run) /\ estimate >= CompletionBudget(run))
      BY DEF IInv, StopInv, OverBudget
    <2>4. /\ Halted(Trip(run, stop, estimate))
          /\ Trip(run, stop, estimate).termination = stop
          /\ Trip(run, stop, estimate).completionStatus = stop
      BY <1>1, <2>2, <2>3, TripKeepsTheStop
    <2>5. Trip(run, stop, estimate) \in LLMResults(before)
      BY <1>2, Results, EstimateIsUsage
    <2>6. QED
      BY <2>1, <2>4, <2>5
  <1>3. CASE ~Aborted /\ \E r \in FailureResults(run) : Return(r)
    <2>1. run' \in FailureResults(run) /\ pc' = "returned" /\ UNCHANGED <<before, stream>>
      BY <1>3 DEF Return
    <2>2. run' \in LLMResults(before)
      BY <2>1, Results
    <2>3. Halted(run') /\ run'.completionStatus = run'.termination
      BY <1>1, <2>1, FailureStatus
    <2>4. QED
      BY <1>3, <2>1, <2>2, <2>3
  <1>4. QED
    BY <1>2, <1>3 DEF Catch

(* A complete answer is charged; only that charge may stop the run.        *)
LEMMA AnswerResult ==
  ASSUME IInv, Answer
  PROVE  /\ run' \in LLMResults(before) /\ pc' = "returned"
         /\ UNCHANGED <<before, stream>> /\ last /\ burst = 0
         /\ Halted(run') => /\ run'.termination = "budget_exhausted"
                            /\ run'.completionStatus = "budget_exhausted"
  <1>1. PICK used \in Usage : Return(RecordTokens(run, used))
    BY DEF Answer
  <1>2. Decoding /\ last /\ burst = 0
    BY DEF Answer, Decoding
  <1>3. /\ Running(run) /\ ~Halted(run) /\ run \in RunRecord
    BY <1>2 DEF IInv, RunInv, Decoding, Sound
  <1>4. used \in Int
    BY DEF Usage
  <1>5. run' = RecordTokens(run, used) /\ pc' = "returned" /\ UNCHANGED <<before, stream>>
    BY <1>1 DEF Return
  <1>6. run' \in LLMResults(before)
    BY <1>2, <1>5, Results DEF AnswerResults
  <1>7. QED
    BY <1>2, <1>3, <1>4, <1>5, <1>6, AnswerStatus

(* The call that does not decode.                                          *)
LEMMA PreflightResult ==
  ASSUME IInv, Preflight
  PROVE  /\ run' \in LLMResults(before) /\ pc' = "returned"
         /\ UNCHANGED <<before, stream>> /\ ~Aborted
         /\ StatusAgrees(run')
  <1>1. /\ pc = "called" /\ run = before /\ Sound(run) /\ Running(run)
        /\ StatusAgrees(run) /\ run \in RunRecord /\ ~Aborted
    BY DEF IInv, RunInv, TextInv, Preflight, Sound, Aborted
  <1>2. CASE Halted(run) /\ Return(run)
    BY <1>1, <1>2 DEF Return, LLMResults
  <1>3. CASE ~Halted(run) /\ PreflightStops(run) /\ Return(ForceStop(run, "budget_exhausted"))
    <2>1. StatusAgrees(ForceStop(run, "budget_exhausted"))
      BY <1>1, <1>3, StopStatus DEF CompletionStatus
    <2>2. QED
      BY <1>1, <1>3, <2>1 DEF Return, LLMResults
  <1>4. QED
    BY <1>2, <1>3 DEF Preflight

(* Once returned, nothing of the invariant is left but what was decoded.   *)
LEMMA ReturnIInv ==
  ASSUME IInv, run' \in LLMResults(before), pc' = "returned",
         UNCHANGED <<before, stream>>
  PROVE  IInv'
  <1>1. RunInv'
    BY DEF RunInv, Decoding
  <1>2. TextInv'
    BY DEF IInv, TextInv, Decoding, stream
  <1>3. StopInv'
    BY DEF IInv, StopInv, Decoding, Aborted, stream
  <1>4. QED
    BY <1>1, <1>2, <1>3 DEF IInv
-----------------------------------------------------------------------------
LEMMA StartIInv ==
  ASSUME IInv, StartDecoding
  PROVE  IInv'
  <1>1. /\ run' = run /\ before' = before /\ text' = text /\ estimate' = estimate
        /\ stop' = stop /\ burst' = burst /\ last' = last /\ pc' = "reading" /\ pc = "called"
        /\ ~Halted(run) /\ ~PreflightStops(run)
    BY DEF StartDecoding, stream
  <1>2. RunInv'
    BY <1>1 DEF IInv, RunInv, Decoding
  <1>3. CompletionBudget(run) \in Nat
    BY <1>1, BudgetIsNat DEF IInv, RunInv, Sound
  <1>4. HardBudget(run) => 0 < CompletionBudget(run)
    BY <1>1, <1>3 DEF PreflightStops
  <1>5. /\ MaxBurst \in Nat /\ burst \in 0 .. MaxBurst
        /\ (MaxBurst - burst) * TextTokens(LongestDelta) \in Nat
    BY BreakerAssumption, Chunks, FewerBursts DEF IInv, TextInv
  <1>6. TextInv'
    BY <1>1, <1>3, <1>4, <1>5 DEF IInv, TextInv, Decoding
  <1>7. StopInv'
    BY <1>1, <1>3, <1>4 DEF IInv, TextInv, StopInv, Decoding, Aborted, OverBudget
  <1>8. QED
    BY <1>2, <1>6, <1>7 DEF IInv

LEMMA ReadIInv ==
  ASSUME IInv, Read
  PROVE  IInv'
  <1>1. /\ run' = run /\ before' = before /\ text' = text /\ estimate' = estimate
        /\ stop' = stop /\ burst' \in 0 .. MaxBurst /\ pc' = "handling" /\ pc = "reading"
        /\ ~Aborted
    BY DEF Read
  <1>2. RunInv'
    BY <1>1 DEF IInv, RunInv, Decoding
  <1>3. CompletionBudget(run) \in Nat /\ MaxDecodedChars \in Nat /\ MaxBurst \in Nat
    BY <1>1, BudgetIsNat, BreakerAssumption DEF IInv, RunInv, Sound
  <1>4. /\ (MaxBurst - burst') * TextTokens(LongestDelta) \in Nat
        /\ (MaxBurst - burst') * LongestDelta \in Nat
    BY <1>1, <1>3, Chunks, FewerBursts
  <1>5. text <= MaxDecodedChars /\ ~OverBudget(estimate)
    BY <1>1 DEF IInv, StopInv, Decoding
  <1>6. /\ text \in Nat /\ estimate \in Nat /\ estimate <= text
    BY DEF IInv, TextInv
  <1>7. HardBudget(run) => estimate < CompletionBudget(run)
    BY <1>3, <1>5, <1>6 DEF OverBudget
  <1>8. TextInv'
    BY <1>1, <1>3, <1>4, <1>5, <1>6, <1>7 DEF TextInv, Decoding
  <1>9. StopInv'
    BY <1>1 DEF IInv, StopInv, Decoding, Aborted, OverBudget
  <1>10. QED
    BY <1>2, <1>8, <1>9 DEF IInv

LEMMA HandleIInv ==
  ASSUME IInv, HandleEvent
  PROVE  IInv'
  <1>1. PICK delta \in Deltas, blocked \in BOOLEAN : OnChunk(delta, blocked)
    BY DEF HandleEvent
  <1>2. /\ run' = run /\ before' = before /\ pc' = pc /\ pc = "handling"
        /\ burst > 0 /\ burst' = burst - 1
    BY DEF HandleEvent
  <1> DEFINE L == LongestDelta
             T == TextTokens(LongestDelta)
             tok == TextTokens(delta)
             B == CompletionBudget(run)
  <1>3. /\ text' = text + delta /\ estimate' = estimate + tok
        /\ stop' = IF OverBudget(estimate') THEN "budget_exhausted"
                   ELSE IF OverLength(text') \/ blocked THEN "fail_safe" ELSE stop
    BY <1>1 DEF OnChunk
  <1>4. /\ L \in Nat /\ T \in Nat /\ delta \in Nat /\ delta <= L
        /\ tok \in Nat /\ tok <= T /\ tok <= delta
    BY Chunks
  <1>5. /\ B \in Nat /\ MaxDecodedChars \in Nat /\ MaxBurst \in Nat
    BY <1>2, BudgetIsNat, BreakerAssumption DEF IInv, RunInv, Sound
  <1>6. /\ text \in Nat /\ estimate \in Nat /\ estimate <= text /\ burst \in 0 .. MaxBurst
        /\ text <= MaxDecodedChars + (MaxBurst - burst) * L
        /\ HardBudget(run) => estimate < B + (MaxBurst - burst) * T
    BY <1>2 DEF IInv, TextInv, Decoding
  <1> DEFINE n == MaxBurst - burst
  <1>7. n \in Nat /\ MaxBurst - burst' = n + 1 /\ burst' \in 0 .. MaxBurst
    BY <1>2, <1>5, <1>6
  <1> HIDE DEF L, T, tok, B, n
  <1>8. /\ (n + 1) * L = n * L + L /\ n * L \in Nat
        /\ (n + 1) * T = n * T + T /\ n * T \in Nat
    BY <1>4, <1>7, MoreBursts
  <1>9. RunInv'
    BY <1>2 DEF IInv, RunInv, Decoding
  <1>10. /\ text <= MaxDecodedChars + n * L
         /\ HardBudget(run) => estimate < B + n * T
    BY <1>6 DEF n
  <1>11. TextInv'
    <2>1. text' \in Nat /\ estimate' \in Nat /\ estimate' <= text'
      BY <1>3, <1>4, <1>6
    <2>2. text' <= MaxDecodedChars + (n + 1) * L
      <3>1. text + delta <= MaxDecodedChars + (n * L + L)
        BY <1>4, <1>5, <1>6, <1>8, <1>10
      <3>2. QED
        BY <1>3, <1>8, <3>1
    <2>3. HardBudget(run) => estimate' < B + (n + 1) * T
      <3>1. HardBudget(run) => estimate + tok < B + (n * T + T)
        BY <1>4, <1>5, <1>6, <1>8, <1>10
      <3>2. QED
        BY <1>3, <1>8, <3>1
    <2>4. text' <= MaxDecodedChars + (MaxBurst - burst') * L
      BY <2>2, <1>7
    <2>5. HardBudget(run) => estimate' < B + (MaxBurst - burst') * T
      BY <2>3, <1>7
    <2>6. QED
      BY <1>2, <1>7, <2>1, <2>4, <2>5 DEF TextInv, Decoding, L, T, B
  <1>12. StopInv'
    <2>1. /\ stop \in {"none", "budget_exhausted", "fail_safe"}
          /\ stop = "none" => ~OverBudget(estimate) /\ text <= MaxDecodedChars
          /\ stop = "budget_exhausted" => OverBudget(estimate)
      BY <1>2 DEF IInv, StopInv, Decoding, Aborted
    <2>2. OverBudget(estimate) => OverBudget(estimate')
      BY <1>3, <1>4, <1>5, <1>6 DEF OverBudget, B
    <2>3. stop' \in {"none", "budget_exhausted", "fail_safe"}
      BY <1>3, <2>1
    <2>4. stop' = "none" => ~OverBudget(estimate') /\ ~OverLength(text')
      BY <1>3
    <2>5. ~OverLength(text') => text' <= MaxDecodedChars
      BY <1>3, <1>4, <1>5, <1>6 DEF OverLength
    <2>6. /\ stop' = "budget_exhausted" => OverBudget(estimate')
          /\ stop' = "fail_safe" => ~OverBudget(estimate')
      BY <1>3, <2>1, <2>2
    <2>7. OverBudget(estimate)' = OverBudget(estimate')
      BY <1>2 DEF OverBudget
    <2>8. QED
      BY <2>3, <2>4, <2>5, <2>6, <2>7 DEF StopInv, Aborted
  <1>13. QED
    BY <1>9, <1>11, <1>12 DEF IInv

LEMMA ReadOnIInv ==
  ASSUME IInv, ReadOn
  PROVE  IInv'
  <1>1. /\ run' = run /\ before' = before /\ text' = text /\ estimate' = estimate
        /\ stop' = stop /\ burst' = burst /\ pc' = "reading" /\ pc = "handling" /\ burst = 0
    BY DEF ReadOn, stream
  <1>2. RunInv'
    BY <1>1 DEF IInv, RunInv, Decoding
  <1>3. TextInv'
    BY <1>1 DEF IInv, TextInv, Decoding
  <1>4. StopInv'
    BY <1>1 DEF IInv, StopInv, Decoding, Aborted, OverBudget
  <1>5. QED
    BY <1>2, <1>3, <1>4 DEF IInv

LEMMA NextIInv == IInv /\ [Next]_vars => IInv'
  <1> SUFFICES ASSUME IInv, [Next]_vars PROVE IInv'
    OBVIOUS
  <1>1. CASE Preflight
    BY <1>1, PreflightResult, ReturnIInv
  <1>2. CASE StartDecoding
    BY <1>2, StartIInv
  <1>3. CASE Read
    BY <1>3, ReadIInv
  <1>4. CASE HandleEvent
    BY <1>4, HandleIInv
  <1>5. CASE ReadOn
    BY <1>5, ReadOnIInv
  <1>6. CASE Answer
    BY <1>6, AnswerResult, ReturnIInv
  <1>7. CASE AbortedRead
    BY <1>7, CatchResult, ReturnIInv DEF AbortedRead, Decoding
  <1>8. CASE BackendFails
    BY <1>8, CatchResult, ReturnIInv DEF BackendFails, Decoding
  <1>9. CASE UNCHANGED vars
    <2>1. RunInv'
      BY <1>9 DEF IInv, RunInv, Decoding, vars
    <2>2. TextInv'
      BY <1>9 DEF IInv, TextInv, Decoding, vars
    <2>3. StopInv'
      BY <1>9 DEF IInv, StopInv, Decoding, Aborted, OverBudget, vars
    <2>4. QED
      BY <2>1, <2>2, <2>3 DEF IInv
  <1>10. QED
    BY <1>1, <1>2, <1>3, <1>4, <1>5, <1>6, <1>7, <1>8, <1>9 DEF Next, Returned

LEMMA InvariantHolds == Spec => []IInv
  BY InitIInv, NextIInv, PTL DEF Spec

(* Streaming refines the one step the pipelines see: LeavesAnLLMResult     *)
(* (llm-circuit-breaker.ts:92-198).                                        *)
THEOREM ResultTheorem == Spec => []LeavesAnLLMResult
  <1>1. IInv => LeavesAnLLMResult
    BY DEF IInv, RunInv, LeavesAnLLMResult
  <1>2. QED
    BY <1>1, InvariantHolds, PTL

(* No stream decodes more than one read past a limit: OvershootIsBounded   *)
(* (llm-circuit-breaker.ts:127-162).                                       *)
THEOREM OvershootTheorem == Spec => []OvershootIsBounded
  <1>1. IInv => OvershootIsBounded
    <2> SUFFICES ASSUME IInv PROVE OvershootIsBounded
      OBVIOUS
    <2>1. /\ MaxBurst \in Nat /\ MaxDecodedChars \in Nat /\ burst \in 0 .. MaxBurst
          /\ text \in Nat /\ estimate \in Nat
          /\ text <= MaxDecodedChars + (MaxBurst - burst) * LongestDelta
      BY BreakerAssumption DEF IInv, TextInv
    <2>2. /\ (MaxBurst - burst) * LongestDelta <= MaxBurst * LongestDelta
          /\ (MaxBurst - burst) * LongestDelta \in Nat /\ MaxBurst * LongestDelta \in Nat
      BY <2>1, Chunks, FewerBursts
    <2>3. text <= MaxDecodedChars + MaxBurst * LongestDelta
      BY <2>1, <2>2
    <2> DEFINE T == TextTokens(LongestDelta)
    <2>4. (MaxBurst - burst) * T <= MaxBurst * T /\ (MaxBurst - burst) * T \in Nat
          /\ MaxBurst * T \in Nat
      BY <2>1, Chunks, FewerBursts
    <2>5. ASSUME HardBudget(run), pc \in {"reading", "handling"}
          PROVE  estimate < CompletionBudget(run) + MaxBurst * T
      <3>1. CompletionBudget(run) \in Nat
        BY <2>5, BudgetIsNat DEF IInv, RunInv, Sound
      <3>2. estimate < CompletionBudget(run) + (MaxBurst - burst) * T
        BY <2>5 DEF IInv, TextInv, Decoding
      <3> HIDE DEF T
      <3>3. QED
        BY <2>1, <2>4, <3>1, <3>2
    <2>6. QED
      BY <2>3, <2>5 DEF OvershootIsBounded
  <1>2. QED
    BY <1>1, InvariantHolds, PTL

(* The stop of the breaker is neither lost nor relabelled: StopIsKept      *)
(* (llm-circuit-breaker.ts:140-197).                                       *)
THEOREM StopTheorem == Spec => StopIsKept
  <1> DEFINE Kept == pc' = "returned" =>
               /\ Aborted => Halted(run') \/ (last /\ burst = 0)
               /\ Aborted /\ Halted(run') => run'.termination \in {stop, "budget_exhausted"}
               /\ Halted(run') => run'.completionStatus = run'.termination
  <1>1. IInv /\ [Next]_vars => [Kept]_vars
    <2> SUFFICES ASSUME IInv, Next, pc' = "returned", vars' # vars PROVE Kept
      OBVIOUS
    <2>1. CASE Preflight
      BY <2>1, PreflightResult DEF StatusAgrees
    <2>2. CASE Answer
      BY <2>2, AnswerResult
    <2>3. CASE AbortedRead
      BY <2>3, CatchResult DEF AbortedRead, Decoding
    <2>4. CASE BackendFails
      BY <2>4, CatchResult DEF BackendFails, Decoding
    <2>5. CASE StartDecoding \/ Read \/ HandleEvent \/ ReadOn
      BY <2>5 DEF StartDecoding, Read, HandleEvent, ReadOn
    <2>6. QED
      BY <2>1, <2>2, <2>3, <2>4, <2>5 DEF Next, Returned
  <1>2. QED
    BY <1>1, InvariantHolds, PTL DEF Spec, StopIsKept

(***************************************************************************)
(* Where the characters of the body are on the wire.                       *)
(***************************************************************************)
(* The n-th character with CR left out: five to an event.                  *)
Plain(n) == IF (n - 1) % 5 < 3 THEN <<((n - 1) \div 5) + 1, ((n - 1) % 5) + 1>> ELSE LF

(* Where in the body the n-th of them is.                                  *)
At(s, n) ==
  IF ~s.crlf THEN n
  ELSE 7 * ((n - 1) \div 5) + (IF (n - 1) % 5 < 3 THEN ((n - 1) % 5) + 1
                               ELSE 2 * ((n - 1) % 5) - 1)

Width(s) == IF s.crlf THEN 7 ELSE 5

(* A character is one of five of an event.                                 *)
LEMMA Fifths ==
  ASSUME NEW n \in Nat
  PROVE  \E a \in Int, b \in 0 .. 4 :
           /\ n = 5 * a + b + 1
           /\ (n - 1) \div 5 = a /\ (n - 1) % 5 = b
           /\ n > 0 => a \in Nat
  <1> DEFINE a == (n - 1) \div 5
             b == (n - 1) % 5
  <1>1. n - 1 \in Int
    OBVIOUS
  <1>2. a \in Int /\ b \in 0 .. 4 /\ n - 1 = 5 * a + b
    BY <1>1
  <1>3. n > 0 => a \in Nat
    BY <1>2
  <1>4. QED
    BY <1>2, <1>3

(* The next character is next, or the one after a CR.                      *)
LEMMA AtSteps ==
  ASSUME NEW s, s.crlf \in BOOLEAN, NEW n \in Nat
  PROVE  /\ At(s, n) \in Nat /\ At(s, n) >= n
         /\ At(s, n + 1) \in {At(s, n) + 1, At(s, n) + 2}
         /\ ~s.crlf => At(s, n + 1) = At(s, n) + 1
  <1>1. CASE ~s.crlf
    BY <1>1 DEF At
  <1>2. CASE s.crlf
    <2>1. PICK a \in Int, b \in 0 .. 4 : /\ n = 5 * a + b + 1
                                         /\ (n - 1) \div 5 = a /\ (n - 1) % 5 = b
                                         /\ n > 0 => a \in Nat
      BY Fifths
    <2>2. PICK c \in Int, d \in 0 .. 4 : /\ n + 1 = 5 * c + d + 1
                                         /\ (n + 1 - 1) \div 5 = c /\ (n + 1 - 1) % 5 = d
                                         /\ n + 1 > 0 => c \in Nat
      <3>1. n + 1 \in Nat
        OBVIOUS
      <3>2. QED
        BY <3>1, Fifths
    <2>3. IF b < 4 THEN c = a /\ d = b + 1 ELSE c = a + 1 /\ d = 0
      BY <2>1, <2>2
    <2>4. At(s, n) = 7 * a + (IF b < 3 THEN b + 1 ELSE 2 * b - 1)
      BY <1>2, <2>1 DEF At
    <2>5. At(s, n + 1) = 7 * c + (IF d < 3 THEN d + 1 ELSE 2 * d - 1)
      BY <1>2, <2>2 DEF At
    <2>6. a \in Nat \/ (a = -1 /\ b = 4)
      BY <2>1
    <2>7. QED
      BY <1>2, <2>1, <2>2, <2>3, <2>4, <2>5, <2>6
  <1>3. QED
    BY <1>1, <1>2

(* A place on the wire is one of Width(s) of an event.                     *)
LEMMA Places ==
  ASSUME NEW w \in {5, 7}, NEW m \in Nat
  PROVE  /\ w * m \in Nat
         /\ \A a \in 0 .. m - 1, b \in 0 .. w - 1 :
              /\ w * a + b + 1 \in 1 .. w * m
              /\ (w * a + b + 1 - 1) \div w = a /\ (w * a + b + 1 - 1) % w = b
         /\ \A p \in 1 .. w * m : \E a \in 0 .. m - 1, b \in 0 .. w - 1 : p = w * a + b + 1
  <1>1. CASE w = 5
    <2>1. ASSUME NEW a \in 0 .. m - 1, NEW b \in 0 .. 4
          PROVE  /\ 5 * a + b + 1 \in 1 .. 5 * m
                 /\ (5 * a + b + 1 - 1) \div 5 = a /\ (5 * a + b + 1 - 1) % 5 = b
      OBVIOUS
    <2>2. ASSUME NEW p \in 1 .. 5 * m
          PROVE  \E a \in 0 .. m - 1, b \in 0 .. 4 : p = 5 * a + b + 1
      <3>1. /\ (p - 1) \div 5 \in 0 .. m - 1 /\ (p - 1) % 5 \in 0 .. 4
            /\ p = 5 * ((p - 1) \div 5) + ((p - 1) % 5) + 1
        OBVIOUS
      <3>2. QED
        BY <3>1
    <2>3. QED
      BY <1>1, <2>1, <2>2
  <1>2. CASE w = 7
    <2>1. ASSUME NEW a \in 0 .. m - 1, NEW b \in 0 .. 6
          PROVE  /\ 7 * a + b + 1 \in 1 .. 7 * m
                 /\ (7 * a + b + 1 - 1) \div 7 = a /\ (7 * a + b + 1 - 1) % 7 = b
      OBVIOUS
    <2>2. ASSUME NEW p \in 1 .. 7 * m
          PROVE  \E a \in 0 .. m - 1, b \in 0 .. 6 : p = 7 * a + b + 1
      <3>1. /\ (p - 1) \div 7 \in 0 .. m - 1 /\ (p - 1) % 7 \in 0 .. 6
            /\ p = 7 * ((p - 1) \div 7) + ((p - 1) % 7) + 1
        OBVIOUS
      <3>2. QED
        BY <3>1
    <2>3. QED
      BY <1>2, <2>1, <2>2
  <1>3. QED
    BY <1>1, <1>2

(* What a server sends is the plain text, with a CR before each LF.         *)
LEMMA WireIs ==
  ASSUME NEW s \in Streams
  PROVE  /\ Len(s.events) \in Nat /\ s.crlf \in BOOLEAN
         /\ Wire(s) \in Seq(Nat \X Nat)
         /\ Len(Wire(s)) = Width(s) * Len(s.events)
         /\ \A n \in 1 .. 5 * Len(s.events) :
              At(s, n) \in 1 .. Len(Wire(s)) /\ Wire(s)[At(s, n)] = Plain(n)
         /\ \A n \in 0 .. 5 * Len(s.events) - 1 :
              At(s, n) + 1 < At(s, n + 1) =>
                Wire(s)[At(s, n) + 1] = CR /\ Plain(n + 1) = LF
         /\ At(s, 5 * Len(s.events)) = Len(Wire(s))
  <1> DEFINE E == Len(s.events)
             W == Width(s)
  <1>1. E \in Nat /\ s.crlf \in BOOLEAN
    BY StreamAssumption
  <1>2. W \in {5, 7} /\ (s.crlf => W = 7) /\ (~s.crlf => W = 5)
    BY DEF Width
  <1>3. Wire(s) = [p \in 1 .. W * E |-> Line(((p - 1) \div W) + 1, s.crlf)[((p - 1) % W) + 1]]
    BY DEF Wire, Width
  <1>0. Len(s.events) = E /\ Width(s) = W
    OBVIOUS
  <1> HIDE DEF E, W
  <1>11. W * E \in Nat
    BY <1>1, <1>2, Places
  <1>4. ASSUME NEW a \in 0 .. E - 1, NEW b \in 0 .. W - 1
        PROVE  /\ W * a + b + 1 \in 1 .. W * E
               /\ Wire(s)[W * a + b + 1] = Line(a + 1, s.crlf)[b + 1]
    <2> DEFINE p == W * a + b + 1
    <2>1. p \in 1 .. W * E /\ (p - 1) \div W = a /\ (p - 1) % W = b
      BY <1>1, <1>2, Places
    <2> HIDE DEF p
    <2>2. Wire(s)[p] = Line(a + 1, s.crlf)[b + 1]
      BY <1>3, <2>1
    <2>3. QED
      BY <2>1, <2>2 DEF p
  <1>5. ASSUME NEW p \in 1 .. W * E
        PROVE  \E a \in 0 .. E - 1, b \in 0 .. W - 1 : p = W * a + b + 1
    BY <1>1, <1>2, Places
  <1>6. Wire(s) \in Seq(Nat \X Nat) /\ Len(Wire(s)) = W * E
    <2>1. ASSUME NEW p \in 1 .. W * E PROVE Wire(s)[p] \in Nat \X Nat
      <3>1. PICK a \in 0 .. E - 1, b \in 0 .. W - 1 : p = W * a + b + 1
        BY <1>5
      <3>2. Wire(s)[p] = Line(a + 1, s.crlf)[b + 1]
        BY <3>1, <1>4
      <3>3. CASE s.crlf
        <4>1. b \in {0, 1, 2, 3, 4, 5, 6}
          BY <3>3, <1>2
        <4>2. a + 1 \in Nat
          BY <1>1
        <4>3. QED
          BY <3>2, <3>3, <4>1, <4>2 DEF Line, CR, LF
      <3>4. CASE ~s.crlf
        <4>1. b \in {0, 1, 2, 3, 4}
          BY <3>4, <1>2
        <4>2. a + 1 \in Nat
          BY <1>1
        <4>3. QED
          BY <3>2, <3>4, <4>1, <4>2 DEF Line, CR, LF
      <3>5. QED
        BY <3>3, <3>4
    <2>2. Wire(s) \in [1 .. W * E -> Nat \X Nat]
      BY <2>1, <1>3
    <2>3. QED
      BY <2>2, <1>11
  <1>7. ASSUME NEW n \in 1 .. 5 * E
        PROVE  At(s, n) \in 1 .. W * E /\ Wire(s)[At(s, n)] = Plain(n)
    <2>1. PICK a \in Int, b \in 0 .. 4 : /\ n = 5 * a + b + 1
                                         /\ (n - 1) \div 5 = a /\ (n - 1) % 5 = b
                                         /\ n > 0 => a \in Nat
      BY Fifths, <1>1
    <2>2. a \in 0 .. E - 1
      BY <2>1, <1>1
    <2>3. Plain(n) = IF b < 3 THEN <<a + 1, b + 1>> ELSE LF
      BY <2>1 DEF Plain
    <2>4. b \in {0, 1, 2, 3, 4}
      OBVIOUS
    <2>5. CASE s.crlf
      <3> DEFINE c == IF b < 3 THEN b ELSE 2 * b - 2
      <3>1. W = 7 /\ c \in 0 .. W - 1 /\ c \in Int
        BY <2>5, <1>2
      <3>2. At(s, n) = W * a + c + 1
        BY <2>1, <2>5, <3>1 DEF At
      <3>3. Wire(s)[At(s, n)] = Line(a + 1, s.crlf)[c + 1] /\ At(s, n) \in 1 .. W * E
        BY <1>4, <2>2, <3>1, <3>2
      <3>4. QED
        BY <3>3, <2>3, <2>4, <2>5 DEF Line
    <2>6. CASE ~s.crlf
      <3>1. W = 5 /\ b \in 0 .. W - 1
        BY <2>6, <1>2
      <3>2. At(s, n) = W * a + b + 1
        BY <2>1, <2>6, <3>1 DEF At
      <3>3. Wire(s)[At(s, n)] = Line(a + 1, s.crlf)[b + 1] /\ At(s, n) \in 1 .. W * E
        BY <1>4, <2>2, <3>1, <3>2
      <3>4. QED
        BY <3>3, <2>3, <2>4, <2>6 DEF Line
    <2>7. QED
      BY <2>5, <2>6, <1>1
  <1>8. ASSUME NEW n \in 0 .. 5 * E - 1, At(s, n) + 1 < At(s, n + 1)
        PROVE  Wire(s)[At(s, n) + 1] = CR /\ Plain(n + 1) = LF
    <2>1. s.crlf /\ W = 7
      BY <1>8, AtSteps, <1>1, <1>2
    <2>2. PICK a \in Int, b \in 0 .. 4 : /\ n + 1 = 5 * a + b + 1
                                         /\ (n + 1 - 1) \div 5 = a /\ (n + 1 - 1) % 5 = b
                                         /\ n + 1 > 0 => a \in Nat
      <3>1. n + 1 \in Nat
        BY <1>1
      <3>2. QED
        BY <3>1, Fifths
    <2>3. At(s, n + 1) = 7 * a + (IF b < 3 THEN b + 1 ELSE 2 * b - 1)
      BY <2>1, <2>2 DEF At
    <2>4. PICK c \in Int, d \in 0 .. 4 : /\ n = 5 * c + d + 1
                                         /\ (n - 1) \div 5 = c /\ (n - 1) % 5 = d
                                         /\ n > 0 => c \in Nat
      BY Fifths, <1>1
    <2>5. At(s, n) = 7 * c + (IF d < 3 THEN d + 1 ELSE 2 * d - 1)
      BY <2>1, <2>4 DEF At
    <2>6. a \in 0 .. E - 1 /\ b \in {3, 4} /\ c = a /\ d = b - 1
      BY <2>2, <2>3, <2>4, <2>5, <1>8, <1>1
    <2>7. At(s, n) + 1 = 7 * a + (2 * b - 3) + 1 /\ 2 * b - 3 \in 0 .. 6
      BY <2>5, <2>6
    <2>8. Wire(s)[At(s, n) + 1] = Line(a + 1, s.crlf)[2 * b - 2]
      <3>1. 2 * b - 3 \in 0 .. W - 1 /\ 2 * b - 3 + 1 = 2 * b - 2
        BY <2>1, <2>7
      <3>2. QED
        BY <2>1, <2>6, <2>7, <3>1, <1>4
    <2>9. Plain(n + 1) = LF
      BY <2>2, <2>6 DEF Plain
    <2>10. QED
      BY <2>1, <2>6, <2>8, <2>9 DEF Line
  <1>9. At(s, 5 * E) = W * E
    <2>1. PICK a \in Int, b \in 0 .. 4 : /\ 5 * E = 5 * a + b + 1
                                         /\ (5 * E - 1) \div 5 = a /\ (5 * E - 1) % 5 = b
                                         /\ 5 * E > 0 => a \in Nat
      <3>1. 5 * E \in Nat
        BY <1>1
      <3>2. QED
        BY <3>1, Fifths
    <2>2. b = 4 /\ a = E - 1
      BY <2>1, <1>1
    <2>3. QED
      BY <2>1, <2>2, <1>1, <1>2 DEF At
  <1>10. QED
    BY <1>0, <1>1, <1>6, <1>7, <1>8, <1>9

(***************************************************************************)
(* Induction, and the list of a set of numbers.                            *)
(***************************************************************************)
(* The numbers are well ordered, which gives induction on them.            *)
LEMMA LeastElement ==
  ASSUME NEW S \in SUBSET Nat, S # {}
  PROVE  \E n \in S : \A m \in S : n <= m
  <1>1. PICK n \in S : \A m \in S : ~ (<<m, n>> \in OpToRel(<, Nat))
    BY NatLessThanWellFounded, WFMin
  <1>2. ASSUME NEW m \in S PROVE n <= m
    <2>1. <<m, n>>[1] = m /\ <<m, n>>[2] = n /\ <<m, n>> \in Nat \X Nat
      OBVIOUS
    <2>2. ~(m < n)
      BY <1>1, <2>1 DEF OpToRel
    <2>3. QED
      BY <2>2
  <1>3. QED
    BY <1>2

LEMMA InductionOnNat ==
  ASSUME NEW S, 0 \in S, \A n \in Nat : n \in S => n + 1 \in S
  PROVE  Nat \subseteq S
  <1>1. SUFFICES ASSUME Nat \ S # {} PROVE FALSE
    OBVIOUS
  <1>2. PICK n \in Nat \ S : \A m \in Nat \ S : n <= m
    BY <1>1, LeastElement
  <1>3. n # 0 /\ n - 1 \in Nat /\ n - 1 \in S
    BY <1>2
  <1>4. QED
    BY <1>2, <1>3

(* A member of a set of numbers is where its rank says.                    *)
Rank(S, i) == Cardinality({j \in S : j <= i})

(* Every member of a finite set is in its list.                            *)
LEMMA AscendingLists ==
  ASSUME NEW S \in SUBSET Nat, IsFiniteSet(S)
  PROVE  /\ Cardinality(S) \in Nat
         /\ Ascending(S) \in [1 .. Cardinality(S) -> S]
         /\ \A i \in S : /\ Rank(S, i) \in 1 .. Cardinality(S)
                         /\ Ascending(S)[Rank(S, i)] = i
  <1> DEFINE N == Cardinality(S)
             Upto(i) == {j \in S : j <= i}
             rank == [i \in S |-> Cardinality(Upto(i))]
  <1>1. N \in Nat
    BY FS_CardinalityType
  <1>2. ASSUME NEW i \in S
        PROVE  IsFiniteSet(Upto(i)) /\ Cardinality(Upto(i)) \in 1 .. N
    <2>1. Upto(i) \in SUBSET S /\ i \in Upto(i)
      OBVIOUS
    <2> HIDE DEF Upto
    <2>2. IsFiniteSet(Upto(i)) /\ Cardinality(Upto(i)) <= N
      BY <2>1, FS_Subset
    <2>3. Cardinality(Upto(i)) \in Nat /\ Cardinality(Upto(i)) # 0
      BY <2>1, <2>2, FS_CardinalityType, FS_EmptySet
    <2> HIDE DEF N
    <2>4. QED
      BY <1>1, <2>2, <2>3
  <1>3. ASSUME NEW i \in S, NEW j \in S, i < j PROVE rank[i] < rank[j]
    <2>0. i \in Nat /\ j \in Nat
      OBVIOUS
    <2>1. Upto(i) \in SUBSET Upto(j) /\ j \in Upto(j) /\ j \notin Upto(i)
      <3>1. ASSUME NEW k \in S, k <= i PROVE k <= j
        <4>1. k \in Nat
          OBVIOUS
        <4>2. QED
          BY <1>3, <2>0, <3>1, <4>1
      <3>2. Upto(i) \in SUBSET Upto(j)
        BY <3>1
      <3>3. j <= j /\ ~(j <= i)
        BY <1>3, <2>0
      <3>4. QED
        BY <3>2, <3>3
    <2>2. /\ IsFiniteSet(Upto(j))
          /\ Cardinality(Upto(i)) \in Nat /\ Cardinality(Upto(j)) \in Nat
      <3> HIDE DEF N, Upto
      <3>1. QED
        BY <1>1, <1>2
    <2>3. rank[i] = Cardinality(Upto(i)) /\ rank[j] = Cardinality(Upto(j))
      OBVIOUS
    <2> HIDE DEF Upto, rank
    <2>4. /\ Cardinality(Upto(i)) <= Cardinality(Upto(j))
          /\ Cardinality(Upto(j)) = Cardinality(Upto(i)) => Upto(j) = Upto(i)
      BY <2>1, <2>2, FS_Subset
    <2>5. QED
      BY <2>1, <2>2, <2>3, <2>4
  <1>4. rank \in [S -> 1 .. N]
    <2>1. ASSUME NEW i \in S PROVE Cardinality(Upto(i)) \in 1 .. N
      <3> HIDE DEF N, Upto
      <3>1. QED
        BY <1>2
    <2>2. QED
      BY <2>1
  <1>5. \A i \in S : rank[i] = Rank(S, i)
    BY DEF Rank
  <1>6. Ascending(S) = [n \in 1 .. N |-> CHOOSE i \in S : Rank(S, i) = n]
    BY DEF Ascending, Rank
  <1> HIDE DEF N, rank
  <1>7. ASSUME NEW i \in S, NEW j \in S, rank[i] = rank[j] PROVE i = j
    <2>1. ~(i < j) /\ ~(j < i)
      BY <1>3, <1>4, <1>7
    <2>2. QED
      BY <2>1
  <1>8. rank \in Injection(S, 1 .. N)
    BY <1>4, <1>7 DEF Injection, IsInjective
  <1>9. IsFiniteSet(1 .. N) /\ Cardinality(1 .. N) = N
    BY <1>1, FS_Interval
  <1>10. rank \in Surjection(S, 1 .. N)
    BY <1>8, <1>9, FS_Injection DEF N
  <1>11. \A n \in 1 .. N : \E i \in S : Rank(S, i) = n
    BY <1>5, <1>10 DEF Surjection
  <1>12. \A n \in 1 .. N : Ascending(S)[n] \in S /\ Rank(S, Ascending(S)[n]) = n
    BY <1>6, <1>11
  <1>13. Ascending(S) \in [1 .. N -> S]
    BY <1>6, <1>11
  <1>14. ASSUME NEW i \in S PROVE Rank(S, i) \in 1 .. N /\ Ascending(S)[Rank(S, i)] = i
    <2>1. Rank(S, i) \in 1 .. N
      BY <1>4, <1>5
    <2> DEFINE j == Ascending(S)[Rank(S, i)]
    <2>2. j \in S /\ Rank(S, j) = Rank(S, i)
      BY <2>1, <1>12
    <2> HIDE DEF j
    <2>3. j = i
      BY <2>2, <1>5, <1>7
    <2>4. QED
      BY <2>1, <2>3 DEF j
  <1>15. QED
    BY <1>1, <1>13, <1>14 DEF N

(* There is one way to list a set of numbers in order.                     *)
LEMMA AscendingIs ==
  ASSUME NEW S \in SUBSET Nat, NEW L \in Nat, NEW f \in [1 .. L -> S],
         \A m, n \in 1 .. L : m < n => f[m] < f[n],
         \A i \in S : \E n \in 1 .. L : f[n] = i
  PROVE  Ascending(S) = f
  <1>1. \A m, n \in 1 .. L : m # n => f[m] # f[n]
    <2>1. ASSUME NEW m \in 1 .. L, NEW n \in 1 .. L, m # n PROVE f[m] # f[n]
      <3>1. f[m] \in Nat /\ f[n] \in Nat
        OBVIOUS
      <3>2. CASE m < n
        BY <3>1, <3>2
      <3>3. CASE n < m
        BY <3>1, <3>3
      <3>4. QED
        BY <2>1, <3>2, <3>3
    <2>2. QED
      BY <2>1
  <1>2. ASSUME NEW n \in 1 .. L PROVE Rank(S, f[n]) = n
    <2> DEFINE T == {j \in S : j <= f[n]}
               g == [m \in 1 .. n |-> f[m]]
    <2>1. ASSUME NEW m \in 1 .. n PROVE f[m] \in T
      <3>1. m \in 1 .. L /\ (m = n \/ m < n)
        OBVIOUS
      <3>2. f[m] \in Nat /\ f[n] \in Nat
        BY <3>1
      <3>4. f[m] <= f[n]
        BY <3>1, <3>2
      <3>3. QED
        BY <3>1, <3>4
    <2>2. ASSUME NEW i \in T PROVE \E m \in 1 .. n : f[m] = i
      <3>1. PICK m \in 1 .. L : f[m] = i
        OBVIOUS
      <3>2. f[m] \in Nat /\ f[n] \in Nat /\ i <= f[n]
        OBVIOUS
      <3>4. ~(n < m)
        BY <3>1, <3>2
      <3>3. QED
        BY <3>1, <3>4
    <2> HIDE DEF T
    <2>3. g \in [1 .. n -> T]
      BY <2>1
    <2>4. \A a, b \in 1 .. n : g[a] = g[b] => a = b
      BY <1>1
    <2>5. \A i \in T : \E m \in 1 .. n : g[m] = i
      BY <2>2
    <2> HIDE DEF g
    <2>6. g \in Bijection(1 .. n, T)
      BY <2>3, <2>4, <2>5 DEF Bijection, Injection, Surjection, IsInjective
    <2>7. Cardinality(T) = n
      BY <2>6, FS_CountingElements DEF ExistsBijection
    <2>8. QED
      BY <2>7 DEF Rank, T
  <1>3. f \in Bijection(1 .. L, S)
    BY <1>1 DEF Bijection, Injection, Surjection, IsInjective
  <1>4. Cardinality(S) = L
    BY <1>3, FS_CountingElements DEF ExistsBijection
  <1>5. IsFiniteSet(S)
    BY <1>3, FS_NatBijection DEF ExistsBijection
  <1>6. Ascending(S) \in [1 .. L -> S]
    BY <1>4, <1>5, AscendingLists
  <1>7. \A n \in 1 .. L : Ascending(S)[n] = f[n]
    BY <1>2, <1>4, <1>5, AscendingLists
  <1>8. QED
    BY <1>6, <1>7

(***************************************************************************)
(* What was read, once its line ends are normalised.                       *)
(***************************************************************************)
LEMMA AtStart == ASSUME NEW s PROVE At(s, 0) = 0
  BY DEF At

(* Places are in the order of the characters.                              *)
LEMMA AtGrows ==
  ASSUME NEW s, s.crlf \in BOOLEAN, NEW m \in Nat, NEW n \in Nat
  PROVE  /\ At(s, m) \in Nat /\ At(s, n) \in Nat
         /\ m < n <=> At(s, m) < At(s, n)
         /\ m = n <=> At(s, m) = At(s, n)
  <1>2. \A i \in Nat : At(s, i) \in Nat /\ At(s, i) < At(s, i + 1)
    BY AtSteps
  <1> DEFINE S == {i \in Nat : \A j \in Nat : j < i => At(s, j) < At(s, i)}
  <1>3. 0 \in S
    OBVIOUS
  <1>4. ASSUME NEW i \in Nat, i \in S PROVE i + 1 \in S
    <2>1. ASSUME NEW j \in Nat, j < i + 1 PROVE At(s, j) < At(s, i + 1)
      <3>1. /\ At(s, j) \in Nat /\ At(s, i) \in Nat /\ At(s, i + 1) \in Nat
            /\ At(s, i) < At(s, i + 1)
        BY <1>2
      <3>2. CASE j = i
        BY <3>1, <3>2
      <3>3. CASE j < i
        BY <3>1, <3>3, <1>4
      <3>4. QED
        BY <2>1, <3>2, <3>3
    <2>2. QED
      BY <2>1
  <1>5. \A i \in Nat : i \in S
    <2> HIDE DEF S
    <2>1. QED
      BY <1>3, <1>4, InductionOnNat
  <1>6. At(s, m) \in Nat /\ At(s, n) \in Nat
    BY <1>2
  <1>7. /\ m < n => At(s, m) < At(s, n)
        /\ n < m => At(s, n) < At(s, m)
    BY <1>5
  <1>8. m < n \/ m = n \/ n < m
    OBVIOUS
  <1>9. QED
    BY <1>6, <1>7, <1>8

LEMMA AtOrder ==
  ASSUME NEW s, s.crlf \in BOOLEAN
  PROVE  \A i, j \in Nat : At(s, i) \in Nat /\ (i < j <=> At(s, i) < At(s, j))
  <1> SUFFICES ASSUME NEW i \in Nat, NEW j \in Nat
               PROVE  At(s, i) \in Nat /\ (i < j <=> At(s, i) < At(s, j))
    OBVIOUS
  <1>1. At(s, i) \in Nat /\ At(s, j) \in Nat
    BY AtGrows
  <1>2. QED
    BY <1>1, AtGrows

(* Every place is that of a character, or one behind it.                   *)
LEMMA AtBetween ==
  ASSUME NEW s, s.crlf \in BOOLEAN, NEW p \in Nat
  PROVE  \E n \in Nat : At(s, n) <= p /\ p < At(s, n + 1)
  <1> DEFINE S == {n \in Nat : p < At(s, n)}
  <1>1. p + 1 \in S
    <2>1. At(s, p + 1) \in Nat /\ At(s, p + 1) >= p + 1
      BY AtSteps
    <2>2. QED
      BY <2>1
  <1>2. PICK n \in S : \A m \in S : n <= m
    BY <1>1, LeastElement
  <1>3. n # 0
    BY AtStart
  <1>4. n - 1 \in Nat /\ n - 1 + 1 = n /\ n - 1 \notin S
    BY <1>2, <1>3
  <1>5. At(s, n - 1) \in Nat
    BY <1>4, AtGrows
  <1>6. QED
    BY <1>4, <1>5

(* The text is what was read of the events after the first k: n characters *)
(* of the plain text in all, and perhaps a CR whose LF has not come yet.   *)
Window(s, chars, k, n, p) ==
  /\ n \in Nat /\ 5 * k <= n
  /\ At(s, n) <= p /\ p < At(s, n + 1)
  /\ chars \in Seq(Nat \X Nat)
  /\ Len(chars) = (n - 5 * k) + (p - At(s, n))
  /\ \A q \in 1 .. n - 5 * k : chars[q] = Plain(5 * k + q)
  /\ p # At(s, n) => chars[n - 5 * k + 1] = CR

(* No character of the plain text is a CR.                                 *)
LEMMA PlainIsText ==
  ASSUME NEW n \in Nat, n > 0
  PROVE  Plain(n) \in Nat \X Nat /\ Plain(n) # CR
  <1>1. PICK a \in Int, b \in 0 .. 4 : /\ n = 5 * a + b + 1
                                       /\ (n - 1) \div 5 = a /\ (n - 1) % 5 = b
                                       /\ n > 0 => a \in Nat
    BY Fifths
  <1>2. Plain(n) = IF b < 3 THEN <<a + 1, b + 1>> ELSE LF
    BY <1>1 DEF Plain
  <1>3. QED
    BY <1>1, <1>2 DEF LF, CR

(* However much is read, the text stays a window on the plain text.        *)
LEMMA ArrivalKeepsTheWindow ==
  ASSUME NEW s \in Streams, NEW k \in Nat, NEW n, NEW p \in Nat, NEW chars,
         Window(s, chars, k, n, p), NEW p2 \in Nat, p < p2, p2 <= Len(Wire(s))
  PROVE  \E n2 : Window(s, Normalised(chars \o SubSeq(Wire(s), p + 1, p2)), k, n2, p2)
  <1> DEFINE E == Len(s.events)
             W == Wire(s)
             a == At(s, n)
             d == n - 5 * k
             L == Len(chars)
             got == SubSeq(W, p + 1, p2)
             T == chars \o got
  <1>1. s.crlf \in BOOLEAN
    BY StreamAssumption
  <1>2. /\ n \in Nat /\ 5 * k <= n /\ a <= p /\ p < At(s, n + 1)
        /\ chars \in Seq(Nat \X Nat) /\ L = d + (p - a)
        /\ p # a => chars[d + 1] = CR
    BY DEF Window
  <1>3. \A q \in 1 .. d : chars[q] = Plain(5 * k + q)
    BY DEF Window
  <1>4. E \in Nat /\ W \in Seq(Nat \X Nat) /\ At(s, 5 * E) = Len(W)
    BY WireIs
  <1>5. \A i \in 1 .. 5 * E : At(s, i) \in 1 .. Len(W) /\ W[At(s, i)] = Plain(i)
    BY WireIs
  <1>6. \A i \in 0 .. 5 * E - 1 : At(s, i) + 1 < At(s, i + 1) =>
          W[At(s, i) + 1] = CR /\ Plain(i + 1) = LF
    BY WireIs
  <1>7. a \in Nat /\ d \in Nat /\ L \in Nat /\ Len(W) \in Nat /\ p2 <= Len(W)
    BY <1>1, <1>2, <1>4, AtGrows
  <1>8. /\ got \in Seq(Nat \X Nat) /\ Len(got) = p2 - p
        /\ \A i \in 1 .. p2 - p : got[i] = W[p + i]
    <2> HIDE DEF W
    <2>1. QED
      BY <1>4, <1>7, SubSeqProperties
  <1>9. PICK n2 \in Nat : At(s, n2) <= p2 /\ p2 < At(s, n2 + 1)
    BY <1>1, AtBetween
  <1> DEFINE a2 == At(s, n2)
  <1>10. \A i, j \in Nat : At(s, i) \in Nat /\ (i < j <=> At(s, i) < At(s, j))
    BY <1>1, AtOrder
  <1>11. a2 \in Nat /\ At(s, n + 1) \in {a + 1, a + 2}
    <2>1. a2 \in Nat
      BY <1>9, <1>10
    <2>2. At(s, n + 1) \in {a + 1, a + 2}
      BY <1>1, <1>2, AtSteps
    <2>3. QED
      BY <2>1, <2>2
  <1> HIDE DEF E, W, a, d, L, got
  <1>12. n <= n2 /\ n2 <= 5 * E
    <2>1. /\ 5 * E \in Nat /\ n2 + 1 \in Nat
          /\ At(s, n2 + 1) \in Nat /\ At(s, 5 * E) \in Nat
      BY <1>4, <1>9, <1>10
    <2>2. At(s, n) < At(s, n2 + 1)
      BY <1>2, <1>7, <1>9, <2>1 DEF a
    <2>3. ~(At(s, 5 * E) < At(s, n2))
      BY <1>4, <1>7, <1>9, <1>11, <2>1
    <2>4. n < n2 + 1 /\ ~(5 * E < n2)
      BY <1>2, <1>9, <1>10, <2>1, <2>2, <2>3
    <2>5. QED
      BY <1>2, <1>9, <2>1, <2>4
  <1>13. /\ T \in Seq(Nat \X Nat) /\ Len(T) = L + (p2 - p) /\ Len(T) = d + (p2 - a)
         /\ \A i \in 1 .. L : T[i] = chars[i]
         /\ \A i \in L + 1 .. Len(T) : T[i] = got[i - L]
    <2>1. /\ T \in Seq(Nat \X Nat) /\ Len(T) = L + Len(got)
          /\ \A i \in 1 .. L + Len(got) :
               T[i] = IF i <= L THEN chars[i] ELSE got[i - L]
      BY <1>2, <1>8, ConcatProperties DEF L
    <2> HIDE DEF T
    <2>2. Len(got) = p2 - p /\ p2 - p \in Nat
      BY <1>8
    <2>3. Len(T) = L + (p2 - p) /\ Len(T) = d + (p2 - a)
      BY <2>1, <2>2, <1>2, <1>7
    <2>4. ASSUME NEW i \in 1 .. L PROVE T[i] = chars[i]
      <3>1. i \in 1 .. L + Len(got) /\ i <= L
        BY <2>2, <1>7
      <3>2. QED
        BY <2>1, <3>1
    <2>5. ASSUME NEW i \in L + 1 .. Len(T) PROVE T[i] = got[i - L]
      <3>1. i \in 1 .. L + Len(got) /\ ~(i <= L)
        BY <2>1, <2>2, <2>3, <1>7
      <3>2. QED
        BY <2>1, <3>1
    <2>6. QED
      BY <2>1, <2>3, <2>4, <2>5
  <1> HIDE DEF T
  <1>14. \A i \in 1 .. d : T[i] = Plain(5 * k + i)
    <2>1. d <= L
      BY <1>2, <1>7
    <2>2. QED
      BY <2>1, <1>3, <1>7, <1>13
  <1>15. ASSUME NEW i \in d + 1 .. Len(T)
         PROVE  i - d + a \in a + 1 .. p2 /\ T[i] = W[i - d + a]
    <2>1. i \in Int /\ d < i /\ i <= d + (p2 - a)
      BY <1>7, <1>13
    <2>2. i - d + a \in a + 1 .. p2
      BY <1>7, <2>1
    <2>3. CASE i <= L
      <3>1. p = a + 1 /\ i = d + 1 /\ a + 1 < At(s, n + 1)
        BY <1>2, <1>7, <1>11, <2>1, <2>3
      <3>2. n \in 0 .. 5 * E - 1
        <4>1. 5 * E \in Nat /\ At(s, n) < At(s, 5 * E)
          BY <1>4, <1>7, <3>1 DEF a
        <4>2. n < 5 * E
          BY <1>2, <1>10, <4>1
        <4>3. QED
          BY <1>2, <4>1, <4>2
      <3>3. W[a + 1] = CR
        BY <1>6, <3>1, <3>2 DEF a
      <3>4. T[i] = CR
        <4>1. i \in 1 .. L /\ p # a
          BY <1>7, <2>1, <2>3, <3>1
        <4>2. QED
          BY <1>2, <1>13, <3>1, <4>1
      <3>5. i - d + a = a + 1
        BY <1>7, <3>1
      <3>6. QED
        BY <2>2, <3>3, <3>4, <3>5
    <2>4. CASE L < i
      <3>1. T[i] = got[i - L]
        <4>1. i \in L + 1 .. Len(T)
          BY <1>7, <1>13, <2>1, <2>4
        <4>2. QED
          BY <1>13, <4>1
      <3>2. i - L \in 1 .. p2 - p /\ p + (i - L) = i - d + a
        BY <1>2, <1>7, <2>1, <2>4
      <3>3. QED
        BY <1>8, <2>2, <3>1, <3>2
    <2>5. QED
      BY <2>1, <2>3, <2>4, <1>7
  <1> DEFINE N == Len(T)
             K == {i \in DOMAIN T : ~(T[i] = CR /\ i < Len(T) /\ T[i + 1] = LF)}
             e == n2 - 5 * k
             M == e + (p2 - a2)
             place(q) == IF q <= d THEN q
                         ELSE IF q <= e THEN d - a + At(s, 5 * k + q) ELSE N
  <1>16. /\ N \in Nat /\ N = d + (p2 - a) /\ d < N /\ DOMAIN T = 1 .. N
         /\ e \in Nat /\ d <= e /\ M \in Nat /\ p2 - a2 \in {0, 1}
    <2>1. /\ N \in Nat /\ N = d + (p2 - a) /\ d < N /\ DOMAIN T = 1 .. N
      BY <1>2, <1>7, <1>13
    <2>2. e \in Nat /\ d <= e
      BY <1>2, <1>12 DEF d
    <2>3. At(s, n2 + 1) \in {a2 + 1, a2 + 2}
      BY <1>1, AtSteps
    <2>4. p2 - a2 \in {0, 1}
      BY <1>9, <1>11, <2>3
    <2>5. QED
      BY <2>1, <2>2, <2>4
  <1> HIDE DEF N, e, M
  (* Where a character of the plain text is, and where a CR is.             *)
  <1>17. ASSUME NEW m \in n + 1 .. n2
         PROVE  /\ At(s, m) \in Nat /\ d - a + At(s, m) \in d + 1 .. N
                /\ T[d - a + At(s, m)] = Plain(m)
    <2>1. m \in Nat /\ m \in 1 .. 5 * E /\ n < m /\ ~(n2 < m)
      BY <1>2, <1>4, <1>12
    <2>2. At(s, m) \in Nat /\ a < At(s, m) /\ ~(a2 < At(s, m))
      BY <1>2, <1>10, <2>1 DEF a
    <2>3. d - a + At(s, m) \in d + 1 .. N
      BY <1>7, <1>9, <1>11, <1>16, <2>2
    <2> DEFINE i == d - a + At(s, m)
    <2>4. i \in d + 1 .. N /\ i - d + a = At(s, m)
      BY <1>7, <2>2, <2>3
    <2> HIDE DEF i
    <2>5. T[i] = W[At(s, m)]
      BY <1>15, <2>4 DEF N
    <2>6. T[i] = Plain(m)
      BY <1>5, <2>1, <2>5
    <2>7. QED
      BY <2>2, <2>3, <2>6 DEF i
  <1>18. ASSUME NEW i \in d + 1 .. N
         PROVE  \/ \E m \in n + 1 .. n2 : i = d - a + At(s, m)
                \/ i < N /\ T[i] = CR /\ T[i + 1] = LF
                \/ i = N /\ p2 # a2 /\ T[i] = CR
    <2> DEFINE r == i - d + a
    <2>1. r \in a + 1 .. p2 /\ T[i] = W[r] /\ r \in Nat
      BY <1>7, <1>15 DEF N
    <2>2. i = d - a + r /\ r <= p2 /\ a < r
      BY <1>7, <1>16, <2>1
    <2> HIDE DEF r
    <2>3. PICK m \in Nat : At(s, m) <= r /\ r < At(s, m + 1)
      BY <1>1, <2>1, AtBetween
    <2>4. At(s, m) \in Nat /\ At(s, m + 1) \in {At(s, m) + 1, At(s, m) + 2}
      BY <1>1, <1>10, <2>3, AtSteps
    <2>5. n <= m /\ m <= n2
      <3>1. m + 1 \in Nat /\ n2 + 1 \in Nat /\ At(s, m + 1) \in Nat /\ At(s, n2 + 1) \in Nat
        BY <1>9, <1>10, <2>3
      <3>2. At(s, n) < At(s, m + 1)
        BY <1>7, <2>1, <2>2, <2>3, <3>1 DEF a
      <3>3. At(s, m) < At(s, n2 + 1)
        BY <1>9, <2>1, <2>2, <2>3, <2>4, <3>1
      <3>4. n < m + 1 /\ m < n2 + 1
        BY <1>2, <1>9, <1>10, <2>3, <3>1, <3>2, <3>3
      <3>5. QED
        BY <1>2, <1>9, <2>3, <3>4
    <2>6. CASE r = At(s, m)
      <3>1. m # n
        BY <2>1, <2>2, <2>6, <1>7 DEF a
      <3>2. m \in n + 1 .. n2
        BY <1>2, <1>9, <2>3, <2>5, <3>1
      <3>3. QED
        BY <2>2, <2>6, <3>2
    <2>7. CASE r # At(s, m)
      <3>1. r = At(s, m) + 1 /\ At(s, m + 1) = r + 1 /\ At(s, m) + 1 < At(s, m + 1)
        BY <2>1, <2>3, <2>4, <2>7
      <3>2. m \in 0 .. 5 * E - 1
        <4>1. At(s, m) < At(s, 5 * E) /\ 5 * E \in Nat
          <5>1. At(s, m) < Len(W)
            BY <1>7, <2>2, <2>4, <3>1
          <5>2. QED
            BY <1>4, <5>1
        <4>2. m < 5 * E
          BY <1>10, <2>3, <4>1
        <4>3. QED
          BY <2>3, <4>1, <4>2
      <3>3. T[i] = CR /\ Plain(m + 1) = LF
        BY <1>6, <2>1, <3>1, <3>2
      <3>4. CASE i = N
        <4>1. r = p2
          BY <1>7, <1>16, <2>1, <2>2, <3>4
        <4>2. m = n2
          <5>1. CASE m < n2
            <6>1. m + 1 \in Nat /\ ~(n2 < m + 1)
              BY <1>9, <2>3, <5>1
            <6>2. ~(At(s, n2) < At(s, m + 1))
              BY <1>9, <1>10, <6>1
            <6>3. QED
              BY <1>9, <1>11, <2>1, <3>1, <4>1, <6>2
          <5>2. QED
            BY <1>9, <2>3, <2>5, <5>1
        <4>3. QED
          BY <2>7, <3>3, <3>4, <4>1, <4>2
      <3>5. CASE i < N
        <4>1. r + 1 <= p2 /\ i + 1 \in d + 1 .. N /\ i + 1 - d + a = r + 1
          BY <1>7, <1>16, <2>1, <2>2, <3>5
        <4>2. T[i + 1] = W[r + 1]
          <5>1. PICK next \in d + 1 .. N : next = i + 1
            BY <4>1
          <5>2. next - d + a = r + 1
            BY <1>7, <2>1, <4>1, <5>1
          <5>3. T[next] = W[r + 1]
            BY <1>15, <5>2 DEF N
          <5>4. QED
            BY <5>1, <5>3
        <4>3. m + 1 \in 1 .. 5 * E
          BY <1>4, <3>2
        <4>4. W[r + 1] = Plain(m + 1)
          BY <1>5, <3>1, <4>3
        <4>5. QED
          BY <3>3, <3>5, <4>2, <4>4
      <3>6. QED
        BY <1>16, <3>4, <3>5
    <2>8. QED
      BY <2>6, <2>7
  <1>19. n2 + 1 \in Nat /\ \A m \in n + 1 .. n2 : m \in Nat /\ m > 0
    BY <1>2, <1>9
  <1>20. \A i \in 1 .. d : i <= n - 5 * k /\ 5 * k + i \in Nat /\ 5 * k + i > 0
    BY <1>2 DEF d
  <1>21. K \in SUBSET Nat /\ K \in SUBSET 1 .. N
    BY <1>16
  <1>22. ASSUME NEW q \in 1 .. M
         PROVE  /\ q \in Nat /\ (q <= e \/ (q = e + 1 /\ p2 # a2))
                /\ q > d /\ q <= e => 5 * k + q \in n + 1 .. n2
    <2>1. q \in Nat /\ q <= e + (p2 - a2) /\ p2 - a2 \in {0, 1} /\ e \in Nat
      BY <1>16 DEF M
    <2>2. q <= e \/ (q = e + 1 /\ p2 # a2)
      <3>1. CASE p2 - a2 = 0
        BY <2>1, <3>1
      <3>2. CASE p2 - a2 = 1
        <4>1. p2 # a2 /\ q <= e + 1
          BY <1>11, <2>1, <3>2
        <4>2. QED
          BY <2>1, <4>1
      <3>3. QED
        BY <2>1, <3>1, <3>2
    <2>3. q > d /\ q <= e => 5 * k + q \in n + 1 .. n2
      BY <2>1, <1>2, <1>9 DEF d, e
    <2>4. QED
      BY <2>1, <2>2, <2>3
  <1>23. ASSUME NEW q \in 1 .. M
         PROVE  /\ place(q) \in K
                /\ q <= d => place(q) = q /\ T[place(q)] = Plain(5 * k + q)
                /\ q > d /\ q <= e => /\ place(q) = d - a + At(s, 5 * k + q)
                                      /\ T[place(q)] = Plain(5 * k + q)
                                      /\ place(q) > d
                /\ q = e + 1 => place(q) = N /\ T[place(q)] = CR
    <2>1. CASE q <= d
      <3>1. place(q) = q /\ q \in 1 .. d /\ q # e + 1 /\ q \in 1 .. N
        BY <1>7, <1>16, <2>1
      <3>2. T[q] = Plain(5 * k + q)
        BY <1>14, <3>1
      <3>3. T[q] # CR
        BY <1>20, <3>1, <3>2, PlainIsText
      <3>4. q \in K
        BY <1>16, <3>1, <3>3
      <3> HIDE DEF K, place
      <3>5. QED
        BY <2>1, <3>1, <3>2, <3>4, <1>7, <1>16
    <2>2. CASE q > d /\ q <= e
      <3>1. PICK m \in n + 1 .. n2 : m = 5 * k + q
        BY <1>22, <2>2
      <3>2. place(q) = d - a + At(s, m) /\ q # e + 1 /\ ~(q <= d)
        BY <1>7, <1>16, <2>2, <3>1
      <3>3. d - a + At(s, m) \in d + 1 .. N /\ T[d - a + At(s, m)] = Plain(m)
        BY <1>17
      <3>4. Plain(m) # CR
        BY <1>19, PlainIsText
      <3> HIDE DEF place
      <3>5. place(q) \in d + 1 .. N /\ T[place(q)] = Plain(m) /\ T[place(q)] # CR
        BY <3>2, <3>3, <3>4
      <3>6. place(q) \in 1 .. N /\ place(q) > d
        BY <3>5, <1>7, <1>16
      <3>7. place(q) \in K
        BY <1>16, <3>5, <3>6
      <3> HIDE DEF K
      <3>8. QED
        BY <2>2, <3>1, <3>2, <3>5, <3>6, <3>7
    <2>3. CASE q = e + 1 /\ p2 # a2
      <3>1. place(q) = N /\ ~(q <= d) /\ ~(q <= e)
        BY <1>7, <1>16, <2>3
      <3>2. N \in d + 1 .. N /\ N \in 1 .. N /\ ~(N < N)
        BY <1>7, <1>16
      <3>3. ASSUME NEW m \in n + 1 .. n2 PROVE N # d - a + At(s, m)
        <4>1. m \in Nat /\ ~(n2 < m)
          BY <1>2, <1>9
        <4>2. At(s, m) \in Nat /\ ~(a2 < At(s, m))
          BY <1>9, <1>10, <4>1
        <4>3. QED
          BY <1>7, <1>9, <1>11, <1>16, <2>3, <4>2
      <3>4. T[N] = CR
        BY <1>18, <3>2, <3>3
      <3>5. N \in K
        BY <1>16, <3>2 DEF N
      <3> HIDE DEF K, place
      <3>6. QED
        BY <3>1, <3>4, <3>5
    <2>4. QED
      BY <1>22, <2>1, <2>2, <2>3, <1>7
  <1> HIDE DEF K, place
  <1>24. \A q \in 1 .. M : place(q) \in 1 .. N /\ place(q) \in Nat
    BY <1>21, <1>23
  <1>25. ASSUME NEW q1 \in 1 .. M, NEW q2 \in 1 .. M, q1 < q2
         PROVE  place(q1) < place(q2)
    <2>0. /\ q1 \in Nat /\ q2 \in Nat /\ place(q1) \in Nat /\ place(q2) \in Nat
          /\ place(q1) <= N
      BY <1>16, <1>24
    <2>1. CASE q2 <= d
      <3>1. q1 <= d
        BY <1>7, <1>25, <2>0, <2>1
      <3>2. place(q1) = q1 /\ place(q2) = q2
        BY <1>23, <2>1, <3>1
      <3>3. QED
        BY <1>25, <3>2
    <2>2. CASE q1 <= d /\ q2 > d
      <3>1. place(q1) = q1
        BY <1>23, <2>2
      <3>2. place(q2) > d
        <4>1. CASE q2 <= e
          BY <1>23, <2>2, <4>1
        <4>2. CASE q2 = e + 1
          BY <1>16, <1>23, <4>2, <1>7
        <4>3. QED
          BY <1>22, <4>1, <4>2
      <3>3. QED
        BY <1>7, <2>0, <2>2, <3>1, <3>2
    <2>3. CASE q1 > d /\ q2 <= e
      <3>1. q1 <= e /\ q2 > d
        BY <1>7, <1>16, <1>25, <2>0, <2>3
      <3>2. /\ place(q1) = d - a + At(s, 5 * k + q1)
            /\ place(q2) = d - a + At(s, 5 * k + q2)
        BY <1>23, <2>3, <3>1
      <3>3. 5 * k + q1 \in Nat /\ 5 * k + q2 \in Nat /\ 5 * k + q1 < 5 * k + q2
        BY <1>25, <2>0
      <3>4. /\ At(s, 5 * k + q1) \in Nat /\ At(s, 5 * k + q2) \in Nat
            /\ At(s, 5 * k + q1) < At(s, 5 * k + q2)
        BY <1>10, <3>3
      <3>5. QED
        BY <1>7, <3>2, <3>4
    <2>4. CASE q2 = e + 1
      <3>1. q1 <= e
        BY <1>16, <1>25, <2>0, <2>4
      <3>2. T[place(q1)] = Plain(5 * k + q1) /\ place(q2) = N /\ T[N] = CR
        BY <1>23, <2>4, <3>1, <1>7, <2>0
      <3>3. 5 * k + q1 \in Nat /\ 5 * k + q1 > 0
        BY <2>0
      <3>4. place(q1) # N
        BY <3>2, <3>3, PlainIsText
      <3>5. QED
        BY <1>16, <2>0, <3>2, <3>4
    <2>5. q2 <= e \/ q2 = e + 1
      BY <1>22
    <2>6. (q2 <= d \/ q2 > d) /\ (q1 <= d \/ q1 > d)
      BY <1>7, <2>0
    <2>7. QED
      BY <2>1, <2>2, <2>3, <2>4, <2>5, <2>6
  <1>26. ASSUME NEW i \in K PROVE \E q \in 1 .. M : place(q) = i
    <2>1. i \in 1 .. N /\ i \in Nat
      BY <1>21
    <2>2. M \in Nat /\ M = e + (p2 - a2) /\ d <= M /\ e <= M
      BY <1>7, <1>9, <1>11, <1>16 DEF M
    <2>3. CASE i <= d
      <3>1. i \in 1 .. M
        BY <1>7, <2>1, <2>2, <2>3
      <3>2. QED
        BY <1>23, <2>3, <3>1
    <2>4. CASE ~(i <= d)
      <3>1. i \in d + 1 .. N
        BY <1>7, <2>1, <2>4
      <3>2. ~(i < N /\ T[i] = CR /\ T[i + 1] = LF)
        BY DEF K, N
      <3>3. CASE \E m \in n + 1 .. n2 : i = d - a + At(s, m)
        <4>1. PICK m \in n + 1 .. n2 : i = d - a + At(s, m)
          BY <3>3
        <4>2. PICK q \in Int : q = m - 5 * k
          BY <1>2, <1>9
        <4>3. q > d /\ q <= e /\ 5 * k + q = m /\ q \in 1 .. M
          BY <1>2, <1>7, <1>9, <1>16, <2>2, <4>2 DEF d, e
        <4>4. QED
          BY <1>23, <4>1, <4>3
      <3>4. CASE i = N /\ p2 # a2
        <4>1. e + 1 \in 1 .. M
          BY <1>16, <2>2, <1>9, <1>11, <3>4
        <4>2. QED
          BY <1>23, <3>4, <4>1
      <3>5. QED
        BY <1>18, <3>1, <3>2, <3>3, <3>4
    <2>5. QED
      BY <2>3, <2>4
  <1> DEFINE f == [q \in 1 .. M |-> place(q)]
  <1>27. Ascending(K) = f
    <2>1. f \in [1 .. M -> K]
      BY <1>23
    <2>2. \A q1, q2 \in 1 .. M : q1 < q2 => f[q1] < f[q2]
      BY <1>25
    <2>3. \A i \in K : \E q \in 1 .. M : f[q] = i
      BY <1>26
    <2>4. M \in Nat
      BY <1>16
    <2> HIDE DEF f
    <2>5. QED
      BY <1>21, <2>1, <2>2, <2>3, <2>4, AscendingIs
  <1> DEFINE left == Normalised(T)
  <1>28. left = [q \in 1 .. M |-> T[place(q)]]
    <2>1. left = [q \in DOMAIN Ascending(K) |-> T[Ascending(K)[q]]]
      BY DEF Normalised, K
    <2>2. QED
      BY <1>27, <2>1
  <1> HIDE DEF left
  <1>29. left \in Seq(Nat \X Nat) /\ Len(left) = M
    <2>1. \A q \in 1 .. M : T[place(q)] \in Nat \X Nat
      BY <1>13, <1>24 DEF N
    <2>2. left \in [1 .. M -> Nat \X Nat] /\ M \in Nat
      BY <1>16, <1>28, <2>1
    <2>3. QED
      BY <2>2
  <1>30. \A q \in 1 .. e : left[q] = Plain(5 * k + q)
    <2>1. ASSUME NEW q \in 1 .. e PROVE left[q] = Plain(5 * k + q)
      <3>1. q \in 1 .. M /\ q <= e /\ (q <= d \/ q > d)
        BY <1>7, <1>9, <1>11, <1>16 DEF M
      <3>2. T[place(q)] = Plain(5 * k + q)
        BY <1>23, <3>1
      <3>3. QED
        BY <1>28, <3>1, <3>2
    <2>2. QED
      BY <2>1
  <1>31. p2 # a2 => left[e + 1] = CR
    <2>1. p2 # a2 => e + 1 \in 1 .. M
      BY <1>9, <1>11, <1>16 DEF M
    <2>2. QED
      BY <2>1, <1>23, <1>28
  <1>32. Window(s, left, k, n2, p2)
    <2>1. 5 * k <= n2
      BY <1>2, <1>9, <1>12
    <2>2. QED
      BY <1>9, <1>16, <1>29, <1>30, <1>31, <2>1 DEF Window, M, e
  <1>33. QED
    BY <1>32 DEF left, T, got, W

(* A loop over 1 .. N whose turns are functions of the state has a run.    *)
IsLoop(X, base, N, turn) == base \in X /\ N \in Nat /\ turn \in [1 .. N -> [X -> X]]

IsRun(f, X, base, N, turn) ==
  f \in [0 .. N -> X] /\ f[0] = base /\ \A k \in 1 .. N : f[k] = turn[k][f[k - 1]]

LEMMA LoopHasARun ==
  ASSUME NEW X, NEW base, NEW N, NEW turn, IsLoop(X, base, N, turn)
  PROVE  \E f : IsRun(f, X, base, N, turn)
  <1>0. base \in X /\ N \in Nat /\ turn \in [1 .. N -> [X -> X]]
    BY DEF IsLoop
  <1> DEFINE Run(n, f) == /\ f \in [0 .. n -> X] /\ f[0] = base
                          /\ \A k \in 1 .. n : f[k] = turn[k][f[k - 1]]
             S == {n \in Nat : n <= N => \E f : Run(n, f)}
  <1>1. 0 \in S
    <2>1. Run(0, [k \in 0 .. 0 |-> base])
      BY <1>0
    <2>2. QED
      BY <2>1
  <1>2. ASSUME NEW n \in Nat, n + 1 <= N, NEW f, Run(n, f)
        PROVE  \E g : Run(n + 1, g)
    <2> DEFINE g == [k \in 0 .. n + 1 |-> IF k <= n THEN f[k] ELSE turn[n + 1][f[n]]]
    <2>1. /\ f \in [0 .. n -> X] /\ f[0] = base
          /\ \A k \in 1 .. n : f[k] = turn[k][f[k - 1]]
      BY <1>2
    <2>2. f[n] \in X /\ turn[n + 1] \in [X -> X]
      BY <1>0, <1>2, <2>1
    <2>3. turn[n + 1][f[n]] \in X
      BY <2>2
    <2>4. \A k \in 0 .. n : g[k] = f[k]
      OBVIOUS
    <2>5. g[n + 1] = turn[n + 1][f[n]]
      OBVIOUS
    <2>6. g \in [0 .. n + 1 -> X]
      BY <1>2, <2>1, <2>3
    <2> HIDE DEF g
    <2>7. ASSUME NEW k \in 1 .. n + 1 PROVE g[k] = turn[k][g[k - 1]]
      <3>1. CASE k = n + 1
        BY <3>1, <2>4, <2>5
      <3>2. CASE k # n + 1
        <4>1. k \in 1 .. n /\ k \in 0 .. n /\ k - 1 \in 0 .. n
          BY <3>2
        <4>2. QED
          BY <2>1, <2>4, <4>1
      <3>3. QED
        BY <3>1, <3>2
    <2>8. Run(n + 1, g)
      BY <2>1, <2>4, <2>6, <2>7
    <2>9. QED
      BY <2>8
  <1>3. ASSUME NEW n \in Nat, n \in S PROVE n + 1 \in S
    <2> HIDE DEF Run
    <2>1. SUFFICES ASSUME n + 1 <= N PROVE \E g : Run(n + 1, g)
      OBVIOUS
    <2>2. PICK f : Run(n, f)
      BY <1>0, <1>3, <2>1
    <2>3. QED
      BY <1>2, <2>1, <2>2
  <1>4. N \in S
    <2> HIDE DEF S
    <2>1. QED
      BY <1>0, <1>1, <1>3, InductionOnNat
  <1>5. PICK f : Run(N, f)
    BY <1>0, <1>4
  <1>6. QED
    BY <1>5 DEF IsRun

(***************************************************************************)
(* What the events of a stream say.                                        *)
(***************************************************************************)
(* The provers do not know that a literal is a string.                     *)
Word == STRING \cup {"", "stop"}

Context == [content : Seq(Nat), estimate : Nat, finish : Word, used : Nat]
Called == [name : Word, args : Seq(STRING)]
Tools == UNION {[D -> Called] : D \in {S \in SUBSET Nat : IsFiniteSet(S)}}

LEMMA EventsAreEvents ==
  ASSUME NEW s \in Streams
  PROVE  /\ Len(s.events) \in Nat /\ DOMAIN s.events = 1 .. Len(s.events)
         /\ \A i \in 1 .. Len(s.events) : s.events[i] \in Event
  BY StreamAssumption

(* What a chunk does to the context.                                       *)
LEMMA AdvancedIsContext ==
  ASSUME NEW c \in Context, NEW event \in Chunk
  PROVE  /\ Advanced(c, event) \in Context
         /\ event.choice =>
              /\ Advanced(c, event).content =
                   IF event.text = 0 THEN c.content ELSE Append(c.content, event.text)
              /\ Advanced(c, event).estimate = c.estimate + EstimateTextTokens(event.text)
         /\ ~event.choice =>
              /\ Advanced(c, event).content = c.content
              /\ Advanced(c, event).estimate = c.estimate
              /\ Advanced(c, event).finish = c.finish
  <1>1. /\ event.choice \in BOOLEAN /\ event.text \in Nat /\ event.used \in Nat
        /\ event.finish \in STRING
    BY DEF Chunk
  <1>2. c.content \in Seq(Nat) /\ c.estimate \in Nat /\ c.finish \in Word /\ c.used \in Nat
    BY DEF Context
  <1>3. EstimateTextTokens(event.text) \in Nat
    BY <1>1 DEF EstimateTextTokens
  <1>4. Append(c.content, event.text) \in Seq(Nat)
    BY <1>1, <1>2
  <1> DEFINE a == Advanced(c, event)
  <1>5. /\ a.content = IF event.choice /\ event.text # 0
                       THEN Append(c.content, event.text) ELSE c.content
        /\ a.estimate = IF event.choice THEN c.estimate + EstimateTextTokens(event.text)
                        ELSE c.estimate
        /\ a.finish = IF event.choice /\ event.finish # "" THEN event.finish ELSE c.finish
        /\ a.used = IF event.used # 0 THEN event.used ELSE c.used
        /\ a = [content |-> a.content, estimate |-> a.estimate, finish |-> a.finish,
                used |-> a.used]
    BY DEF Advanced
  <1> HIDE DEF a
  <1>6. a.content \in Seq(Nat)
    BY <1>2, <1>4, <1>5
  <1>7. a.estimate \in Nat
    <2>1. c.estimate + EstimateTextTokens(event.text) \in Nat
      BY <1>2, <1>3
    <2>2. CASE event.choice
      BY <1>5, <2>1, <2>2
    <2>3. CASE ~event.choice
      BY <1>2, <1>5, <2>3
    <2>4. QED
      BY <2>2, <2>3
  <1>8. a.finish \in Word
    BY <1>1, <1>2, <1>5 DEF Word
  <1>9. a.used \in Nat
    BY <1>1, <1>2, <1>5
  <1>10. a \in Context
    BY <1>5, <1>6, <1>7, <1>8, <1>9 DEF Context
  <1>11. /\ event.choice =>
             /\ a.content = IF event.text = 0 THEN c.content
                            ELSE Append(c.content, event.text)
             /\ a.estimate = c.estimate + EstimateTextTokens(event.text)
         /\ ~event.choice =>
              a.content = c.content /\ a.estimate = c.estimate /\ a.finish = c.finish
    BY <1>1, <1>5
  <1>12. QED
    BY <1>10, <1>11 DEF a

(* A call keeps its name, once it has one, and its arguments grow.         *)
Grows(t, u) ==
  \A i \in DOMAIN t : /\ i \in DOMAIN u
                      /\ t[i].name \in {"", u[i].name}
                      /\ IsPrefix(t[i].args, u[i].args)

(* A call has the name one of the deltas gives its index.                  *)
Named(t, D) ==
  \A i \in DOMAIN t : t[i].name = "" \/ \E d \in D : d.index = i /\ d.name = t[i].name

OneName(D) ==
  \A d, e \in D : d.index = e.index => d.name = e.name \/ "" \in {d.name, e.name}

(* IsPrefix is an order, and holds item by item.                           *)
LEMMA PrefixOrder ==
  ASSUME NEW S, NEW a \in Seq(S), NEW b \in Seq(S)
  PROVE  /\ IsPrefix(a, a)
         /\ IsPrefix(a, a \o b)
         /\ \A c \in Seq(S) : IsPrefix(a, b) /\ IsPrefix(b, c) => IsPrefix(a, c)
         /\ IsPrefix(a, b) <=> /\ Len(a) <= Len(b)
                               /\ \A i \in 1 .. Len(a) : a[i] = b[i]
  <1>1. ASSUME NEW u \in Seq(S), NEW v \in Seq(S)
        PROVE  IsPrefix(u, v) <=> Len(u) <= Len(v) /\ \A i \in 1 .. Len(u) : u[i] = v[i]
    <2>1. Len(u) \in Nat /\ Len(v) \in Nat
      OBVIOUS
    <2>2. CASE Len(u) <= Len(v)
      <3>1. /\ SubSeq(u, 1, Len(u)) = u
            /\ SubSeq(v, 1, Len(u)) \in Seq(S) /\ Len(SubSeq(v, 1, Len(u))) = Len(u)
            /\ \A i \in 1 .. Len(u) : SubSeq(v, 1, Len(u))[i] = v[i]
        BY <2>1, <2>2
      <3>2. u = SubSeq(v, 1, Len(u)) <=> \A i \in 1 .. Len(u) : u[i] = v[i]
        BY <3>1, SeqEqual
      <3>3. QED
        BY <2>2, <3>1, <3>2 DEF IsPrefix
    <2>3. QED
      BY <2>2 DEF IsPrefix
  <1>2. IsPrefix(a, a)
    BY <1>1
  <1>3. IsPrefix(a, a \o b)
    <2>1. /\ a \o b \in Seq(S) /\ Len(a) \in Nat /\ Len(b) \in Nat
          /\ Len(a) <= Len(a \o b) /\ \A i \in 1 .. Len(a) : (a \o b)[i] = a[i]
      OBVIOUS
    <2>2. QED
      BY <1>1, <2>1
  <1>4. ASSUME NEW c \in Seq(S), IsPrefix(a, b), IsPrefix(b, c) PROVE IsPrefix(a, c)
    <2>1. Len(a) \in Nat /\ Len(b) \in Nat /\ Len(c) \in Nat
      OBVIOUS
    <2>2. QED
      BY <1>1, <1>4, <2>1
  <1>5. QED
    BY <1>1, <1>2, <1>3, <1>4

(* A delta makes the calls grow; so do the deltas of a chunk.              *)
LEMMA AccumulateGrows ==
  ASSUME NEW D \in SUBSET Delta, OneName(D), NEW t \in Tools, Named(t, D), NEW delta \in D
  PROVE  /\ Accumulate(t, delta) \in Tools
         /\ Named(Accumulate(t, delta), D)
         /\ Grows(t, Accumulate(t, delta))
  <1> DEFINE x == delta.index
             curr == IF x \in DOMAIN t THEN t[x] ELSE [name |-> "", args |-> <<>>]
             next == [name |-> IF delta.name = "" THEN curr.name ELSE delta.name,
                      args |-> curr.args \o delta.args]
             u == Accumulate(t, delta)
  <1>1. /\ x \in Nat /\ delta.name \in Word /\ delta.args \in Seq(STRING)
    BY DEF Delta, Word
  <1>2. PICK S \in SUBSET Nat : IsFiniteSet(S) /\ t \in [S -> Called]
    BY DEF Tools
  <1>3. curr \in Called
    <2>1. CASE x \in S
      BY <1>2, <2>1
    <2>2. CASE x \notin S
      <3>1. curr = [name |-> "", args |-> <<>>]
        BY <1>2, <2>2
      <3>2. "" \in Word
        BY DEF Word
      <3>4. <<>> \in Seq(STRING)
        OBVIOUS
      <3> HIDE DEF curr
      <3>3. QED
        BY <3>1, <3>2, <3>4 DEF Called
    <2>3. QED
      BY <2>1, <2>2
  <1>4. curr.name \in Word /\ curr.args \in Seq(STRING)
    BY <1>3 DEF Called
  <1> HIDE DEF curr
  <1>5. next \in Called
    <2>1. curr.args \o delta.args \in Seq(STRING)
      BY <1>1, <1>4
    <2>2. (IF delta.name = "" THEN curr.name ELSE delta.name) \in Word
      BY <1>1, <1>4
    <2>3. QED
      BY <2>1, <2>2 DEF Called
  <1>6. u = [i \in S \cup {x} |-> IF i = x THEN next ELSE t[i]]
    BY <1>2 DEF Accumulate, curr
  <1>7. next.name = (IF delta.name = "" THEN curr.name ELSE delta.name)
        /\ next.args = curr.args \o delta.args
    OBVIOUS
  <1> HIDE DEF next, u, x
  <1>8. u \in [S \cup {x} -> Called] /\ IsFiniteSet(S \cup {x}) /\ S \cup {x} \in SUBSET Nat
    BY <1>1, <1>2, <1>5, <1>6, FS_AddElement
  <1>9. u \in Tools
    BY <1>8 DEF Tools
  <1>10. Named(u, D)
    <2> SUFFICES ASSUME NEW i \in S \cup {x}, u[i].name # ""
                 PROVE  \E d \in D : d.index = i /\ d.name = u[i].name
      BY <1>8 DEF Named
    <2>1. CASE i = x
      <3>1. u[i] = next
        BY <1>6, <2>1
      <3>2. CASE delta.name = ""
        <4>1. curr.name # "" /\ u[i].name = curr.name
          BY <1>7, <3>1, <3>2
        <4>2. x \in S /\ curr = t[x]
          BY <1>2, <4>1 DEF curr
        <4>3. QED
          BY <1>2, <2>1, <4>1, <4>2 DEF Named
      <3>3. CASE delta.name # ""
        BY <1>7, <2>1, <3>1, <3>3 DEF x
      <3>4. QED
        BY <3>2, <3>3
    <2>2. CASE i # x
      <3>1. i \in S /\ u[i] = t[i]
        BY <1>6, <2>2
      <3>2. QED
        BY <1>2, <3>1 DEF Named
    <2>3. QED
      BY <2>1, <2>2
  <1>11. Grows(t, u)
    <2> SUFFICES ASSUME NEW i \in S
                 PROVE  /\ i \in S \cup {x} /\ t[i].name \in {"", u[i].name}
                        /\ IsPrefix(t[i].args, u[i].args)
      BY <1>2, <1>8 DEF Grows
    <2>1. t[i] \in Called /\ t[i].args \in Seq(STRING)
      BY <1>2 DEF Called
    <2>2. CASE i = x
      <3>1. curr = t[i] /\ u[i] = next
        BY <1>2, <1>6, <2>2 DEF curr
      <3>2. IsPrefix(t[i].args, u[i].args)
        <4>1. u[i].args = t[i].args \o delta.args
          BY <1>7, <3>1
        <4>2. delta.args \in Seq(STRING)
          BY <1>1
        <4>3. QED
          BY <2>1, <4>1, <4>2, PrefixOrder
      <3>3. CASE delta.name = "" \/ t[i].name = ""
        BY <1>7, <3>1, <3>2, <3>3
      <3>4. CASE delta.name # "" /\ t[i].name # ""
        <4>1. PICK d \in D : d.index = i /\ d.name = t[i].name
          BY <1>2, <3>4 DEF Named
        <4>2. d.name = delta.name
          BY <2>2, <3>4, <4>1 DEF OneName, x
        <4>3. QED
          BY <1>7, <3>1, <3>2, <3>4, <4>1, <4>2
      <3>5. QED
        BY <3>3, <3>4
    <2>3. CASE i # x
      <3>1. u[i] = t[i]
        BY <1>6, <2>3
      <3>2. QED
        BY <2>1, <3>1, PrefixOrder
    <2>4. QED
      BY <2>2, <2>3
  <1>12. QED
    BY <1>9, <1>10, <1>11 DEF u

LEMMA GrowsOrder ==
  ASSUME NEW t \in Tools, NEW u \in Tools, NEW v \in Tools
  PROVE  Grows(t, t) /\ (Grows(t, u) /\ Grows(u, v) => Grows(t, v))
  <1>1. \A x \in Tools : \A i \in DOMAIN x : x[i].args \in Seq(STRING)
    BY DEF Tools, Called
  <1>2. Grows(t, t)
    BY <1>1, PrefixOrder DEF Grows
  <1>3. ASSUME Grows(t, u), Grows(u, v), NEW i \in DOMAIN t
        PROVE  /\ i \in DOMAIN v /\ t[i].name \in {"", v[i].name}
               /\ IsPrefix(t[i].args, v[i].args)
    <2>1. i \in DOMAIN u /\ t[i].name \in {"", u[i].name} /\ IsPrefix(t[i].args, u[i].args)
      BY <1>3 DEF Grows
    <2>2. i \in DOMAIN v /\ u[i].name \in {"", v[i].name} /\ IsPrefix(u[i].args, v[i].args)
      BY <1>3, <2>1 DEF Grows
    <2>3. t[i].args \in Seq(STRING) /\ u[i].args \in Seq(STRING) /\ v[i].args \in Seq(STRING)
      BY <1>1, <2>1, <2>2
    <2>4. IsPrefix(t[i].args, v[i].args)
      <3>1. \A c \in Seq(STRING) :
              IsPrefix(t[i].args, u[i].args) /\ IsPrefix(u[i].args, c) => IsPrefix(t[i].args, c)
        BY <2>3, PrefixOrder
      <3>2. QED
        BY <2>1, <2>2, <2>3, <3>1
    <2>5. QED
      BY <2>1, <2>2, <2>4
  <1>4. QED
    BY <1>2, <1>3 DEF Grows

LEMMA AccumulationGrows ==
  ASSUME NEW D \in SUBSET Delta, OneName(D), NEW t \in Tools, Named(t, D),
         NEW deltas \in Seq(D)
  PROVE  /\ AccumulateToolDeltas(t, deltas) \in Tools
         /\ Named(AccumulateToolDeltas(t, deltas), D)
         /\ Grows(t, AccumulateToolDeltas(t, deltas))
  <1> DEFINE N == Len(deltas)
             X == {u \in Tools : Named(u, D) /\ Grows(t, u)}
             F(v) == [n \in 0 .. N |-> IF n = 0 THEN t ELSE Accumulate(v[n - 1], deltas[n])]
             after == CHOOSE v : v = F(v)
             turns == [n \in 1 .. N |-> [u \in X |-> Accumulate(u, deltas[n])]]
  <1>1. N \in Nat /\ \A n \in 1 .. N : deltas[n] \in D
    OBVIOUS
  <1>2. AccumulateToolDeltas(t, deltas) = after[N]
    BY DEF AccumulateToolDeltas
  <1> HIDE DEF N
  <1>3. ASSUME NEW u \in X, NEW n \in 1 .. N PROVE Accumulate(u, deltas[n]) \in X
    <2>1. u \in Tools /\ Named(u, D) /\ Grows(t, u) /\ deltas[n] \in D
      BY <1>1
    <2>2. /\ Accumulate(u, deltas[n]) \in Tools
          /\ Named(Accumulate(u, deltas[n]), D)
          /\ Grows(u, Accumulate(u, deltas[n]))
      BY <2>1, AccumulateGrows
    <2>3. Grows(t, Accumulate(u, deltas[n]))
      BY <2>1, <2>2, GrowsOrder
    <2>4. QED
      BY <2>2, <2>3
  <1>4. t \in X
    BY GrowsOrder
  <1>5. \A u \in X : u \in Tools /\ Named(u, D) /\ Grows(t, u)
    OBVIOUS
  <1> HIDE DEF X
  <1>6. /\ turns \in [1 .. N -> [X -> X]]
        /\ \A n \in 1 .. N : \A u \in X : turns[n][u] = Accumulate(u, deltas[n])
    BY <1>3
  <1> HIDE DEF turns
  <1>7. PICK f : f \in [0 .. N -> X] /\ f[0] = t /\ \A n \in 1 .. N : f[n] = turns[n][f[n - 1]]
    <2>1. IsLoop(X, t, N, turns)
      BY <1>1, <1>4, <1>6 DEF IsLoop
    <2>2. PICK f : IsRun(f, X, t, N, turns)
      BY <2>1, LoopHasARun
    <2>3. QED
      BY <2>2 DEF IsRun
  <1>8. f = F(f)
    <2>1. ASSUME NEW n \in 1 .. N PROVE f[n] = Accumulate(f[n - 1], deltas[n])
      <3>1. f[n - 1] \in X
        BY <1>1, <1>7
      <3>2. QED
        BY <1>6, <1>7, <3>1
    <2>2. \A n \in 0 .. N : f[n] = IF n = 0 THEN t ELSE Accumulate(f[n - 1], deltas[n])
      BY <1>1, <1>7, <2>1
    <2>3. QED
      BY <1>7, <2>2
  <1>9. after = F(after)
    BY <1>8
  <1> HIDE DEF after
  <1>10. after[0] = t /\ \A n \in 1 .. N : after[n] = Accumulate(after[n - 1], deltas[n])
    BY <1>1, <1>9
  <1> HIDE DEF F
  <1> DEFINE K == {n \in Nat : n <= N => after[n] \in X}
  <1>11. 0 \in K
    BY <1>4, <1>10
  <1>12. ASSUME NEW n \in Nat, n \in K PROVE n + 1 \in K
    <2>1. SUFFICES ASSUME n + 1 <= N PROVE after[n + 1] \in X
      OBVIOUS
    <2>2. n + 1 \in 1 .. N /\ (n + 1) - 1 = n /\ after[n] \in X
      BY <1>1, <1>12, <2>1
    <2>3. after[n + 1] = Accumulate(after[n], deltas[n + 1])
      BY <1>10, <2>2
    <2>4. QED
      BY <1>3, <2>2, <2>3
  <1>13. N \in K
    <2> HIDE DEF K
    <2>1. QED
      BY <1>1, <1>11, <1>12, InductionOnNat
  <1>14. QED
    BY <1>1, <1>2, <1>5, <1>13

(* What is said so far is a context and tool calls that only grow.         *)
Says(s, x) ==
  x.context \in Context /\ x.tools \in Tools /\ Named(x.tools, DeltasOf(s))

(* The deltas of a stream, of which a call has one name.                   *)
LEMMA DeltasAreDeltas ==
  ASSUME NEW s \in Streams
  PROVE  /\ DeltasOf(s) \in SUBSET Delta /\ OneName(DeltasOf(s))
         /\ \A i \in 1 .. Len(s.events) :
              s.events[i].kind = "chunk" =>
                s.events[i] \in Chunk /\ s.events[i].calls \in Seq(DeltasOf(s))
  <1>1. /\ Len(s.events) \in Nat /\ DOMAIN s.events = 1 .. Len(s.events)
        /\ \A i \in 1 .. Len(s.events) : s.events[i] \in Event
    BY EventsAreEvents
  <1>2. ASSUME NEW i \in 1 .. Len(s.events), s.events[i].kind = "chunk"
        PROVE  s.events[i] \in Chunk /\ s.events[i].calls \in Seq(Delta)
    <2>1. s.events[i] \in Chunk
      BY <1>1, <1>2 DEF Event
    <2>2. QED
      BY <2>1 DEF Chunk
  <1>3. DeltasOf(s) \in SUBSET Delta
    BY <1>1, <1>2 DEF DeltasOf, ToSet
  <1>4. ASSUME NEW i \in 1 .. Len(s.events), s.events[i].kind = "chunk"
        PROVE  s.events[i].calls \in Seq(DeltasOf(s))
    <2>1. s.events[i].calls \in Seq(Delta)
      BY <1>2, <1>4
    <2>2. \A n \in 1 .. Len(s.events[i].calls) : s.events[i].calls[n] \in DeltasOf(s)
      BY <1>1, <1>4, <2>1 DEF DeltasOf, ToSet
    <2>3. QED
      BY <2>1, <2>2
  <1>5. OneName(DeltasOf(s))
    BY StreamAssumption DEF Spells, OneName
  <1>6. QED
    BY <1>2, <1>3, <1>4, <1>5

(* An event makes the text and the calls grow.                             *)
LEMMA HeardIsSaid ==
  ASSUME NEW s \in Streams, NEW x, Says(s, x), NEW i \in 1 .. Len(s.events)
  PROVE  /\ Says(s, Heard(x, s.events[i]))
         /\ IsPrefix(x.context.content, Heard(x, s.events[i]).context.content)
         /\ Grows(x.tools, Heard(x, s.events[i]).tools)
  <1> DEFINE event == s.events[i]
             D == DeltasOf(s)
  <1>1. x.context \in Context /\ x.tools \in Tools /\ Named(x.tools, D)
    BY DEF Says
  <1>2. x.context.content \in Seq(Nat)
    BY <1>1 DEF Context
  <1>3. D \in SUBSET Delta /\ OneName(D)
    BY DeltasAreDeltas
  <1>4. event.kind = "chunk" => event \in Chunk /\ event.calls \in Seq(D)
    BY DeltasAreDeltas
  <1> HIDE DEF event, D
  <1>5. CASE event.kind # "chunk"
    <2>1. Heard(x, event) = x
      BY <1>5 DEF Heard
    <2>2. IsPrefix(x.context.content, x.context.content) /\ Grows(x.tools, x.tools)
      BY <1>1, <1>2, PrefixOrder, GrowsOrder
    <2>3. QED
      BY <2>1, <2>2 DEF event
  <1>6. CASE event.kind = "chunk"
    <2> DEFINE c == Advanced(x.context, event)
               u == AccumulateToolDeltas(x.tools, event.calls)
    <2>1. /\ Heard(x, event).context = c
          /\ Heard(x, event).tools = IF event.choice THEN u ELSE x.tools
      BY <1>6 DEF Heard
    <2>2. event \in Chunk /\ event.calls \in Seq(D) /\ event.choice \in BOOLEAN
          /\ event.text \in Nat
      BY <1>4, <1>6 DEF Chunk
    <2>3. c \in Context /\ IsPrefix(x.context.content, c.content)
      <3>1. /\ c \in Context
            /\ c.content \in {x.context.content, Append(x.context.content, event.text)}
        BY <1>1, <2>2, AdvancedIsContext
      <3>2. IsPrefix(x.context.content, Append(x.context.content, event.text))
        <4> DEFINE a == x.context.content
                   b == Append(a, event.text)
        <4>1. /\ a \in Seq(Nat) /\ b \in Seq(Nat) /\ Len(a) \in Nat /\ Len(b) = Len(a) + 1
              /\ \A q \in 1 .. Len(a) : b[q] = a[q]
          BY <1>2, <2>2
        <4> HIDE DEF a, b
        <4>2. Len(a) <= Len(b) /\ \A q \in 1 .. Len(a) : a[q] = b[q]
          BY <4>1
        <4>3. IsPrefix(a, b)
          BY <4>1, <4>2, PrefixOrder
        <4>4. QED
          BY <4>3 DEF a, b
      <3>3. IsPrefix(x.context.content, x.context.content)
        BY <1>2, PrefixOrder
      <3>4. QED
        BY <3>1, <3>2, <3>3
    <2>4. u \in Tools /\ Named(u, D) /\ Grows(x.tools, u)
      BY <1>1, <1>3, <2>2, AccumulationGrows
    <2>5. Grows(x.tools, x.tools)
      BY <1>1, GrowsOrder
    <2> HIDE DEF c, u
    <2>6. QED
      BY <1>1, <2>1, <2>2, <2>3, <2>4, <2>5 DEF Says, event, D
  <1>7. QED
    BY <1>5, <1>6

(* What the first k events say, event by event.                            *)
LEMMA SaidIs ==
  ASSUME NEW s \in Streams
  PROVE  /\ Said(s)[0] = [context |-> Empty, tools |-> <<>>]
         /\ \A k \in 1 .. Len(s.events) : Said(s)[k] = Heard(Said(s)[k - 1], s.events[k])
         /\ \A k \in 0 .. Len(s.events) : Says(s, Said(s)[k])
  <1> DEFINE N == Len(s.events)
             X == {x \in [context : Context, tools : Tools] : Says(s, x)}
             start == [context |-> Empty, tools |-> <<>>]
             F(v) == [k \in 0 .. N |-> IF k = 0 THEN start ELSE Heard(v[k - 1], s.events[k])]
             said == CHOOSE v : v = F(v)
             turns == [k \in 1 .. N |-> [x \in X |-> Heard(x, s.events[k])]]
  <1>1. N \in Nat
    BY EventsAreEvents
  <1>2. Said(s) = said
    BY DEF Said
  <1>3. start \in X
    <2>1. Empty \in Context
      BY DEF Empty, Context, Word
    <2>2. <<>> \in Tools
      <3>1. <<>> \in [{} -> Called] /\ IsFiniteSet({}) /\ {} \in SUBSET Nat
        BY FS_EmptySet
      <3>2. QED
        BY <3>1 DEF Tools
    <2>3. Named(<<>>, DeltasOf(s))
      <3>1. DOMAIN <<>> = {}
        OBVIOUS
      <3>2. QED
        BY <3>1 DEF Named
    <2>4. QED
      BY <2>1, <2>2, <2>3 DEF Says
  <1>4. ASSUME NEW k \in 1 .. N, NEW x \in X PROVE Heard(x, s.events[k]) \in X
    <2>1. Says(s, x) /\ x = [context |-> x.context, tools |-> x.tools]
      OBVIOUS
    <2>2. Says(s, Heard(x, s.events[k]))
      BY <2>1, HeardIsSaid
    <2>3. Heard(x, s.events[k]) = [context |-> Heard(x, s.events[k]).context,
                                   tools   |-> Heard(x, s.events[k]).tools]
      BY <2>1 DEF Heard
    <2>4. QED
      BY <2>2, <2>3 DEF Says
  <1>5. \A x \in X : Says(s, x)
    OBVIOUS
  <1> HIDE DEF N, X, start
  <1>6. /\ turns \in [1 .. N -> [X -> X]]
        /\ \A k \in 1 .. N : \A x \in X : turns[k][x] = Heard(x, s.events[k])
    BY <1>4
  <1> HIDE DEF turns
  <1>7. PICK f : f \in [0 .. N -> X] /\ f[0] = start /\ \A k \in 1 .. N : f[k] = turns[k][f[k - 1]]
    <2>1. IsLoop(X, start, N, turns)
      BY <1>1, <1>3, <1>6 DEF IsLoop
    <2>2. PICK f : IsRun(f, X, start, N, turns)
      BY <2>1, LoopHasARun
    <2>3. QED
      BY <2>2 DEF IsRun
  <1>8. f = F(f)
    <2>1. ASSUME NEW k \in 1 .. N PROVE f[k] = Heard(f[k - 1], s.events[k])
      <3>1. f[k - 1] \in X
        BY <1>1, <1>7
      <3>2. QED
        BY <1>6, <1>7, <3>1
    <2>2. \A k \in 0 .. N : f[k] = IF k = 0 THEN start ELSE Heard(f[k - 1], s.events[k])
      BY <1>1, <1>7, <2>1
    <2>3. QED
      BY <1>7, <2>2
  <1>9. said = F(said)
    BY <1>8
  <1> HIDE DEF said
  <1>10. said[0] = start /\ \A k \in 1 .. N : said[k] = Heard(said[k - 1], s.events[k])
    BY <1>1, <1>9
  <1> HIDE DEF F
  <1> DEFINE K == {k \in Nat : k <= N => said[k] \in X}
  <1>11. 0 \in K
    BY <1>3, <1>10
  <1>12. ASSUME NEW k \in Nat, k \in K PROVE k + 1 \in K
    <2>1. SUFFICES ASSUME k + 1 <= N PROVE said[k + 1] \in X
      OBVIOUS
    <2>2. k + 1 \in 1 .. N /\ (k + 1) - 1 = k /\ said[k] \in X
      BY <1>1, <1>12, <2>1
    <2>3. said[k + 1] = Heard(said[k], s.events[k + 1])
      BY <1>10, <2>2
    <2>4. QED
      BY <1>4, <2>2, <2>3
  <1>13. \A k \in Nat : k \in K
    <2> HIDE DEF K
    <2>1. QED
      BY <1>11, <1>12, InductionOnNat
  <1>14. \A k \in 0 .. N : Says(s, said[k])
    BY <1>1, <1>5, <1>13
  <1>15. QED
    BY <1>2, <1>10, <1>14 DEF N, start

(* The text so far is a prefix of all of it, and the calls so far grow.    *)
LEMMA SaidGrows ==
  ASSUME NEW s \in Streams, NEW k \in 0 .. Len(s.events)
  PROVE  /\ IsPrefix(Said(s)[k].context.content, Said(s)[Len(s.events)].context.content)
         /\ Grows(Said(s)[k].tools, Said(s)[Len(s.events)].tools)
  <1> DEFINE N == Len(s.events)
             x(n) == Said(s)[n]
             Holds(n) == /\ IsPrefix(x(k).context.content, x(n).context.content)
                         /\ Grows(x(k).tools, x(n).tools)
             K == {d \in Nat : k + d <= N => Holds(k + d)}
  <1>1. N \in Nat
    BY EventsAreEvents
  <1>2. \A n \in 0 .. N : /\ Says(s, x(n)) /\ x(n).context.content \in Seq(Nat)
                          /\ x(n).tools \in Tools
    BY SaidIs DEF Says, Context
  <1>3. \A n \in 1 .. N : x(n) = Heard(x(n - 1), s.events[n])
    BY SaidIs
  <1>4. k \in 0 .. N
    OBVIOUS
  <1>5. \A n \in 0 .. N, e \in 1 .. N :
          /\ IsPrefix(x(n).context.content, Heard(x(n), s.events[e]).context.content)
          /\ Grows(x(n).tools, Heard(x(n), s.events[e]).tools)
    BY <1>2, HeardIsSaid
  <1> HIDE DEF N, x
  <1>6. 0 \in K
    <2>1. IsPrefix(x(k).context.content, x(k).context.content)
      BY <1>2, <1>4, PrefixOrder
    <2>2. Grows(x(k).tools, x(k).tools)
      BY <1>2, <1>4, GrowsOrder
    <2>3. k + 0 = k
      BY <1>1, <1>4
    <2>4. QED
      BY <2>1, <2>2, <2>3
  <1>7. ASSUME NEW d \in Nat, d \in K PROVE d + 1 \in K
    <2>1. SUFFICES ASSUME k + (d + 1) <= N PROVE Holds(k + (d + 1))
      OBVIOUS
    <2>2. PICK n \in 1 .. N : n = k + (d + 1) /\ n - 1 = k + d /\ n - 1 \in 0 .. N
      BY <1>1, <1>4, <2>1
    <2>3. Holds(n - 1)
      BY <1>1, <1>7, <2>2
    <2>4. x(n) = Heard(x(n - 1), s.events[n])
      BY <1>3
    <2>5. /\ IsPrefix(x(n - 1).context.content, x(n).context.content)
          /\ Grows(x(n - 1).tools, x(n).tools)
      BY <1>5, <2>2, <2>4
    <2>6. n \in 0 .. N
      BY <1>1
    <2> DEFINE a == x(k).context.content
               b == x(n - 1).context.content
               c == x(n).context.content
               t == x(k).tools
               u == x(n - 1).tools
               v == x(n).tools
    <2>7. /\ a \in Seq(Nat) /\ b \in Seq(Nat) /\ c \in Seq(Nat)
          /\ t \in Tools /\ u \in Tools /\ v \in Tools
          /\ IsPrefix(a, b) /\ IsPrefix(b, c) /\ Grows(t, u) /\ Grows(u, v)
      BY <1>2, <1>4, <2>2, <2>3, <2>5, <2>6
    <2> HIDE DEF a, b, c, t, u, v
    <2>8. IsPrefix(a, c)
      <3>1. \A z \in Seq(Nat) : IsPrefix(a, b) /\ IsPrefix(b, z) => IsPrefix(a, z)
        BY <2>7, PrefixOrder
      <3>2. QED
        BY <2>7, <3>1
    <2>9. Grows(t, v)
      BY <2>7, GrowsOrder
    <2>10. QED
      BY <2>2, <2>8, <2>9 DEF a, c, t, v
  <1>8. N - k \in K
    <2> HIDE DEF K
    <2>1. N - k \in Nat
      BY <1>1, <1>4
    <2>2. QED
      BY <1>6, <1>7, <2>1, InductionOnNat
  <1>9. k + (N - k) = N
    BY <1>1, <1>4
  <1>10. Holds(N)
    BY <1>1, <1>4, <1>8, <1>9
  <1>11. QED
    BY <1>10 DEF x, N

(***************************************************************************)
(* One event of the buffer.                                                *)
(***************************************************************************)
(* Of the event after the k-th, the text has the first c pieces, and none  *)
(* of any other.                                                           *)
Pieces(raw, k, c) ==
  \A i, j \in Nat : i > 0 => (<<i, j>> \in ToSet(raw) <=> i = k + 1 /\ j \in 1 .. c)

(* The five characters of an event.                                        *)
LEMMA PlainOfAnEvent ==
  ASSUME NEW k \in Nat, NEW j \in 1 .. 5
  PROVE  Plain(5 * k + j) = IF j < 4 THEN <<k + 1, j>> ELSE LF
  <1>1. PICK n \in Nat : n = 5 * k + j /\ n > 0
    OBVIOUS
  <1>2. PICK a \in Int, b \in 0 .. 4 : /\ n = 5 * a + b + 1
                                       /\ (n - 1) \div 5 = a /\ (n - 1) % 5 = b
                                       /\ n > 0 => a \in Nat
    BY <1>1, Fifths
  <1>3. a = k /\ b = j - 1
    BY <1>1, <1>2
  <1>4. QED
    BY <1>1, <1>2, <1>3 DEF Plain

(* What is in the buffer, and that it is not more than was sent.           *)
LEMMA WindowIs ==
  ASSUME NEW s \in Streams, NEW k \in Nat, NEW n \in Nat, NEW p \in Nat, NEW chars,
         Window(s, chars, k, n, p), p <= Len(Wire(s))
  PROVE  /\ n \in Nat /\ n <= 5 * Len(s.events) /\ 5 * k <= n
         /\ chars \in Seq(Nat \X Nat) /\ Len(chars) \in Nat
         /\ Len(chars) \in {n - 5 * k, n - 5 * k + 1}
         /\ \A q \in 1 .. n - 5 * k : chars[q] = Plain(5 * k + q)
         /\ Len(chars) = n - 5 * k + 1 => chars[Len(chars)] = CR
  <1>1. s.crlf \in BOOLEAN
    BY StreamAssumption
  <1>2. n \in Nat /\ 5 * k <= n /\ At(s, n) <= p /\ p < At(s, n + 1)
    BY DEF Window
  <1>3. At(s, n) \in Nat /\ At(s, n + 1) \in {At(s, n) + 1, At(s, n) + 2}
    BY <1>1, <1>2, AtGrows, AtSteps
  <1>4. p = At(s, n) \/ p = At(s, n) + 1
    BY <1>2, <1>3
  <1>5. /\ chars \in Seq(Nat \X Nat) /\ Len(chars) = (n - 5 * k) + (p - At(s, n))
        /\ \A q \in 1 .. n - 5 * k : chars[q] = Plain(5 * k + q)
        /\ p # At(s, n) => chars[n - 5 * k + 1] = CR
    BY DEF Window
  <1>6. n <= 5 * Len(s.events)
    <2>1. Len(s.events) \in Nat /\ At(s, 5 * Len(s.events)) = Len(Wire(s)) /\ Len(Wire(s)) \in Nat
      BY WireIs
    <2>2. 5 * Len(s.events) \in Nat
      BY <2>1
    <2>3. ~(At(s, 5 * Len(s.events)) < At(s, n))
      BY <1>2, <1>3, <2>1
    <2>4. ~(5 * Len(s.events) < n)
      <3>1. 5 * Len(s.events) < n <=> At(s, 5 * Len(s.events)) < At(s, n)
        BY <1>1, <2>2, AtOrder
      <3>2. QED
        BY <2>3, <3>1
    <2>5. QED
      BY <1>2, <2>2, <2>4
  <1>7. /\ Len(chars) \in {n - 5 * k, n - 5 * k + 1}
        /\ Len(chars) = n - 5 * k + 1 => chars[Len(chars)] = CR
    BY <1>2, <1>3, <1>4, <1>5
  <1>8. QED
    BY <1>2, <1>5, <1>6, <1>7

(* The buffer has a boundary when an event is whole, behind its line.      *)
LEMMA WindowBoundaries ==
  ASSUME served \in Streams, NEW k \in Nat, NEW n \in Nat, NEW p \in Nat,
         Window(served, buffer, k, n, p), p <= Len(Wire(served))
  PROVE  /\ Boundaries # {} => n >= 5 * k + 5 /\ Min(Boundaries) = 4
         /\ Boundaries = {} => n < 5 * k + 5
  <1> DEFINE B == Boundaries
  <1>1. /\ n \in Nat /\ 5 * k <= n /\ Len(buffer) \in Nat
        /\ Len(buffer) \in {n - 5 * k, n - 5 * k + 1}
        /\ \A q \in 1 .. n - 5 * k : buffer[q] = Plain(5 * k + q)
        /\ Len(buffer) = n - 5 * k + 1 => buffer[Len(buffer)] = CR
    BY WindowIs
  <1>2. B = {i \in 1 .. Len(buffer) - 1 : buffer[i] = LF /\ buffer[i + 1] = LF}
    BY DEF Boundaries
  <1> HIDE DEF B
  <1>3. ASSUME NEW i \in B PROVE i \in Nat /\ 4 <= i /\ n >= 5 * k + 5
    <2>1. i \in 1 .. Len(buffer) - 1 /\ buffer[i] = LF /\ buffer[i + 1] = LF
      BY <1>2
    <2>2. i + 1 # Len(buffer) \/ Len(buffer) = n - 5 * k
      BY <1>1, <2>1 DEF CR, LF
    <2>3. i \in 1 .. n - 5 * k /\ i + 1 <= n - 5 * k
      BY <1>1, <2>1, <2>2
    <2>4. ASSUME i < 4 PROVE FALSE
      <3>1. i \in 1 .. 5
        BY <2>1, <2>4
      <3>2. buffer[i] = <<k + 1, i>>
        BY <1>1, <2>3, <2>4, <3>1, PlainOfAnEvent
      <3>3. QED
        BY <2>1, <3>2 DEF LF
    <2>5. QED
      BY <1>1, <2>1, <2>3, <2>4
  <1>4. ASSUME n >= 5 * k + 5 PROVE 4 \in B
    <2>1. 4 \in 1 .. n - 5 * k /\ 5 \in 1 .. n - 5 * k /\ 4 \in 1 .. Len(buffer) - 1
      BY <1>1, <1>4
    <2>2. buffer[4] = LF /\ buffer[5] = LF
      BY <1>1, <2>1, PlainOfAnEvent
    <2>3. QED
      BY <1>2, <2>1, <2>2
  <1>5. ASSUME B # {} PROVE n >= 5 * k + 5 /\ Min(B) = 4
    <2>1. n >= 5 * k + 5
      BY <1>3, <1>5
    <2>2. 4 \in B /\ \A i \in B : 4 <= i /\ i \in Nat
      BY <1>3, <1>4, <2>1
    <2>3. \A x \in B : (\A y \in B : x <= y) => x = 4
      BY <2>2
    <2>4. QED
      BY <2>1, <2>2, <2>3 DEF Min
  <1>6. B = {} => n < 5 * k + 5
    BY <1>1, <1>4
  <1>7. QED
    BY <1>5, <1>6 DEF B

(* An event with its empty line is cut off the text.                       *)
LEMMA CutOff ==
  ASSUME NEW s \in Streams, NEW k \in Nat, NEW n \in Nat, NEW p \in Nat, NEW chars,
         Window(s, chars, k, n, p), p <= Len(Wire(s)), n >= 5 * k + 5
  PROVE  /\ Pieces(SubSeq(chars, 1, 3), k, 3) /\ CR \notin ToSet(SubSeq(chars, 1, 3))
         /\ Window(s, SubSeq(chars, 6, Len(chars)), k + 1, n, p)
  <1>1. /\ n \in Nat /\ 5 * k <= n /\ Len(chars) \in Nat
        /\ chars \in Seq(Nat \X Nat)
        /\ Len(chars) \in {n - 5 * k, n - 5 * k + 1}
        /\ \A q \in 1 .. n - 5 * k : chars[q] = Plain(5 * k + q)
    BY WindowIs
  <1>2. /\ At(s, n) <= p /\ p < At(s, n + 1)
        /\ Len(chars) = (n - 5 * k) + (p - At(s, n))
        /\ p # At(s, n) => chars[n - 5 * k + 1] = CR
        /\ At(s, n) \in Nat
    BY <1>1, StreamAssumption, AtGrows DEF Window
  <1>3. Pieces(SubSeq(chars, 1, 3), k, 3) /\ CR \notin ToSet(SubSeq(chars, 1, 3))
    <2> DEFINE raw == SubSeq(chars, 1, 3)
    <2>1. DOMAIN raw = 1 .. 3 /\ \A j \in 1 .. 3 : raw[j] = chars[j]
      BY <1>1
    <2>2. \A j \in 1 .. 3 : chars[j] = <<k + 1, j>>
      <3>1. ASSUME NEW j \in 1 .. 3 PROVE chars[j] = <<k + 1, j>>
        <4>1. j \in 1 .. n - 5 * k /\ j \in 1 .. 5 /\ j < 4
          BY <1>1
        <4>2. QED
          BY <1>1, <4>1, PlainOfAnEvent
      <3>2. QED
        BY <3>1
    <2> HIDE DEF raw
    <2>3. ToSet(raw) = {<<k + 1, j>> : j \in 1 .. 3}
      BY <2>1, <2>2 DEF ToSet
    <2>4. CR \notin ToSet(raw)
      BY <2>3 DEF CR
    <2>5. QED
      BY <2>3, <2>4 DEF Pieces, raw
  <1>4. Window(s, SubSeq(chars, 6, Len(chars)), k + 1, n, p)
    <2> DEFINE rest == SubSeq(chars, 6, Len(chars))
               c == n - 5 * (k + 1)
    <2>1. /\ rest \in Seq(Nat \X Nat) /\ Len(rest) = Len(chars) - 5
          /\ \A q \in 1 .. Len(chars) - 5 : rest[q] = chars[q + 5]
      <3> DEFINE L == Len(chars)
      <3>1. L \in Nat /\ L >= 5 /\ 6 \in 1 .. L + 1 /\ L - 6 + 1 = L - 5
        BY <1>1
      <3> HIDE DEF L
      <3>2. /\ SubSeq(chars, 6, L) \in Seq(Nat \X Nat)
            /\ Len(SubSeq(chars, 6, L)) = L - 5
            /\ \A q \in 1 .. L - 5 : SubSeq(chars, 6, L)[q] = chars[6 + q - 1]
        <4>1. \A q \in 6 .. L : chars[q] \in Nat \X Nat
          BY <1>1 DEF L
        <4>2. QED
          BY <3>1, <4>1, SubSeqProperties
      <3>3. \A q \in 1 .. L - 5 : 6 + q - 1 = q + 5
        BY <3>1
      <3>4. QED
        BY <3>2, <3>3 DEF L
    <2>2. c \in Nat /\ c = n - 5 * k - 5 /\ 5 * (k + 1) <= n /\ c <= Len(chars) - 5
      BY <1>1
    <2>3. Len(rest) = c + (p - At(s, n))
      BY <1>1, <1>2, <2>1, <2>2
    <2>4. ASSUME NEW q \in 1 .. c PROVE rest[q] = Plain(5 * (k + 1) + q)
      <3>1. /\ q + 5 \in 1 .. n - 5 * k /\ q \in 1 .. Len(chars) - 5
            /\ 5 * k + (q + 5) = 5 * (k + 1) + q
        BY <1>1, <2>2
      <3>2. QED
        BY <1>1, <2>1, <3>1
    <2>5. p # At(s, n) => rest[c + 1] = CR
      <3>1. ASSUME p # At(s, n) PROVE c + 1 \in 1 .. Len(chars) - 5 /\ c + 1 + 5 = n - 5 * k + 1
        BY <1>1, <1>2, <2>2, <3>1
      <3>2. QED
        BY <1>2, <2>1, <3>1
    <2> HIDE DEF rest
    <2>6. QED
      BY <1>1, <1>2, <2>1, <2>2, <2>3, <2>4, <2>5 DEF Window, rest
  <1>5. QED
    BY <1>3, <1>4

(* What is left in the end is the beginning of an event, or line ends.     *)
LEMMA LeftInTheEnd ==
  ASSUME NEW s \in Streams, NEW k \in Nat, NEW n \in Nat, NEW p \in Nat, NEW chars,
         Window(s, chars, k, n, p), p <= Len(Wire(s)), n < 5 * k + 5
  PROVE  \E c \in 0 .. 3 : /\ Pieces(chars, k, c)
                           /\ n < 5 * k + 3 => n = 5 * k + c
                           /\ n >= 5 * k + 3 => c = 3
                           /\ ToSet(chars) \subseteq {CR, LF} => c = 0
                           /\ c > 0 => k < Len(s.events)
  <1> DEFINE c == IF n < 5 * k + 3 THEN n - 5 * k ELSE 3
             m == n - 5 * k
  <1>1. /\ n \in Nat /\ n <= 5 * Len(s.events) /\ 5 * k <= n /\ Len(chars) \in Nat
        /\ chars \in Seq(Nat \X Nat)
        /\ Len(chars) \in {n - 5 * k, n - 5 * k + 1}
        /\ \A q \in 1 .. n - 5 * k : chars[q] = Plain(5 * k + q)
        /\ Len(chars) = n - 5 * k + 1 => chars[Len(chars)] = CR
    BY WindowIs
  <1>2. Len(s.events) \in Nat
    BY EventsAreEvents
  <1>3. /\ c \in 0 .. 3 /\ m \in 0 .. 4 /\ c <= m
        /\ c > 0 => k < Len(s.events)
        /\ n < 5 * k + 3 => n = 5 * k + c
        /\ n >= 5 * k + 3 => c = 3
        /\ c < 3 => m = c
    BY <1>1, <1>2
  <1>4. /\ Len(chars) \in {m, m + 1}
        /\ Len(chars) = m + 1 => chars[Len(chars)] = CR
    BY <1>1
  <1>5. \A q \in 1 .. m : chars[q] = IF q <= c THEN <<k + 1, q>> ELSE LF
    <2>1. ASSUME NEW q \in 1 .. m PROVE chars[q] = IF q <= c THEN <<k + 1, q>> ELSE LF
      <3>1. q \in 1 .. 5 /\ chars[q] = Plain(5 * k + q) /\ (q < 4 <=> q <= c)
        BY <1>1, <1>3
      <3>2. QED
        BY <3>1, PlainOfAnEvent
    <2>2. QED
      BY <2>1
  <1> HIDE DEF c, m
  <1>6. ASSUME NEW x \in ToSet(chars)
        PROVE  x \in {CR, LF} \/ \E q \in 1 .. c : x = <<k + 1, q>>
    <2>1. PICK q \in 1 .. Len(chars) : x = chars[q]
      BY <1>1 DEF ToSet
    <2>2. CASE q \in 1 .. m
      <3>1. chars[q] = IF q <= c THEN <<k + 1, q>> ELSE LF
        BY <1>5, <2>2
      <3>2. CASE q <= c
        <4>1. q \in 1 .. c
          BY <1>3, <2>2, <3>2
        <4>2. QED
          BY <2>1, <3>1, <3>2, <4>1
      <3>3. CASE ~(q <= c)
        BY <2>1, <3>1, <3>3
      <3>4. QED
        BY <3>2, <3>3
    <2>3. CASE q \notin 1 .. m
      <3>1. q = Len(chars) /\ Len(chars) = m + 1
        BY <1>1, <1>3, <1>4, <2>3
      <3>2. QED
        BY <1>4, <2>1, <3>1
    <2>4. QED
      BY <2>2, <2>3
  <1>7. \A q \in 1 .. c : <<k + 1, q>> \in ToSet(chars)
    <2>1. ASSUME NEW q \in 1 .. c PROVE <<k + 1, q>> \in ToSet(chars)
      <3>1. q \in 1 .. m /\ q <= c /\ q \in 1 .. Len(chars)
        BY <1>1, <1>3, <1>4
      <3>2. chars[q] = <<k + 1, q>>
        BY <1>5, <3>1
      <3>3. DOMAIN chars = 1 .. Len(chars)
        BY <1>1
      <3>4. QED
        BY <3>1, <3>2, <3>3 DEF ToSet
    <2>2. QED
      BY <2>1
  <1>8. Pieces(chars, k, c)
    <2> SUFFICES ASSUME NEW i \in Nat, NEW j \in Nat, i > 0
                 PROVE  <<i, j>> \in ToSet(chars) <=> i = k + 1 /\ j \in 1 .. c
      BY DEF Pieces
    <2>1. <<i, j>> \notin {CR, LF}
      BY DEF CR, LF
    <2>2. QED
      BY <1>6, <1>7, <2>1
  <1>9. ToSet(chars) \subseteq {CR, LF} => c = 0
    <2>1. ASSUME c # 0, ToSet(chars) \subseteq {CR, LF} PROVE FALSE
      <3>1. 1 \in 1 .. c
        BY <1>3, <2>1
      <3>2. <<k + 1, 1>> \in ToSet(chars)
        BY <1>7, <3>1
      <3>3. QED
        BY <2>1, <3>2 DEF CR, LF
    <2>2. QED
      BY <2>1
  <1>10. QED
    BY <1>3, <1>8, <1>9

(* All events were read when the last of their pieces was.                 *)
LEMMA WholeIsRead ==
  ASSUME NEW s \in Streams, NEW p \in Nat, NEW n \in Nat
  PROVE  /\ p <= Len(Wire(s)) /\ p < At(s, n + 1)
         /\ <<Len(s.events), 3>> \in ToSet(SubSeq(Wire(s), 1, p))
         => n >= 5 * Len(s.events) - 2
  <1>0. \A r \in Nat : \E m \in Nat : At(s, m) <= r /\ r < At(s, m + 1)
    <2>1. s.crlf \in BOOLEAN
      BY StreamAssumption
    <2>2. QED
      BY <2>1, AtBetween
  <1> SUFFICES ASSUME p <= Len(Wire(s)), p < At(s, n + 1),
                      <<Len(s.events), 3>> \in ToSet(SubSeq(Wire(s), 1, p))
               PROVE  n >= 5 * Len(s.events) - 2
    OBVIOUS
  <1> DEFINE E == Len(s.events)
             W == Wire(s)
             final == 5 * E - 2
  <1>1. /\ s.crlf \in BOOLEAN /\ E \in Nat /\ Len(W) \in Nat /\ W \in Seq(Nat \X Nat)
        /\ At(s, 5 * E) = Len(W)
        /\ \A i \in 1 .. 5 * E : W[At(s, i)] = Plain(i)
        /\ \A i \in 0 .. 5 * E - 1 : At(s, i) + 1 < At(s, i + 1) => W[At(s, i) + 1] = CR
    BY WireIs
  <1>2. \A i, j \in Nat : At(s, i) \in Nat /\ (i < j <=> At(s, i) < At(s, j))
    <2>1. s.crlf \in BOOLEAN
      BY <1>1
    <2>2. QED
      BY <2>1, AtOrder
  <1>3. PICK q \in Nat : q \in 1 .. p /\ W[q] = <<E, 3>>
    <2>1. <<E, 3>> \in ToSet(SubSeq(W, 1, p))
      OBVIOUS
    <2> HIDE DEF W, E
    <2>2. Len(SubSeq(W, 1, p)) = p /\ \A i \in 1 .. p : SubSeq(W, 1, p)[i] = W[i]
      BY <1>1 DEF W
    <2>3. DOMAIN SubSeq(W, 1, p) = 1 .. p
      BY <1>1 DEF W
    <2>4. ToSet(SubSeq(W, 1, p)) = {SubSeq(W, 1, p)[i] : i \in 1 .. p}
      BY <2>3 DEF ToSet
    <2>5. PICK i \in 1 .. p : SubSeq(W, 1, p)[i] = <<E, 3>>
      BY <2>1, <2>4
    <2>6. i \in Nat /\ W[i] = <<E, 3>>
      BY <2>2, <2>5
    <2>7. QED
      BY <2>5, <2>6
  <1>4. PICK m \in Nat : At(s, m) <= q /\ q < At(s, m + 1)
    BY <1>0, <1>3
  <1>5. q \in Nat /\ q <= Len(W) /\ 0 < q /\ q <= p
    BY <1>1, <1>3
  <1>6. At(s, m) \in Nat /\ At(s, m + 1) \in {At(s, m) + 1, At(s, m) + 2}
    BY <1>1, <1>2, <1>4, AtSteps
  <1> HIDE DEF E, W
  <1>7. q = At(s, m) /\ m \in 1 .. 5 * E
    <2>1. CASE q = At(s, m)
      <3>1. m # 0
        BY <1>5, <2>1, AtStart
      <3>2. 5 * E \in Nat /\ At(s, 5 * E) \in Nat /\ ~(At(s, 5 * E) < At(s, m))
        BY <1>1, <1>2, <1>5, <2>1
      <3>3. ~(5 * E < m)
        BY <1>2, <3>2
      <3>4. QED
        BY <1>4, <2>1, <3>1, <3>2, <3>3
    <2>2. CASE q # At(s, m)
      <3>1. q = At(s, m) + 1 /\ At(s, m) + 1 < At(s, m + 1)
        BY <1>4, <1>5, <1>6, <2>2
      <3>2. 5 * E \in Nat /\ At(s, 5 * E) \in Nat /\ At(s, m) < At(s, 5 * E)
        BY <1>1, <1>2, <1>5, <1>6, <3>1
      <3>3. m < 5 * E
        BY <1>2, <3>2
      <3>4. m \in 0 .. 5 * E - 1
        BY <3>2, <3>3
      <3>5. W[q] = CR
        BY <1>1, <3>1, <3>4
      <3>6. QED
        BY <1>3, <3>5 DEF CR
    <2>3. QED
      BY <2>1, <2>2
  <1>8. Plain(m) = <<E, 3>>
    BY <1>1, <1>3, <1>7
  <1>9. m = final /\ m > 0
    <2>1. PICK a \in Int, b \in 0 .. 4 : /\ m = 5 * a + b + 1
                                         /\ (m - 1) \div 5 = a /\ (m - 1) % 5 = b
                                         /\ m > 0 => a \in Nat
      BY Fifths
    <2>2. Plain(m) = IF b < 3 THEN <<a + 1, b + 1>> ELSE LF
      BY <2>1 DEF Plain
    <2>3. b < 3 /\ a + 1 = E /\ b + 1 = 3
      BY <1>8, <2>1, <2>2 DEF LF
    <2>4. QED
      BY <1>1, <1>7, <2>1, <2>3
  <1>10. At(s, m) < At(s, n + 1)
    <2>1. At(s, n + 1) \in Nat
      BY <1>2
    <2>2. QED
      BY <1>5, <1>6, <1>7, <2>1
  <1>11. m < n + 1
    <2>1. n + 1 \in Nat
      OBVIOUS
    <2>2. QED
      BY <1>2, <1>10, <2>1
  <1>12. n >= final
    BY <1>1, <1>9, <1>11
  <1>13. QED
    BY <1>12 DEF E

(* A data line is that of the next event, once it is long enough.          *)
LEMMA PiecesAreLines ==
  ASSUME served \in Streams, NEW k \in Nat, NEW c \in 0 .. 3, NEW raw, Pieces(raw, k, c),
         c > 0 => k < Len(served.events)
  PROVE  /\ DataLines(raw) = IF c >= 2 /\ served.events[k + 1].kind # "comment"
                             THEN {k + 1} ELSE {}
         /\ <<k + 1, 3>> \in ToSet(raw) <=> c = 3
  <1>1. Len(served.events) \in Nat /\ DOMAIN served.events = 1 .. Len(served.events)
    BY EventsAreEvents
  <1>2. ASSUME NEW i \in 1 .. Len(served.events), NEW j \in {1, 2, 3}
        PROVE  <<i, j>> \in ToSet(raw) <=> i = k + 1 /\ j <= c
    <2>1. i \in Nat /\ i > 0 /\ j \in Nat
      BY <1>1
    <2>2. QED
      BY <2>1 DEF Pieces
  <1>3. DataLines(raw) = {i \in 1 .. Len(served.events) :
                            /\ served.events[i].kind # "comment"
                            /\ <<i, 1>> \in ToSet(raw) /\ <<i, 2>> \in ToSet(raw)}
    BY <1>1 DEF DataLines
  <1>4. CASE c >= 2 /\ served.events[k + 1].kind # "comment"
    <2>1. k + 1 \in 1 .. Len(served.events)
      BY <1>1, <1>4
    <2>2. QED
      BY <1>2, <1>3, <1>4, <2>1 DEF Pieces
  <1>5. CASE ~(c >= 2 /\ served.events[k + 1].kind # "comment")
    <2>1. DataLines(raw) = {}
      BY <1>2, <1>3, <1>5
    <2>2. <<k + 1, 3>> \in ToSet(raw) <=> c = 3
      BY DEF Pieces
    <2>3. QED
      BY <1>5, <2>1, <2>2
  <1>6. QED
    BY <1>4, <1>5

(* One event: it is heard, or only its beginning was there.                *)
LEMMA Consumed ==
  ASSUME served \in Streams, NEW k \in Nat, NEW c \in 0 .. 3, NEW raw, NEW rest,
         Pieces(raw, k, c), c > 0 => k < Len(served.events),
         context = Said(served)[k].context, tools = Said(served)[k].tools,
         ConsumeSseEvent(raw, rest)
  PROVE  \/ c < 3 /\ stage' = stage /\ buffer' = rest /\ UNCHANGED <<context, tools>>
         \/ c \in {1, 2} /\ stage' = "rejected" /\ UNCHANGED <<context, tools>>
         \/ /\ c = 3 /\ k + 1 \in DOMAIN served.events /\ ~Readable(raw, k + 1)
            /\ stage' = "rejected" /\ UNCHANGED <<context, tools>>
         \/ /\ c = 3
            /\ context' = Said(served)[k + 1].context /\ tools' = Said(served)[k + 1].tools
            /\ \/ stage' = stage /\ buffer' = rest
               \/ stage' = "finishing" /\ buffer' = <<>> /\ k + 1 = Len(served.events)
  <1> DEFINE event == served.events[k + 1]
             lines == DataLines(raw)
             parses == \E i \in lines : lines = {i} /\ Readable(raw, i)
             picked == served.events[CHOOSE i \in lines : TRUE]
             quiet == /\ lines = {} /\ buffer' = rest
                      /\ UNCHANGED <<stage, context, tools, report>>
             torn == /\ lines # {} /\ ~parses
                     /\ stage' = "rejected"
                     /\ UNCHANGED <<buffer, context, tools, report>>
             done == /\ parses /\ picked.kind = "done"
                     /\ buffer' = <<>> /\ stage' = "finishing"
                     /\ UNCHANGED <<context, tools, report>>
             chunk == /\ parses /\ picked.kind = "chunk"
                      /\ TakeChunk(picked)
                      /\ buffer' = rest /\ UNCHANGED stage
  <1>1. quiet \/ torn \/ done \/ chunk
    BY DEF ConsumeSseEvent
  <1>2. /\ lines = IF c >= 2 /\ event.kind # "comment" THEN {k + 1} ELSE {}
        /\ <<k + 1, 3>> \in ToSet(raw) <=> c = 3
    BY PiecesAreLines
  <1>3. c = 3 => /\ k + 1 \in 1 .. Len(served.events)
                 /\ Said(served)[k + 1] = Heard(Said(served)[k], event)
    <2>1. ASSUME c = 3 PROVE k + 1 \in 1 .. Len(served.events) /\ k + 1 - 1 = k
      BY <2>1, EventsAreEvents
    <2>2. QED
      BY <2>1, SaidIs
  <1> HIDE DEF lines
  <1>4. parses => c = 3 /\ event.kind # "comment" /\ picked = event
    <2>1. ASSUME parses PROVE c = 3 /\ event.kind # "comment" /\ lines = {k + 1}
      BY <1>2, <2>1 DEF Readable
    <2>2. lines = {k + 1} => (CHOOSE i \in lines : TRUE) = k + 1
      OBVIOUS
    <2>3. QED
      BY <2>1, <2>2
  <1>5. c = 3 /\ ~parses => \/ event.kind = "comment" /\ lines = {}
                            \/ lines # {} /\ ~Readable(raw, k + 1)
    BY <1>2
  <1> HIDE DEF parses, picked
  <1>6. CASE quiet
    <2>1. c < 3 \/ (c = 3 /\ event.kind = "comment")
      <3>1. c = 3 => ~parses
        BY <1>6 DEF parses
      <3>2. QED
        BY <1>5, <1>6, <3>1
    <2>2. CASE c < 3
      BY <1>6, <2>2
    <2>3. CASE c = 3 /\ event.kind = "comment"
      <3>1. Said(served)[k + 1] = Said(served)[k]
        BY <1>3, <2>3 DEF Heard
      <3>2. QED
        BY <1>6, <2>3, <3>1
    <2>4. QED
      BY <2>1, <2>2, <2>3
  <1>7. CASE torn
    <2>1. c # 0 /\ (c = 3 => ~Readable(raw, k + 1))
      BY <1>2, <1>5, <1>7
    <2>2. c = 3 => k + 1 \in DOMAIN served.events
      BY <1>3, EventsAreEvents
    <2>3. c \in {1, 2} \/ c = 3
      BY <2>1
    <2>4. QED
      BY <1>7, <2>1, <2>2, <2>3
  <1>8. CASE done
    <2>1. c = 3 /\ event.kind = "done"
      BY <1>4, <1>8
    <2>2. k + 1 = Len(served.events)
      <3>1. k + 1 \in DOMAIN served.events
        BY <1>3, <2>1, EventsAreEvents
      <3>2. \A i \in DOMAIN served.events :
              served.events[i].kind = "done" => i = Len(served.events)
        BY StreamAssumption DEF Spells
      <3>3. QED
        BY <2>1, <3>1, <3>2
    <2>3. Said(served)[k + 1] = Said(served)[k]
      BY <1>3, <2>1 DEF Heard
    <2>4. QED
      BY <1>8, <2>1, <2>2, <2>3
  <1>9. CASE chunk
    <2>1. c = 3 /\ event.kind = "chunk" /\ TakeChunk(event)
      BY <1>4, <1>9
    <2>2. /\ Said(served)[k + 1].context = Advanced(context, event)
          /\ Said(served)[k + 1].tools = IF event.choice
                                         THEN AccumulateToolDeltas(tools, event.calls)
                                         ELSE tools
      BY <1>3, <2>1 DEF Heard
    <2>3. /\ context' = Advanced(context, event)
          /\ tools' = IF event.choice THEN AccumulateToolDeltas(tools, event.calls) ELSE tools
      BY <2>1 DEF TakeChunk
    <2>4. QED
      BY <1>9, <2>1, <2>2, <2>3
  <1>10. QED
    BY <1>1, <1>6, <1>7, <1>8, <1>9

(* An event that was not cut off is readable, unless the body ended on the *)
(* CR behind it.                                                           *)
LEMMA LoneCR ==
  ASSUME served \in Streams, NEW k \in Nat, NEW n \in Nat, sent \in Nat,
         Window(served, buffer, k, n, sent), sent <= Len(Wire(served)), n < 5 * k + 5,
         k + 1 \in DOMAIN served.events,
         <<k + 1, 3>> \in ToSet(buffer), ~Readable(buffer, k + 1), ended
  PROVE  EndedBehindDone
  <1> DEFINE E == Len(served.events)
             W == Wire(served)
             m == n - 5 * k
             a == At(served, n)
  <1>1. served.events[k + 1].kind = "done"
    BY DEF Readable
  <1>2. k + 1 = E /\ E \in Nat /\ Last(served.events).kind = "done"
    <2>1. \A i \in DOMAIN served.events :
            served.events[i].kind = "done" => i = Len(served.events)
      BY StreamAssumption DEF Spells
    <2>2. k + 1 = E
      BY <1>1, <2>1
    <2>3. Last(served.events) = served.events[k + 1]
      BY <2>2 DEF Last
    <2>4. QED
      BY <1>1, <2>2, <2>3, EventsAreEvents
  <1>3. PICK p \in 1 .. Len(buffer) - 1 : buffer[p] = <<k + 1, 3>> /\ buffer[p + 1] = CR
    BY DEF Readable
  <1>4. /\ n <= 5 * E /\ Len(buffer) \in {m, m + 1} /\ Len(buffer) \in Nat
        /\ \A q \in 1 .. m : buffer[q] = Plain(5 * k + q)
        /\ m \in 0 .. 4
    <2>1. /\ n <= 5 * Len(served.events) /\ 5 * k <= n
          /\ Len(buffer) \in {n - 5 * k, n - 5 * k + 1} /\ Len(buffer) \in Nat
          /\ \A q \in 1 .. n - 5 * k : buffer[q] = Plain(5 * k + q)
      BY WindowIs
    <2>2. m \in 0 .. 4
      BY <2>1
    <2>3. QED
      BY <2>1, <2>2
  <1>5. \A q \in 1 .. m : buffer[q] = IF q < 4 THEN <<k + 1, q>> ELSE LF
    <2>1. ASSUME NEW q \in 1 .. m PROVE buffer[q] = IF q < 4 THEN <<k + 1, q>> ELSE LF
      <3>1. q \in 1 .. 5
        BY <1>4
      <3>2. QED
        BY <1>4, <3>1, PlainOfAnEvent
    <2>2. QED
      BY <2>1
  <1> HIDE DEF m
  <1>6. p + 1 = Len(buffer) /\ Len(buffer) = m + 1
    <2>1. p + 1 \notin 1 .. m
      <3>1. ASSUME p + 1 \in 1 .. m PROVE buffer[p + 1] # CR
        <4>1. buffer[p + 1] = <<k + 1, p + 1>> \/ buffer[p + 1] = LF
          BY <1>5, <3>1
        <4>2. <<k + 1, p + 1>> # CR /\ LF # CR
          BY DEF CR, LF
        <4>3. QED
          BY <4>1, <4>2
      <3>2. QED
        BY <1>3, <3>1
    <2>2. QED
      BY <1>3, <1>4, <2>1
  <1>7. m = 3
    <2>1. p = m /\ p \in 1 .. m
      BY <1>3, <1>4, <1>6
    <2>2. buffer[m] = IF m < 4 THEN <<k + 1, m>> ELSE LF
      BY <1>5, <2>1
    <2>3. QED
      BY <1>3, <2>1, <2>2 DEF LF
  <1>8. n = 5 * k + 3
    BY <1>7 DEF m
  <1>9. a \in Nat /\ sent = a + 1 /\ a + 1 < At(served, n + 1)
    <2>1. served.crlf \in BOOLEAN
      BY StreamAssumption
    <2>2. a \in Nat
      BY <2>1, AtGrows
    <2>3. Len(buffer) = m + (sent - a) /\ sent < At(served, n + 1)
      BY DEF Window, m
    <2>4. QED
      BY <1>4, <1>6, <2>2, <2>3
  <1>10. W[a] = <<E, 3>> /\ W[a + 1] = CR /\ a > 0
    <2>1. /\ \A i \in 1 .. 5 * E : W[At(served, i)] = Plain(i)
          /\ \A i \in 0 .. 5 * E - 1 :
               At(served, i) + 1 < At(served, i + 1) => W[At(served, i) + 1] = CR
      BY WireIs
    <2>2. n \in 1 .. 5 * E /\ n \in 0 .. 5 * E - 1
      BY <1>2, <1>8
    <2>3. Plain(n) = <<E, 3>>
      <3>1. Plain(5 * k + 3) = <<k + 1, 3>>
        BY PlainOfAnEvent
      <3>2. QED
        BY <1>2, <1>8, <3>1
    <2>4. a > 0
      <3>1. At(served, 0) < At(served, n) /\ At(served, 0) = 0
        <4>1. served.crlf \in BOOLEAN /\ 0 < n
          BY <1>8, StreamAssumption
        <4>2. QED
          BY <4>1, AtOrder, AtStart
      <3>2. QED
        BY <3>1
    <2> HIDE DEF W
    <2>5. QED
      BY <1>9, <2>1, <2>2, <2>3, <2>4
  <1> HIDE DEF W, a
  <1>11. sent > 1 /\ sent - 1 = a /\ W[sent - 1] = <<E, 3>> /\ W[sent] = CR
    BY <1>9, <1>10
  <1>12. QED
    BY <1>2, <1>11 DEF EndedBehindDone, W

(***************************************************************************)
(* The inductive invariant: what was put together is what the events that  *)
(* have left the buffer say, the buffer is the rest of what was read, and  *)
(* of a body that was read in full nothing gets lost.                      *)
(***************************************************************************)
(* The caller was told of all the text.                                    *)
Told ==
  /\ report.content = context.content /\ report.estimate = context.estimate
  /\ report.finish = context.finish

(* k events were heard; what was read of the others is in the buffer, and  *)
(* once the body has ended, nothing is missing that was read.              *)
Progress(k) ==
  /\ context = Said(served)[k].context /\ tools = Said(served)[k].tools
  /\ stage \in {"fetching", "reading", "draining"} =>
       \/ \E n \in Nat : Window(served, buffer, k, n, sent)
       \/ ended /\ buffer = <<>> /\ (Whole => k = Len(served.events))
  /\ stage \in {"finishing", "returned"} => (Whole => k = Len(served.events))

StreamInv ==
  /\ served \in Streams /\ sent \in Nat /\ sent <= Len(Wire(served))
  /\ \E k \in 0 .. Len(served.events) : Progress(k)
  /\ Told
  /\ stage = "returned" =>
       /\ Complete(tools)
       /\ answer = [content |-> context.content,
                    tokens  |-> IF context.used > 0 THEN context.used
                                ELSE MessagesEstimate + context.estimate,
                    finish  |-> context.finish,
                    calls   |-> FinalizeStreamToolCalls(tools)]
  /\ stage = "rejected" => ~Whole \/ EndedBehindDone

(* The invariant holds at first, and every action keeps it.                *)
LEMMA StreamInvInit == ChatInit => StreamInv
  <1> SUFFICES ASSUME ChatInit PROVE StreamInv
    OBVIOUS
  <1>1. /\ stage = "fetching" /\ served \in Streams /\ sent = 0 /\ buffer = <<>>
        /\ context = Empty /\ tools = <<>> /\ report = Empty
    BY DEF ChatInit
  <1>2. Len(served.events) \in Nat /\ served.crlf \in BOOLEAN /\ Len(Wire(served)) \in Nat
    BY <1>1, WireIs
  <1>3. context = Said(served)[0].context /\ tools = Said(served)[0].tools
    BY <1>1, SaidIs
  <1>4. Window(served, <<>>, 0, 0, 0)
    <2>1. At(served, 0) = 0 /\ At(served, 1) \in {1, 2}
      <3>1. At(served, 0 + 1) \in {At(served, 0) + 1, At(served, 0) + 2}
        BY <1>2, AtSteps
      <3>2. QED
        BY <3>1, AtStart
    <2>2. <<>> \in Seq(Nat \X Nat) /\ Len(<<>>) = 0
      OBVIOUS
    <2>3. QED
      BY <2>1, <2>2 DEF Window
  <1>5. Progress(0)
    BY <1>1, <1>3, <1>4 DEF Progress
  <1>6. QED
    BY <1>1, <1>2, <1>5 DEF StreamInv, Told

(* The types of what was put together.                                     *)
LEMMA ContextNow ==
  ASSUME StreamInv
  PROVE  context \in Context /\ tools \in Tools /\ Len(served.events) \in Nat
  <1>1. served \in Streams /\ \E k \in 0 .. Len(served.events) : Progress(k)
    BY DEF StreamInv
  <1>2. PICK k \in 0 .. Len(served.events) : Progress(k)
    BY <1>1
  <1>3. Says(served, Said(served)[k])
    BY <1>1, <1>2, SaidIs
  <1>4. QED
    BY <1>1, <1>2, <1>3, EventsAreEvents DEF Says, Progress

(* An event never leaves the caller behind.                                *)
LEMMA ConsumedIsTold ==
  ASSUME StreamInv, NEW raw, NEW rest, ConsumeSseEvent(raw, rest)
  PROVE  Told'
  <1> DEFINE lines == DataLines(raw)
             picked == served.events[CHOOSE i \in lines : TRUE]
  <1>1. \/ UNCHANGED <<context, report>>
        \/ lines # {} /\ picked.kind = "chunk" /\ TakeChunk(picked)
    BY DEF ConsumeSseEvent
  <1>2. Told /\ served \in Streams /\ context \in Context
    BY ContextNow DEF StreamInv
  <1>3. CASE UNCHANGED <<context, report>>
    BY <1>2, <1>3 DEF Told
  <1>4. CASE lines # {} /\ picked.kind = "chunk" /\ TakeChunk(picked)
    <2>1. (CHOOSE i \in lines : TRUE) \in DOMAIN served.events
      BY <1>4 DEF DataLines
    <2>2. picked \in Event
      BY <1>2, <2>1, EventsAreEvents
    <2>3. picked \in Chunk
      BY <1>4, <2>2 DEF Event
    <2> HIDE DEF picked, lines
    <2>4. CASE picked.choice
      BY <1>4, <2>4 DEF TakeChunk, Told
    <2>5. CASE ~picked.choice
      <3>1. context' = Advanced(context, picked) /\ report' = report
        BY <1>4, <2>5 DEF TakeChunk
      <3>2. /\ Advanced(context, picked).content = context.content
            /\ Advanced(context, picked).estimate = context.estimate
            /\ Advanced(context, picked).finish = context.finish
        BY <1>2, <2>3, <2>5, AdvancedIsContext
      <3>3. QED
        BY <1>2, <3>1, <3>2 DEF Told
    <2>6. QED
      BY <2>4, <2>5
  <1>5. QED
    BY <1>1, <1>3, <1>4

(* A text that has not arrived in full has a next event.                   *)
LEMMA ReadInFull ==
  ASSUME StreamInv, NEW k \in 0 .. Len(served.events), NEW n \in Nat,
         Window(served, buffer, k, n, sent), Whole
  PROVE  n >= 5 * Len(served.events) - 2
  <1>1. /\ sent <= Len(Wire(served)) /\ sent < At(served, n + 1)
        /\ <<Len(served.events), 3>> \in ToSet(SubSeq(Wire(served), 1, sent))
    BY DEF StreamInv, Window, Whole
  <1>2. served \in Streams /\ sent \in Nat
    BY DEF StreamInv
  <1>3. QED
    BY <1>1, <1>2, WholeIsRead

LEMMA DrainEventKeepsInv == StreamInv /\ DrainEvent => StreamInv'
  <1> SUFFICES ASSUME StreamInv, DrainEvent PROVE StreamInv'
    OBVIOUS
  <1>1. /\ served \in Streams /\ sent \in Nat /\ sent <= Len(Wire(served))
        /\ \E k \in 0 .. Len(served.events) : Progress(k)
    BY DEF StreamInv
  <1>2. /\ stage = "draining" /\ Boundaries # {}
        /\ ConsumeSseEvent(SubSeq(buffer, 1, Min(Boundaries) - 1),
                           SubSeq(buffer, Min(Boundaries) + 2, Len(buffer)))
        /\ UNCHANGED <<served, sent, ended, answer>>
    BY DEF DrainEvent
  <1>3. PICK k \in 0 .. Len(served.events) : Progress(k)
    BY <1>1
  <1>4. Len(served.events) \in Nat
    BY <1>1, EventsAreEvents
  <1>5. PICK n \in Nat : Window(served, buffer, k, n, sent)
    <2>1. buffer # <<>>
      BY <1>2 DEF Boundaries
    <2>2. QED
      BY <1>2, <1>3, <2>1 DEF Progress
  <1>6. k \in Nat /\ n >= 5 * k + 5 /\ Min(Boundaries) = 4
    BY <1>1, <1>2, <1>3, <1>4, <1>5, WindowBoundaries
  <1> DEFINE raw == SubSeq(buffer, 1, 3)
             rest == SubSeq(buffer, 6, Len(buffer))
  <1>7. ConsumeSseEvent(raw, rest)
    BY <1>2, <1>6
  <1>8. /\ Pieces(raw, k, 3) /\ Window(served, rest, k + 1, n, sent)
        /\ CR \notin ToSet(raw) /\ Len(raw) = 3 /\ DOMAIN raw = 1 .. 3
    <2>1. Len(buffer) \in Nat /\ buffer \in Seq(Nat \X Nat)
      BY <1>1, <1>5, <1>6, WindowIs
    <2>2. Len(SubSeq(buffer, 1, 3)) = 3 /\ DOMAIN SubSeq(buffer, 1, 3) = 1 .. 3
      BY <2>1
    <2>3. QED
      BY <1>1, <1>5, <1>6, <2>2, CutOff
  <1>9. k + 1 \in 0 .. Len(served.events) /\ k < Len(served.events)
    <2>1. n <= 5 * Len(served.events)
      BY <1>1, <1>5, <1>6, WindowIs
    <2>2. QED
      BY <1>3, <1>4, <1>5, <1>6, <2>1
  <1> HIDE DEF raw, rest
  <1>10. /\ context' = Said(served)[k + 1].context /\ tools' = Said(served)[k + 1].tools
         /\ \/ stage' = stage /\ buffer' = rest
            \/ stage' = "finishing" /\ buffer' = <<>> /\ k + 1 = Len(served.events)
    <2>1. context = Said(served)[k].context /\ tools = Said(served)[k].tools
      BY <1>3 DEF Progress
    <2>2. Readable(raw, k + 1)
      <3>1. <<k + 1, 3>> \in ToSet(raw)
        BY <1>6, <1>8 DEF Pieces
      <3>2. \A p \in 1 .. Len(raw) - 1 : raw[p + 1] # CR
        BY <1>8 DEF ToSet
      <3>3. QED
        BY <3>1, <3>2 DEF Readable
    <2>3. QED
      BY <1>1, <1>6, <1>7, <1>8, <1>9, <2>1, <2>2, Consumed
  <1>11. Told'
    BY <1>7, ConsumedIsTold
  <1>12. Progress(k + 1)'
    BY <1>2, <1>8, <1>10 DEF Progress
  <1>13. (\E m \in 0 .. Len(served.events) : Progress(m))'
    BY <1>2, <1>9, <1>12
  <1>14. stage' \in {"draining", "finishing"}
    BY <1>2, <1>10
  <1>15. QED
    BY <1>1, <1>2, <1>11, <1>13, <1>14 DEF StreamInv

LEMMA FlushTrailingKeepsInv == StreamInv /\ FlushTrailing => StreamInv'
  <1> SUFFICES ASSUME StreamInv, FlushTrailing PROVE StreamInv'
    OBVIOUS
  <1>1. /\ served \in Streams /\ sent \in Nat /\ sent <= Len(Wire(served))
        /\ \E k \in 0 .. Len(served.events) : Progress(k)
    BY DEF StreamInv
  <1>2. /\ stage = "draining" /\ Boundaries = {} /\ ended /\ ~(ToSet(buffer) \subseteq {CR, LF})
        /\ ConsumeSseEvent(buffer, <<>>)
        /\ UNCHANGED <<served, sent, ended, answer>>
    BY DEF FlushTrailing, Trailing
  <1>3. PICK k \in 0 .. Len(served.events) : Progress(k)
    BY <1>1
  <1>4. Len(served.events) \in Nat /\ k \in Nat
    BY <1>1, <1>3, EventsAreEvents
  <1>5. PICK n \in Nat : Window(served, buffer, k, n, sent)
    <2>1. buffer # <<>>
      BY <1>2 DEF ToSet
    <2>2. QED
      BY <1>2, <1>3, <2>1 DEF Progress
  <1>6. n < 5 * k + 5
    BY <1>1, <1>2, <1>4, <1>5, WindowBoundaries
  <1>7. PICK c \in 0 .. 3 : /\ Pieces(buffer, k, c)
                            /\ n < 5 * k + 3 => n = 5 * k + c
                            /\ n >= 5 * k + 3 => c = 3
                            /\ c > 0 => k < Len(served.events)
    BY <1>1, <1>4, <1>5, <1>6, LeftInTheEnd
  <1>8. Whole => n >= 5 * Len(served.events) - 2
    BY <1>3, <1>5, ReadInFull
  <1>9. Told'
    BY <1>2, ConsumedIsTold
  <1>10. Whole' = Whole
    BY <1>2 DEF Whole
  <1>11. context = Said(served)[k].context /\ tools = Said(served)[k].tools
    BY <1>3 DEF Progress
  <1>12. \/ c < 3 /\ stage' = stage /\ buffer' = <<>> /\ UNCHANGED <<context, tools>>
         \/ /\ c = 3 /\ k + 1 \in DOMAIN served.events /\ ~Readable(buffer, k + 1)
            /\ stage' = "rejected" /\ UNCHANGED <<context, tools>>
         \/ c \in {1, 2} /\ stage' = "rejected" /\ UNCHANGED <<context, tools>>
         \/ /\ c = 3
            /\ context' = Said(served)[k + 1].context /\ tools' = Said(served)[k + 1].tools
            /\ \/ stage' = stage /\ buffer' = <<>>
               \/ stage' = "finishing" /\ buffer' = <<>> /\ k + 1 = Len(served.events)
    BY <1>1, <1>2, <1>4, <1>7, <1>11, Consumed
  <1>13. CASE c < 3 /\ stage' = stage /\ buffer' = <<>> /\ UNCHANGED <<context, tools>>
    <2>1. Whole => k = Len(served.events)
      BY <1>3, <1>4, <1>5, <1>7, <1>8, <1>13
    <2>2. Progress(k)'
      BY <1>2, <1>10, <1>11, <1>13, <2>1 DEF Progress
    <2>3. (\E m \in 0 .. Len(served.events) : Progress(m))'
      BY <1>2, <1>3, <2>2
    <2>4. QED
      BY <1>1, <1>2, <1>9, <1>13, <2>3 DEF StreamInv
  <1>14. CASE c \in {1, 2} /\ stage' = "rejected" /\ UNCHANGED <<context, tools>>
    <2>1. ~Whole
      BY <1>3, <1>4, <1>5, <1>7, <1>8, <1>14
    <2>2. Progress(k)'
      BY <1>2, <1>11, <1>14 DEF Progress
    <2>3. (\E m \in 0 .. Len(served.events) : Progress(m))'
      BY <1>2, <1>3, <2>2
    <2>4. QED
      BY <1>1, <1>2, <1>9, <1>10, <1>14, <2>1, <2>3 DEF StreamInv
  <1>15. CASE /\ c = 3
              /\ context' = Said(served)[k + 1].context /\ tools' = Said(served)[k + 1].tools
              /\ \/ stage' = stage /\ buffer' = <<>>
                 \/ stage' = "finishing" /\ buffer' = <<>> /\ k + 1 = Len(served.events)
    <2>1. k + 1 \in 0 .. Len(served.events) /\ (Whole => k + 1 = Len(served.events))
      BY <1>3, <1>4, <1>5, <1>6, <1>7, <1>8, <1>15
    <2>2. Progress(k + 1)'
      BY <1>2, <1>10, <1>15, <2>1 DEF Progress
    <2>3. (\E m \in 0 .. Len(served.events) : Progress(m))'
      BY <1>2, <2>1, <2>2
    <2>4. QED
      BY <1>1, <1>2, <1>9, <1>15, <2>3 DEF StreamInv
  <1>16. CASE /\ c = 3 /\ k + 1 \in DOMAIN served.events /\ ~Readable(buffer, k + 1)
              /\ stage' = "rejected" /\ UNCHANGED <<context, tools>>
    <2>1. <<k + 1, 3>> \in ToSet(buffer)
      BY <1>4, <1>7, <1>16 DEF Pieces
    <2>2. EndedBehindDone
      BY <1>1, <1>2, <1>4, <1>5, <1>6, <1>16, <2>1, LoneCR
    <2>3. EndedBehindDone'
      BY <1>2, <2>2 DEF EndedBehindDone
    <2>4. Progress(k)'
      BY <1>2, <1>11, <1>16 DEF Progress
    <2>5. (\E m \in 0 .. Len(served.events) : Progress(m))'
      BY <1>2, <1>3, <2>4
    <2>6. QED
      BY <1>1, <1>2, <1>9, <1>16, <2>3, <2>5 DEF StreamInv
  <1>17. QED
    BY <1>12, <1>13, <1>14, <1>15, <1>16

LEMMA ReadSomeKeepsInv == StreamInv /\ ReadSome => StreamInv'
  <1> SUFFICES ASSUME StreamInv, ReadSome PROVE StreamInv'
    OBVIOUS
  <1>1. /\ served \in Streams /\ sent \in Nat /\ sent <= Len(Wire(served))
        /\ \E k \in 0 .. Len(served.events) : Progress(k)
        /\ Told
    BY DEF StreamInv
  <1>2. /\ stage = "reading" /\ ~ended /\ stage' = "draining"
        /\ UNCHANGED <<served, ended, context, tools, report, answer>>
    BY DEF ReadSome
  <1>3. Len(Wire(served)) \in Nat /\ Len(served.events) \in Nat
    BY <1>1, WireIs
  <1>4. PICK m \in 1 .. Len(Wire(served)) - sent :
          /\ sent' = sent + m
          /\ buffer' = Normalised(buffer \o SubSeq(Wire(served), sent + 1, sent + m))
    BY DEF ReadSome, Arrive
  <1>5. PICK k \in 0 .. Len(served.events) : Progress(k)
    BY <1>1
  <1>6. PICK n \in Nat : Window(served, buffer, k, n, sent)
    BY <1>2, <1>5 DEF Progress
  <1>7. PICK p2 \in Nat : /\ p2 = sent + m /\ sent < p2 /\ p2 <= Len(Wire(served))
                          /\ sent' = p2
                          /\ buffer' = Normalised(buffer \o SubSeq(Wire(served), sent + 1, p2))
    BY <1>1, <1>3, <1>4
  <1>8. PICK n2 : Window(served, buffer', k, n2, p2)
    <2>1. k \in Nat
      BY <1>3, <1>5
    <2>2. \E n2 : Window(served, Normalised(buffer \o SubSeq(Wire(served), sent + 1, p2)),
                         k, n2, p2)
      BY <1>1, <1>6, <1>7, <2>1, ArrivalKeepsTheWindow
    <2>3. QED
      BY <1>7, <2>2
  <1>9. n2 \in Nat
    BY <1>8 DEF Window
  <1>10. Progress(k)'
    <2>1. Window(served', buffer', k, n2, sent')
      BY <1>2, <1>7, <1>8
    <2>2. context' = Said(served')[k].context /\ tools' = Said(served')[k].tools
      BY <1>2, <1>5 DEF Progress
    <2>3. QED
      BY <1>2, <1>9, <2>1, <2>2 DEF Progress
  <1>11. (\E j \in 0 .. Len(served.events) : Progress(j))'
    BY <1>2, <1>5, <1>10
  <1>12. Told'
    BY <1>1, <1>2 DEF Told
  <1>13. QED
    BY <1>1, <1>2, <1>7, <1>11, <1>12 DEF StreamInv

LEMMA WaitingKeepsInv == StreamInv /\ (Respond \/ ReadEnd \/ Rejects) => StreamInv'
  <1> SUFFICES ASSUME StreamInv, Respond \/ ReadEnd \/ Rejects PROVE StreamInv'
    OBVIOUS
  <1>1. /\ stage \in {"fetching", "reading"} /\ stage' \in {"reading", "draining", "broken"}
        /\ UNCHANGED <<served, sent, buffer, context, tools, report, answer>>
        /\ ended => ended'
    BY DEF Respond, ReadEnd, Rejects
  <1>2. PICK k \in 0 .. Len(served.events) : Progress(k)
    BY DEF StreamInv
  <1>3. Whole' = Whole
    BY <1>1 DEF Whole
  <1>4. Progress(k)'
    BY <1>1, <1>2, <1>3 DEF Progress
  <1>5. (\E j \in 0 .. Len(served.events) : Progress(j))'
    BY <1>1, <1>2, <1>4
  <1>6. QED
    BY <1>1, <1>5 DEF StreamInv, Told

LEMMA DrainedKeepsInv == StreamInv /\ Drained => StreamInv'
  <1> SUFFICES ASSUME StreamInv, Drained PROVE StreamInv'
    OBVIOUS
  <1>1. /\ served \in Streams /\ sent \in Nat /\ sent <= Len(Wire(served))
        /\ \E k \in 0 .. Len(served.events) : Progress(k)
    BY DEF StreamInv
  <1>2. /\ stage = "draining" /\ Boundaries = {} /\ (ended => ToSet(buffer) \subseteq {CR, LF})
        /\ stage' = IF ended THEN "finishing" ELSE "reading"
        /\ UNCHANGED <<served, sent, ended, buffer, context, tools, report, answer>>
    BY DEF Drained, Trailing
  <1>3. PICK k \in 0 .. Len(served.events) : Progress(k)
    BY <1>1
  <1>4. Len(served.events) \in Nat /\ k \in Nat
    BY <1>1, <1>3, EventsAreEvents
  <1>5. Whole' = Whole
    BY <1>2 DEF Whole
  <1>6. ended /\ Whole => k = Len(served.events)
    <2> SUFFICES ASSUME ended, Whole, NEW n \in Nat, Window(served, buffer, k, n, sent)
                 PROVE  k = Len(served.events)
      BY <1>2, <1>3 DEF Progress
    <2>1. n < 5 * k + 5
      BY <1>1, <1>2, <1>4, WindowBoundaries
    <2>2. n = 5 * k
      <3>1. PICK c \in 0 .. 3 : /\ n < 5 * k + 3 => n = 5 * k + c
                                /\ n >= 5 * k + 3 => c = 3
                                /\ ToSet(buffer) \subseteq {CR, LF} => c = 0
        BY <1>1, <1>4, <2>1, LeftInTheEnd
      <3>2. QED
        BY <1>2, <1>4, <3>1
    <2>3. n >= 5 * Len(served.events) - 2
      BY <1>3, ReadInFull
    <2>4. QED
      BY <1>3, <1>4, <2>2, <2>3
  <1>7. Progress(k)'
    BY <1>2, <1>3, <1>5, <1>6 DEF Progress
  <1>8. (\E j \in 0 .. Len(served.events) : Progress(j))'
    BY <1>2, <1>3, <1>7
  <1>9. stage' \in {"finishing", "reading"}
    BY <1>2
  <1>10. QED
    BY <1>2, <1>8, <1>9 DEF StreamInv, Told

LEMMA FinishKeepsInv == StreamInv /\ Finish => StreamInv'
  <1> SUFFICES ASSUME StreamInv, Finish PROVE StreamInv'
    OBVIOUS
  <1>1. PICK k \in 0 .. Len(served.events) : Progress(k)
    BY DEF StreamInv
  <1>2. /\ stage = "finishing" /\ stage' \in {"returned", "rejected"}
        /\ stage' = "returned" =>
             /\ Complete(tools)
             /\ answer' = [content |-> context.content,
                           tokens  |-> IF context.used > 0 THEN context.used
                                       ELSE MessagesEstimate + context.estimate,
                           finish  |-> context.finish,
                           calls   |-> FinalizeStreamToolCalls(tools)]
        /\ stage' = "rejected" => ~Complete(tools)
        /\ UNCHANGED <<served, sent, ended, buffer, context, tools, report>>
    BY DEF Finish
  <1>3. Whole' = Whole
    BY <1>2 DEF Whole
  <1>4. Whole => k = Len(served.events)
    BY <1>1, <1>2 DEF Progress
  <1>5. stage' = "rejected" => ~Whole
    <2>1. Complete(Said(served)[Len(served.events)].tools)
      BY StreamAssumption DEF StreamInv, Spells
    <2>2. tools = Said(served)[k].tools
      BY <1>1 DEF Progress
    <2>3. QED
      BY <1>2, <1>4, <2>1, <2>2
  <1>6. Progress(k)'
    BY <1>1, <1>2, <1>3, <1>4 DEF Progress
  <1>7. (\E j \in 0 .. Len(served.events) : Progress(j))'
    BY <1>1, <1>2, <1>6
  <1>8. Told'
    BY <1>2 DEF StreamInv, Told
  <1>9. Complete(tools)' = Complete(tools) /\ FinalizeStreamToolCalls(tools)' = FinalizeStreamToolCalls(tools)
    BY <1>2
  <1>10. QED
    BY <1>2, <1>3, <1>5, <1>7, <1>8, <1>9 DEF StreamInv

LEMMA StreamInvHolds == ChatSpec => []StreamInv
  <1>1. ASSUME StreamInv, UNCHANGED chatVars PROVE StreamInv'
    BY <1>1 DEF StreamInv, Progress, Told, Whole, EndedBehindDone, chatVars
  <1>2. ASSUME StreamInv, ChatNext PROVE StreamInv'
    <2>1. ASSUME Over PROVE StreamInv'
      BY <1>1, <1>2, <2>1 DEF Over
    <2>2. QED
      BY <1>2, <2>1, ReadSomeKeepsInv, WaitingKeepsInv, DrainEventKeepsInv,
         FlushTrailingKeepsInv, DrainedKeepsInv, FinishKeepsInv DEF ChatNext
  <1>3. QED
    BY <1>1, <1>2, StreamInvInit, PTL DEF ChatSpec

(* What is returned was shown to onChunk: the circuit breaker has seen all *)
(* the text and all the estimate (openai-compat.ts:374-432).               *)
THEOREM StreamReportedIsAnswered == ChatSpec => []ReportedIsAnswered
  <1>1. StreamInv => ReportedIsAnswered
    <2> SUFFICES ASSUME StreamInv, stage = "returned"
                 PROVE  /\ answer.content = report.content /\ answer.finish = report.finish
                        /\ answer.tokens \in {context.used, MessagesEstimate + report.estimate}
      BY DEF ReportedIsAnswered
    <2>1. /\ answer.content = context.content /\ answer.finish = context.finish
          /\ answer.tokens = IF context.used > 0 THEN context.used
                             ELSE MessagesEstimate + context.estimate
      BY DEF StreamInv
    <2>2. QED
      BY <2>1 DEF StreamInv, Told
  <1>2. QED
    BY <1>1, StreamInvHolds, PTL

(* The list of the calls has every call once parsed, and no other.         *)
LEMMA FinalCalls ==
  ASSUME NEW t \in Tools
  PROVE  ToSet(FinalizeStreamToolCalls(t)) =
           {[name |-> t[i].name, args |-> ParseToolArguments(t[i].args)] : i \in DOMAIN t}
  <1> DEFINE S == DOMAIN t
             indices == Ascending(S)
             listed == [n \in DOMAIN indices |-> t[indices[n]]]
             parsed(i) == [name |-> t[i].name, args |-> ParseToolArguments(t[i].args)]
             final == FinalizeStreamToolCalls(t)
  <1>1. S \in SUBSET Nat /\ IsFiniteSet(S)
    BY DEF Tools
  <1>2. /\ Cardinality(S) \in Nat
        /\ indices \in [1 .. Cardinality(S) -> S]
        /\ \A i \in S : \E n \in 1 .. Cardinality(S) : indices[n] = i
    <2> HIDE DEF S
    <2>1. QED
      BY <1>1, AscendingLists
  <1>3. final = ParseToolCalls(listed)
    BY DEF FinalizeStreamToolCalls
  <1> HIDE DEF indices
  <1>4. DOMAIN indices = 1 .. Cardinality(S) /\ \A n \in 1 .. Cardinality(S) : indices[n] \in S
    BY <1>2
  <1>5. ParseToolCalls(listed) = [n \in 1 .. Cardinality(S) |-> parsed(indices[n])]
    <2>1. DOMAIN listed = 1 .. Cardinality(S)
      BY <1>4
    <2>2. \A n \in 1 .. Cardinality(S) : listed[n] = t[indices[n]]
      BY <1>4
    <2> HIDE DEF listed, S
    <2>3. QED
      BY <2>1, <2>2 DEF ParseToolCalls
  <1> HIDE DEF final, listed, parsed
  <1>6. ToSet(final) = {parsed(indices[n]) : n \in 1 .. Cardinality(S)}
    BY <1>3, <1>5 DEF ToSet
  <1>7. {parsed(indices[n]) : n \in 1 .. Cardinality(S)} = {parsed(i) : i \in S}
    BY <1>2, <1>4
  <1>8. QED
    BY <1>6, <1>7 DEF parsed, final

(* Arguments that end early are no JSON, or missing altogether.            *)
LEMMA PartOfTheArguments ==
  ASSUME NEW a \in Seq(STRING), NEW b \in Seq(STRING), IsPrefix(a, b), Accepts(a),
         \A n \in 1 .. Len(ParseToolArguments(b)) - 1 :
           ~Accepts(SubSeq(ParseToolArguments(b), 1, n))
  PROVE  ParseToolArguments(a) \in {ParseToolArguments(b), <<"{", "}">>}
  <1>1. CASE a = <<>>
    BY <1>1 DEF ParseToolArguments
  <1>2. CASE a # <<>>
    <2>1. Len(a) \in Nat /\ Len(b) \in Nat /\ Len(a) > 0
      BY <1>2
    <2>2. Len(a) <= Len(b) /\ a = SubSeq(b, 1, Len(a))
      BY <2>1, PrefixOrder DEF IsPrefix
    <2>3. b # <<>>
      BY <2>1, <2>2
    <2>4. ParseToolArguments(a) = a /\ ParseToolArguments(b) = b
      BY <1>2, <2>3 DEF ParseToolArguments
    <2>5. Len(a) \notin 1 .. Len(b) - 1
      <3>1. \A n \in 1 .. Len(b) - 1 : ~Accepts(SubSeq(b, 1, n))
        BY <2>4
      <3>2. QED
        BY <2>2, <3>1
    <2>6. Len(a) = Len(b)
      BY <2>1, <2>2, <2>5
    <2>7. a = b
      <3>1. SubSeq(b, 1, Len(b)) = b
        OBVIOUS
      <3>2. QED
        BY <2>2, <2>6, <3>1
    <2>8. QED
      BY <2>7
  <1>3. QED
    BY <1>1, <1>2

(* The calls of an answer are calls of the message.                        *)
LEMMA CallsOfTheMessage ==
  ASSUME NEW s \in Streams, NEW t \in Tools, Complete(t),
         Grows(t, Said(s)[Len(s.events)].tools),
         NEW c \in ToSet(FinalizeStreamToolCalls(t))
  PROVE  \E w \in ToSet(ParseToolCalls(s.message.calls)) :
           c.name = w.name /\ c.args \in {w.args, <<"{", "}">>}
  <1> DEFINE u == Said(s)[Len(s.events)].tools
             calls == ParseToolCalls(s.message.calls)
  <1>1. u \in Tools
    BY SaidIs, EventsAreEvents DEF Says
  <1>2. /\ FinalizeStreamToolCalls(u) = calls
        /\ \A w \in ToSet(calls) :
             \A n \in 1 .. Len(w.args) - 1 : ~Accepts(SubSeq(w.args, 1, n))
    BY StreamAssumption DEF Spells
  <1>3. Grows(t, u)
    OBVIOUS
  <1> HIDE DEF u, calls
  <1>4. PICK i \in DOMAIN t :
          c = [name |-> t[i].name, args |-> ParseToolArguments(t[i].args)]
    BY FinalCalls
  <1>5. t[i].name # "" /\ Accepts(t[i].args)
    BY <1>4 DEF Complete
  <1>6. i \in DOMAIN u /\ t[i].name = u[i].name /\ IsPrefix(t[i].args, u[i].args)
    BY <1>3, <1>4, <1>5 DEF Grows
  <1>7. t[i].args \in Seq(STRING) /\ u[i].args \in Seq(STRING)
    BY <1>1, <1>4, <1>6 DEF Tools, Called
  <1> DEFINE w == [name |-> u[i].name, args |-> ParseToolArguments(u[i].args)]
  <1>8. w \in ToSet(calls)
    BY <1>1, <1>2, <1>6, FinalCalls
  <1>9. w.name = u[i].name /\ w.args = ParseToolArguments(u[i].args)
    OBVIOUS
  <1> HIDE DEF w
  <1>10. \A n \in 1 .. Len(ParseToolArguments(u[i].args)) - 1 :
           ~Accepts(SubSeq(ParseToolArguments(u[i].args), 1, n))
    BY <1>2, <1>8, <1>9
  <1>11. ParseToolArguments(t[i].args) \in {ParseToolArguments(u[i].args), <<"{", "}">>}
    BY <1>5, <1>6, <1>7, <1>10, PartOfTheArguments
  <1>12. c.name = w.name /\ c.args \in {w.args, <<"{", "}">>}
    BY <1>4, <1>6, <1>9, <1>11
  <1>13. QED
    BY <1>8, <1>12 DEF calls

(* However the body was cut into reads, the answer is the message: all of  *)
(* it when all of it arrived, and else a part of its text and calls of its *)
(* own; what arrived is refused only if the body ended on the CR behind    *)
(* [DONE] (openai-compat.ts:181-228, 346-355, 374-448).                    *)
THEOREM StreamAnswerIsTheMessage == ChatSpec => []AnswerIsTheMessage
  <1>1. StreamInv => AnswerIsTheMessage
    <2> SUFFICES ASSUME StreamInv PROVE AnswerIsTheMessage
      OBVIOUS
    <2> DEFINE whole == Buffered(served.message)
               said == Said(served)[Len(served.events)]
    <2>1. served \in Streams /\ (stage = "rejected" => ~Whole \/ EndedBehindDone)
      BY DEF StreamInv
    <2>2. PICK k \in 0 .. Len(served.events) : Progress(k)
      BY DEF StreamInv
    <2>3. /\ served.message.content = said.context.content
          /\ served.message.finish = said.context.finish
          /\ served.message.used = said.context.used
          /\ FinalizeStreamToolCalls(said.tools) = ParseToolCalls(served.message.calls)
      BY <2>1, StreamAssumption DEF Spells
    <2>4. /\ whole.content = served.message.content /\ whole.tokens = served.message.used
          /\ whole.finish = served.message.finish
          /\ whole.calls = ParseToolCalls(served.message.calls)
          /\ whole = [content |-> whole.content, tokens |-> whole.tokens,
                      finish |-> whole.finish, calls |-> whole.calls]
      BY DEF Buffered
    <2>5. ASSUME stage = "returned"
          PROVE  /\ IsPrefix(answer.content, whole.content)
                 /\ \A c \in ToSet(answer.calls) :
                      \E w \in ToSet(whole.calls) :
                        c.name = w.name /\ c.args \in {w.args, <<"{", "}">>}
                 /\ Whole => /\ [answer EXCEPT !.tokens = 0] = [whole EXCEPT !.tokens = 0]
                             /\ whole.tokens > 0 => answer.tokens = whole.tokens
      <3>1. /\ Complete(tools)
            /\ answer = [content |-> context.content,
                         tokens  |-> IF context.used > 0 THEN context.used
                                     ELSE MessagesEstimate + context.estimate,
                         finish  |-> context.finish,
                         calls   |-> FinalizeStreamToolCalls(tools)]
        BY <2>5 DEF StreamInv
      <3>2. /\ answer.content = context.content /\ answer.finish = context.finish
            /\ answer.calls = FinalizeStreamToolCalls(tools)
            /\ answer.tokens = IF context.used > 0 THEN context.used
                               ELSE MessagesEstimate + context.estimate
            /\ answer = [content |-> answer.content, tokens |-> answer.tokens,
                         finish |-> answer.finish, calls |-> answer.calls]
        BY <3>1
      <3>3. /\ context = Said(served)[k].context /\ tools = Said(served)[k].tools
            /\ Whole => k = Len(served.events)
        BY <2>2, <2>5 DEF Progress
      <3>4. IsPrefix(answer.content, whole.content)
        BY <2>1, <2>2, <2>3, <2>4, <3>2, <3>3, SaidGrows
      <3>5. tools \in Tools
        BY ContextNow
      <3>6. Grows(tools, said.tools)
        BY <2>1, <2>2, <3>3, SaidGrows
      <3> HIDE DEF whole
      <3>7. ASSUME NEW c \in ToSet(answer.calls)
            PROVE  \E w \in ToSet(whole.calls) :
                     c.name = w.name /\ c.args \in {w.args, <<"{", "}">>}
        <4>1. c \in ToSet(FinalizeStreamToolCalls(tools))
          BY <3>2
        <4>2. \E w \in ToSet(ParseToolCalls(served.message.calls)) :
                c.name = w.name /\ c.args \in {w.args, <<"{", "}">>}
          BY <2>1, <3>1, <3>5, <3>6, <4>1, CallsOfTheMessage
        <4>3. QED
          BY <2>4, <4>2
      <3>8. ASSUME Whole
            PROVE  /\ [answer EXCEPT !.tokens = 0] = [whole EXCEPT !.tokens = 0]
                   /\ whole.tokens > 0 => answer.tokens = whole.tokens
        <4>1. context = said.context /\ tools = said.tools
          BY <3>3, <3>8
        <4>2. /\ answer.content = whole.content /\ answer.finish = whole.finish
              /\ answer.calls = whole.calls
          BY <2>3, <2>4, <3>2, <4>1
        <4>3. whole.tokens > 0 => answer.tokens = whole.tokens
          BY <2>3, <2>4, <3>2, <4>1
        <4>4. [answer EXCEPT !.tokens = 0] =
                [content |-> answer.content, tokens |-> 0,
                 finish |-> answer.finish, calls |-> answer.calls]
          BY <3>2
        <4>5. [whole EXCEPT !.tokens = 0] =
                [content |-> whole.content, tokens |-> 0,
                 finish |-> whole.finish, calls |-> whole.calls]
          BY <2>4
        <4>6. QED
          BY <4>2, <4>3, <4>4, <4>5
      <3>9. QED
        BY <3>4, <3>7, <3>8
    <2>6. QED
      BY <2>1, <2>5 DEF AnswerIsTheMessage
  <1>2. QED
    BY <1>1, StreamInvHolds, PTL
=============================================================================
