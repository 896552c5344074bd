---------------------------- MODULE CircuitBreaker ----------------------------
(***************************************************************************)
(* callLLMWithCircuitBreaker (core/llm-circuit-breaker.ts) while a backend *)
(* streams its answer: the breaker watches every chunk and asks for the    *)
(* stream to be aborted; the backend notices when it next looks.           *)
(*                                                                         *)
(* A backend looks at the abort signal between two reads.  One read of the *)
(* network may bring several server-sent events (backends/openai-compat.ts)*)
(* and each of them reaches the breaker before the next look; the mock     *)
(* backend looks before every chunk, a read of one event.                  *)
(***************************************************************************)
EXTENDS LLMCall

CONSTANTS Policies,          \* the budget policies a caller may configure
          Deltas,            \* lengths of the text a chunk may carry, in characters
          MaxDecodedChars,   \* safety.maxDecodedChars
          MaxBurst           \* the most events one read may bring

ASSUME BreakerAssumption == /\ Policies \subseteq BudgetPolicy
                            /\ Deltas \subseteq Nat
                            /\ MaxDecodedChars \in Nat
                            /\ MaxBurst \in Nat \ {0}

LongestDelta == CHOOSE d \in Deltas : \A e \in Deltas : e <= d

(* Chunks have a longest, and LLMCall leaves room for whatever is decoded. *)
ASSUME ChunkAssumption ==
  /\ \E d \in Deltas : \A e \in Deltas : e <= d
  /\ MaxDecodedChars + MaxBurst * LongestDelta <= MaxUsage

VARIABLES pc,         \* where the call is
          run,        \* the state of the pipeline that made the call
          before,     \* that state when the call was made
          text,       \* streamedText.length
          estimate,   \* streamedCompletionEstimate
          stop,       \* localStopStatus, or "none"
          burst,      \* events read and not yet handled
          last        \* the stream ends with those events

vars == <<pc, run, before, text, estimate, stop, burst, last>>
stream == <<text, estimate, stop, burst, last>>

TextTokens(chars) == (chars + 3) \div 4

Init ==
  /\ pc = "called"
  /\ \E policy \in Policies :
       LET r == Transition(CreatePipelineState(policy), "frame")
       IN  run \in {r, ForceStop(r, "external_stop")}
  /\ before = run
  /\ text = 0 /\ estimate = 0 /\ stop = "none"
  /\ burst = 0 /\ last = FALSE

Return(r) ==
  /\ run' = r
  /\ pc' = "returned"
  /\ UNCHANGED <<before, stream>>

(* A sealed run, or no allowance left for an answer: no decoding at all.   *)
Preflight ==
  /\ pc = "called"
  /\ \/ Halted(run) /\ Return(run)
     \/ ~Halted(run) /\ PreflightStops(run) /\ Return(ForceStop(run, "budget_exhausted"))

(* Mutant: a hard budget without an allowance does not stop the call.      *)
StartDecodingAnyway ==
  /\ pc = "called" /\ ~Halted(run)
  /\ pc' = "reading"
  /\ UNCHANGED <<run, before, stream>>

StartDecoding ==
  /\ pc = "called" /\ ~Halted(run) /\ ~PreflightStops(run)
  /\ pc' = "reading"
  /\ UNCHANGED <<run, before, stream>>

Aborted == stop # "none"

(* A read need not complete an event, and need not end the stream.         *)
Read ==
  /\ pc = "reading" /\ ~Aborted
  /\ burst' \in 0 .. MaxBurst /\ last' \in BOOLEAN
  /\ pc' = "handling"
  /\ UNCHANGED <<run, before, text, estimate, stop>>

OverBudget(tokens) == HardBudget(run) /\ tokens >= CompletionBudget(run)

(* Mutant: the length of the chunk is compared with the limit.             *)
OverLengthPerChunk(chars) == chars - text > MaxDecodedChars

OverLength(chars) == chars > MaxDecodedChars

(* Mutant: the safety rules are looked at before the allowance.            *)
OnChunkSafetyFirst(delta, blocked) ==
  /\ text' = text + delta
  /\ estimate' = estimate + TextTokens(delta)
  /\ stop' = IF OverLength(text') \/ blocked THEN "fail_safe"
             ELSE IF OverBudget(estimate') THEN "budget_exhausted" ELSE stop

(* onChunk: "blocked" says that the text so far matches a denied pattern.  *)
OnChunk(delta, blocked) ==
  /\ text' = text + delta
  /\ estimate' = estimate + TextTokens(delta)
  /\ stop' = IF OverBudget(estimate') THEN "budget_exhausted"
             ELSE IF OverLength(text') \/ blocked THEN "fail_safe" ELSE stop

HandleEvent ==
  /\ pc = "handling" /\ burst > 0
  /\ \E delta \in Deltas, blocked \in BOOLEAN :
       OnChunk(delta, blocked) /\ (blocked => text' > 0)
  /\ burst' = burst - 1
  /\ UNCHANGED <<pc, run, before, last>>

ReadOn ==
  /\ pc = "handling" /\ burst = 0 /\ ~last
  /\ pc' = "reading"
  /\ UNCHANGED <<run, before, stream>>

(* backend.chat resolves: the tokens it reports are charged, and nobody    *)
(* looks whether the breaker had tripped.                                  *)
Answer ==
  /\ pc = "handling" /\ burst = 0 /\ last
  /\ \E used \in Usage : Return(RecordTokens(run, used))

(* The catch clause.                                                       *)
Catch ==
  \/ Aborted /\ Return(Trip(run, stop, estimate))
  \/ ~Aborted /\ \E r \in FailureResults(run) : Return(r)

(* Mutant: the backend does not look at the abort signal.                  *)
AbortUnseen == pc = "reading" /\ Aborted /\ UNCHANGED vars

AbortedRead == pc = "reading" /\ Aborted /\ Catch

BackendFails == pc \in {"reading", "handling"} /\ Catch

Returned == pc = "returned" /\ UNCHANGED vars

Next ==
  \/ Preflight \/ StartDecoding \/ Read \/ HandleEvent \/ ReadOn \/ Answer
  \/ AbortedRead \/ BackendFails \/ Returned

Spec == Init /\ [][Next]_vars

(* The events that were read are handled, and a read that was aborted is   *)
(* left.  Of the server nothing is assumed: that it sends anything, that   *)
(* the stream has an end, or that it fails.                                *)
FairSpec ==
  /\ Spec
  /\ WF_vars(Preflight \/ StartDecoding) /\ WF_vars(HandleEvent)
  /\ WF_vars(ReadOn) /\ WF_vars(Answer) /\ WF_vars(AbortedRead)
-----------------------------------------------------------------------------
(* However the stream goes, the call leaves the run in one of the states   *)
(* that module LLMCall promises to the pipelines, and until it returns it  *)
(* has not touched the run: the pipelines see it as one step.              *)
LeavesAnLLMResult ==
  /\ pc = "returned" => run \in LLMResults(before)
  /\ pc # "returned" => run = before

(* Decoding overshoots by the rest of one read at most: what arrived after *)
(* the length or the allowance was passed never exceeds MaxBurst chunks.   *)
OvershootIsBounded ==
  /\ text <= MaxDecodedChars + MaxBurst * LongestDelta
  /\ HardBudget(run) /\ pc \in {"reading", "handling"} =>
       estimate < CompletionBudget(run) + MaxBurst * TextTokens(LongestDelta)

(* Every call returns, even from a stream that has no end, unless it comes *)
(* back for ever to wait for a server that gives it no more text, while no *)
(* limit has been reached: one that stalls, one whose events never end, or *)
(* one whose chunks carry other things, like the arguments of tool calls   *)
(* (backends/openai-compat.ts:181-214, 461-466).  The backend has no timer.*)
TextEndsTheCall ==
  \/ <>(pc = "returned")
  \/ []<>(pc = "reading" /\ ~Aborted) /\ <>[][text' = text]_vars

(* A stop the breaker has decided on is not lost, nor relabelled, on the   *)
(* way out: the call leaves a stopped run, unless the answer was already   *)
(* complete when the breaker tripped; the reason is the breaker's, or an   *)
(* exhausted budget; and the status the run ends with is the reason that   *)
(* sealed it, whatever is charged after the stop                           *)
(* (llm-circuit-breaker.ts:140-197).                                       *)
StopIsKept ==
  [][pc' = "returned" =>
       /\ Aborted => Halted(run') \/ (last /\ burst = 0)
       /\ Aborted /\ Halted(run') => run'.termination \in {stop, "budget_exhausted"}
       /\ Halted(run') => run'.completionStatus = run'.termination]_vars
=============================================================================
