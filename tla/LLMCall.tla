------------------------------ MODULE LLMCall ------------------------------
(***************************************************************************)
(* One call of a pipeline to its language model, seen from the pipeline:   *)
(* the set of states in which callLLMWithCircuitBreaker                    *)
(* (core/llm-circuit-breaker.ts) may leave the run.  Module CircuitBreaker *)
(* models the streaming itself and shows that it ends in one of these.     *)
(***************************************************************************)
EXTENDS PipelineCore

CONSTANTS PromptEstimate,   \* estimateMessageTokens of the messages sent
          Reserve,          \* tokens the breaker keeps back (4 in the code)
          MaxUsage          \* the most tokens a call is reported to have used

ASSUME LLMCallAssumption == /\ PromptEstimate \in Nat \ {0}
                            /\ Reserve \in Nat
                            /\ MaxUsage \in Nat

Usage == 0 .. MaxUsage

CompletionBudget(r) ==
  LET left == r.remaining["tokens"] - PromptEstimate - Reserve
  IN  IF left > 0 THEN left ELSE 0

HardBudget(r) == r.enforcement = "hard"

PreflightStops(r) == HardBudget(r) /\ CompletionBudget(r) = 0

(* The stream reached the allowance, or a safety rule: the run is stopped  *)
(* first and the estimated tokens are charged to the stopped run.          *)
Trip(r, status, estimate) ==
  RecordTokens(ForceStop(r, status), PromptEstimate + estimate)

TripResults(r) ==
  UNION {{Trip(r, "budget_exhausted", e) :
              e \in {u \in Usage : HardBudget(r) /\ u >= CompletionBudget(r)}},
         {Trip(r, "fail_safe", e) :
              e \in {u \in Usage : ~HardBudget(r) \/ u < CompletionBudget(r)}}}

(* An answer, an abort nobody asked for, or an error of the backend.       *)
AnswerResults(r)  == {RecordTokens(r, u) : u \in Usage}
FailureResults(r) == {ForceStop(r, "external_stop"), ForceStop(r, "fail_safe")}

LLMResults(r) ==
  IF Halted(r) THEN {r}
  ELSE IF PreflightStops(r) THEN {ForceStop(r, "budget_exhausted")}
  ELSE AnswerResults(r) \cup TripResults(r) \cup FailureResults(r)
=============================================================================
