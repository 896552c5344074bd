---------------------------- MODULE PipelineCore ----------------------------
(***************************************************************************)
(* The state every cognitive pipeline of the harness carries, and the      *)
(* synchronous operations on it: the governed FSM (core/transitions.ts)    *)
(* and the budget tracker (core/budget-tracker.ts).                        *)
(*                                                                         *)
(* The TypeScript functions mutate a PipelineState in place and may throw. *)
(* Here each of them maps the record before the call to the record after   *)
(* it.  A thrown error is kept in the field "error", and every operation   *)
(* leaves a record with an error as it is: the statements that follow a    *)
(* throw do not run, so a nested application reads as the statement list.  *)
(***************************************************************************)
EXTENDS Integers, FiniteSets

Phase == {"receive", "frame", "plan", "request_authority",
          "validate_authority", "delegate_narrow", "execute_tool",
          "observe_result", "critique_verify", "finalize", "audit_seal",
          "deny", "escalate", "fail_safe"}

ValidTransitions ==
  [p \in Phase |->
     CASE p = "receive"            -> {"frame"}
       [] p = "frame"              -> {"plan"}
       [] p = "plan"               -> {"request_authority", "execute_tool", "finalize"}
       [] p = "request_authority"  -> {"validate_authority"}
       [] p = "validate_authority" -> {"delegate_narrow", "deny", "escalate"}
       [] p = "delegate_narrow"    -> {"execute_tool"}
       [] p = "execute_tool"       -> {"observe_result", "fail_safe"}
       [] p = "observe_result"     -> {"critique_verify", "fail_safe"}
       [] p = "critique_verify"    -> {"plan", "request_authority", "finalize"}
       [] p = "escalate"           -> {"delegate_narrow", "deny", "audit_seal"}
       [] p \in {"finalize", "deny", "fail_safe"} -> {"audit_seal"}
       [] p = "audit_seal"         -> {}]

CompletionStatus == {"running", "succeeded", "failed", "denied", "budget_exhausted",
                     "external_stop", "escalation_timeout", "fail_safe"}

Enforcement == {"hard", "soft", "warn"}

BudgetField == {"tokens", "cost", "steps", "toolCalls", "retries"}

Error == {"none", "TerminalStateError", "InvalidTransitionError"}

RunRecord == [phase            : Phase,
              completionStatus : CompletionStatus,
              termination      : CompletionStatus \cup {"none"},
              max              : [BudgetField -> Nat],
              remaining        : [BudgetField -> Int],
              enforcement      : Enforcement,
              error            : Error]

(* A budget policy as the caller configures it; the two fields that no     *)
(* pipeline charges are part of it all the same.                           *)
BudgetPolicy == [max : [BudgetField -> Nat], enforcement : Enforcement]

CreatePipelineState(policy) ==
  [phase            |-> "receive",
   completionStatus |-> "running",
   termination      |-> "none",
   max              |-> policy.max,
   remaining        |-> policy.max,
   enforcement      |-> policy.enforcement,
   error            |-> "none"]

-----------------------------------------------------------------------------
Running(r) == r.error = "none"

Halted(r) == r.phase = "audit_seal"

Sealed(r) == [r EXCEPT !.phase            = "audit_seal",
                       !.completionStatus = IF @ = "running" THEN "succeeded" ELSE @,
                       !.termination      = IF r.completionStatus = "running"
                                            THEN "succeeded" ELSE r.completionStatus]

(* Mutant: the terminal phase is not checked first.                        *)
TransitionFromTerminal(r, to) ==
  CASE ~Running(r)                       -> r
    [] Running(r) /\ ~Halted(r) /\ to \notin ValidTransitions[r.phase]
                                         -> [r EXCEPT !.error = "InvalidTransitionError"]
    [] OTHER                             -> IF to = "audit_seal" THEN Sealed(r)
                                            ELSE [r EXCEPT !.phase = to]

Transition(r, to) ==
  CASE ~Running(r)                       -> r
    [] Running(r) /\ Halted(r)           -> [r EXCEPT !.error = "TerminalStateError"]
    [] Running(r) /\ ~Halted(r) /\ to \notin ValidTransitions[r.phase]
                                         -> [r EXCEPT !.error = "InvalidTransitionError"]
    [] Running(r) /\ ~Halted(r) /\ to \in ValidTransitions[r.phase]
                                         -> IF to = "audit_seal" THEN Sealed(r)
                                            ELSE [r EXCEPT !.phase = to]

(* The status is overwritten even when the run has already been stopped;   *)
(* the phase and the termination are written by the first stop only.       *)
ForceStop(r, status) ==
  IF ~Running(r) THEN r
  ELSE [r EXCEPT !.completionStatus = status,
                 !.phase            = "audit_seal",
                 !.termination      = IF Halted(r) THEN @ ELSE status]

(* Mutant: the refusal is not written to the run before it is sealed.      *)
SetStatusForgotten(r, status) == r

SetStatus(r, status) == IF Running(r) THEN [r EXCEPT !.completionStatus = status] ELSE r

(* The trace reports the status the run ended with, whatever the stop that *)
(* sealed it had written there.                                            *)
FinalizeTrace(r) == [r EXCEPT !.termination = r.completionStatus]

(* Mutant: a budget is exhausted only once it is overspent.                *)
IsOverspent(r) == \E f \in BudgetField : r.remaining[f] < 0 /\ r.max[f] > 0

IsExhausted(r) == \E f \in BudgetField : r.remaining[f] <= 0 /\ r.max[f] > 0

CheckExhaustion(r) ==
  IF IsExhausted(r) /\ r.enforcement = "hard" THEN ForceStop(r, "budget_exhausted") ELSE r

Record(r, field, count) ==
  IF ~Running(r) THEN r
  ELSE CheckExhaustion([r EXCEPT !.remaining[field] = @ - count])

RecordStep(r)      == Record(r, "steps", 1)
RecordToolCall(r)  == Record(r, "toolCalls", 1)
RecordTokens(r, n) == Record(r, "tokens", n)
=============================================================================
