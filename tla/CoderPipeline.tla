---------------------------- MODULE CoderPipeline ----------------------------
(***************************************************************************)
(* runCoderPipeline (pipelines/coder-pipeline.ts): plan, use tools,        *)
(* criticise, and plan again while the last critique reads as a failure,   *)
(* at most maxRepairs times.                                               *)
(***************************************************************************)
EXTENDS DelegatedCalls

CONSTANT MaxRepairs    \* maxRepairAttempts ?? 3

ASSUME CoderAssumption == MaxRepairs \in Nat

VARIABLES repairs,     \* repairCount
          verdict      \* what lastCritique reads as: "none", "passed" or "failed"

loopVars  == <<repairs, verdict>>

CoderInit == CallsInit /\ repairs = 0 /\ verdict = "none"

(* A plan without tool calls leaves the repair loop, and counts as passed. *)
CoderPlanWithoutTools ==
  /\ pc = "plan_llm"
  /\ \E r \in Charged : LeaveLoop(r)
  /\ FreshPlan(0)
  /\ verdict' = "passed"
  /\ UNCHANGED repairs

CoderPlanWithTools ==
  /\ pc = "plan_llm"
  /\ \E n \in Calls, r \in Charged : FreshPlan(n) /\ EndOr(r, "call_consult")
  /\ UNCHANGED loopVars

(* Whatever this critique says, the next one takes its place.              *)
CoderCritiqueThenNextCall ==
  /\ pc = "critique_llm"
  /\ \E r \in Charged : NextCall(r)
  /\ verdict' \in {"passed", "failed"}
  /\ UNCHANGED repairs

(* Mutant: a failed critique is acted on before the other calls are made.  *)
AnyCritique(v) == pc = "critique_llm" /\ verdict' = v

(* The one critique of a plan that decides about it.                       *)
LastCritique(v) == pc = "critique_llm" /\ i = calls /\ verdict' = v

CritiquePasses ==
  /\ LastCritique("passed")
  /\ \E r \in Charged : LeaveLoop(r)
  /\ UNCHANGED <<callVars, repairs>>

(* Out of attempts: the status is overwritten, even that of a stopped run. *)
GiveUp ==
  /\ LastCritique("failed") /\ repairs >= MaxRepairs
  /\ \E r \in Charged : LeaveLoop(SetStatus(r, "failed"))
  /\ UNCHANGED <<callVars, repairs>>

(* The calls of the failed plan go out of scope.                           *)
Repair ==
  /\ LastCritique("failed") /\ repairs < MaxRepairs
  /\ \E r \in Charged : Continue(Transition(r, "plan"), "plan_consult")
  /\ FreshPlan(0)
  /\ repairs' = repairs + 1

CoderFinalize ==
  /\ pc = "finalize_llm"
  /\ \E r \in Charged : End(Transition(r, "audit_seal"))
  /\ UNCHANGED <<callVars, loopVars>>

CoderStep == \/ CoderPlanWithoutTools \/ CoderPlanWithTools \/ CoderCritiqueThenNextCall
             \/ CritiquePasses \/ GiveUp \/ Repair \/ CoderFinalize
=============================================================================
