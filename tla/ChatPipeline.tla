----------------------------- MODULE ChatPipeline -----------------------------
(***************************************************************************)
(* runChatPipeline (pipelines/chat-pipeline.ts): one plan, its tool calls  *)
(* if it has any, and an answer.                                           *)
(***************************************************************************)
EXTENDS DelegatedCalls

ChatInit == CallsInit

(* Without tool calls the plan is finalized at once.                       *)
ChatPlanWithoutTools ==
  /\ pc = "plan_llm"
  /\ \E r \in Charged : Continue(Transition(r, "finalize"), "finalize_consult")
  /\ FreshPlan(0)

ChatPlanWithTools ==
  /\ pc = "plan_llm"
  /\ \E n \in Calls, r \in Charged : FreshPlan(n) /\ EndOr(r, "call_consult")

ChatCritiqueThenNextCall ==
  /\ pc = "critique_llm"
  /\ \E r \in Charged : NextCall(r)

ChatCritiqueThenFinalize ==
  /\ pc = "critique_llm" /\ i = calls
  /\ \E r \in Charged : LeaveLoop(r)
  /\ UNCHANGED callVars

ChatFinalize ==
  /\ pc = "finalize_llm"
  /\ \E r \in Answered : End(Transition(r, "audit_seal"))
  /\ UNCHANGED callVars

ChatStep == \/ ChatPlanWithoutTools \/ ChatPlanWithTools
            \/ ChatCritiqueThenNextCall \/ ChatCritiqueThenFinalize \/ ChatFinalize
=============================================================================
