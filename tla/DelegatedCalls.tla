---------------------------- MODULE DelegatedCalls ----------------------------
(***************************************************************************)
(* What runChatPipeline and runCoderPipeline have in common: the frame     *)
(* phase, and the loop that takes the tool calls of a plan one by one      *)
(* through the policy engine, the tool registry and a critique.  Neither   *)
(* has a permission manager or an envelope: the authority of a call is the *)
(* decision itself, and the trace is all that is returned.                 *)
(*                                                                         *)
(* As in GovernedPipeline, an action is the code between two awaits.  The  *)
(* pipelines add what surrounds the loop.                                  *)
(***************************************************************************)
EXTENDS LLMCall

CONSTANTS MaxCalls,   \* the most tool calls a plan may ask for
          Policies    \* the budget policies a caller may configure

ASSUME DelegatedAssumption == MaxCalls \in Nat /\ Policies \subseteq BudgetPolicy

VARIABLES pc,         \* where the run is suspended, or how it ended
          run,        \* the PipelineState fields of PipelineCore
          calls,      \* toolCalls.length of the current plan
          i,          \* the call being processed, 0 before the first
          requests,   \* calls of the plan put to the policy engine
          decisions,  \* what it decided of each
          executed,   \* calls whose handler has been started
          observed    \* calls with an observation step in the trace

callVars == <<calls, i, requests, decisions, executed, observed>>
runVars == <<pc, run, calls, i, requests, decisions, executed, observed>>

Calls == 1 .. MaxCalls

ConsultPoints == {"frame_consult", "plan_consult", "call_consult", "observe_consult",
                  "critique_consult", "finalize_consult"}
LLMPoints == {"frame_llm", "plan_llm", "critique_llm", "finalize_llm"}
Points == ConsultPoints \cup LLMPoints \cup {"receive", "evaluate", "dispatch", "running"}
Ended == {"returned", "thrown"}

(* A status that is neither refusal lets the call go on, known or not.     *)
RefusingDecision == {"denied", "escalated"}
ProceedingDecision == {"approved", "narrowed", "unrecognised"}
Decision == RefusingDecision \cup ProceedingDecision \cup {"none"}

FreshPlan(n) ==
  /\ calls' = n
  /\ i' = IF n = 0 THEN 0 ELSE 1
  /\ requests' = {} /\ executed' = {} /\ observed' = {}
  /\ decisions' = [c \in Calls |-> "none"]

CallsInit ==
  /\ pc = "receive"
  /\ \E policy \in Policies : run = CreatePipelineState(policy)
  /\ calls = 0 /\ i = 0
  /\ requests = {} /\ executed = {} /\ observed = {}
  /\ decisions = [c \in Calls |-> "none"]
-----------------------------------------------------------------------------
Continue(r, point) ==
  /\ run' = r
  /\ pc' = IF Running(r) THEN point ELSE "thrown"

(* end(): the trace is finalized and returned, nothing else is done.       *)
End(r) == Continue(IF Running(r) THEN FinalizeTrace(r) ELSE r, "returned")

(* "if (halted(state)) return end(...)", or go on.                         *)
EndOr(r, point) == IF Halted(r) THEN End(r) ELSE Continue(r, point)

Receive ==
  /\ pc = "receive"
  /\ Continue(Transition(RecordStep(run), "frame"), "frame_consult")
  /\ UNCHANGED callVars

ConsultAllowed ==
  /\ \E phase \in {<<"frame_consult", "frame_llm">>, <<"plan_consult", "plan_llm">>,
                    <<"critique_consult", "critique_llm">>,
                    <<"finalize_consult", "finalize_llm">>} :
       pc = phase[1] /\ pc' = phase[2]
  /\ UNCHANGED <<run, callVars>>

ConsultDenied ==
  /\ pc \in ConsultPoints
  /\ End(ForceStop(run, "denied"))
  /\ UNCHANGED callVars

(* Nobody catches what the engine throws, from the consultation or from    *)
(* the preview of the tools that follows it.                               *)
PolicyEngineThrows ==
  /\ pc \in ConsultPoints \cup {"evaluate"}
  /\ Continue(run, "thrown")
  /\ UNCHANGED callVars

LLMHalts ==
  /\ pc \in LLMPoints
  /\ \E r \in LLMResults(run) : Halted(r) /\ End(r)
  /\ UNCHANGED callVars

(* The runs an answer of the model may leave, charged for the step.        *)
Answered == {r \in LLMResults(run) : ~Halted(r)}
Charged  == {RecordStep(r) : r \in Answered}

Frame ==
  /\ pc = "frame_llm"
  /\ \E r \in Charged : Continue(Transition(r, "plan"), "plan_consult")
  /\ UNCHANGED callVars
-----------------------------------------------------------------------------
(* The plan is allowed to use the tool of call i: its authority is asked.  *)
RequestAuthority ==
  /\ pc = "call_consult"
  /\ LET requested == Transition(run, "request_authority")
     IN  /\ requests' = IF Running(requested) THEN requests \cup {i} ELSE requests
         /\ Continue(Transition(RecordStep(requested), "validate_authority"), "evaluate")
  /\ UNCHANGED <<calls, i, decisions, executed, observed>>

(* Mutant: a refused call does not end the run.                            *)
RefuseAndGoOn ==
  /\ pc = "evaluate"
  /\ \E d \in RefusingDecision :
       /\ decisions' = [decisions EXCEPT ![i] = d]
       /\ Continue(Transition(Transition(RecordStep(run), "delegate_narrow"),
                              "execute_tool"), "dispatch")
  /\ UNCHANGED <<calls, i, requests, executed, observed>>

Refuse ==
  /\ pc = "evaluate"
  /\ \E d \in RefusingDecision :
       LET denied == d = "denied"
           r == SetStatus(RecordStep(run), IF denied THEN "denied" ELSE "escalation_timeout")
       IN  /\ decisions' = [decisions EXCEPT ![i] = d]
           /\ End(Transition(Transition(r, IF denied THEN "deny" ELSE "escalate"),
                             "audit_seal"))
  /\ UNCHANGED <<calls, i, requests, executed, observed>>

Delegate ==
  /\ pc = "evaluate"
  /\ \E d \in ProceedingDecision :
       LET delegated == RecordStep(Transition(RecordStep(run), "delegate_narrow"))
       IN  /\ decisions' = [decisions EXCEPT ![i] = d]
           /\ Continue(RecordToolCall(Transition(delegated, "execute_tool")), "dispatch")
  /\ UNCHANGED <<calls, i, requests, executed, observed>>

(* The registry answers without having started the handler; only a         *)
(* narrowed scope can exclude the call, other errors are not told apart.   *)
RejectCall ==
  /\ pc = "dispatch"
  /\ Continue(Transition(run, "observe_result"), "observe_consult")
  /\ UNCHANGED callVars

StartHandler ==
  /\ pc = "dispatch"
  /\ executed' = executed \cup {i}
  /\ pc' = "running"
  /\ UNCHANGED <<run, calls, i, requests, decisions, observed>>

RegistryThrows ==
  /\ pc = "dispatch"
  /\ End(ForceStop(run, "fail_safe"))
  /\ UNCHANGED callVars

(* Mutant: the handler's promise is awaited without a timeout.             *)
HandlerHangs == pc = "running" /\ UNCHANGED runVars

HandlerEnds ==
  /\ pc = "running"
  /\ Continue(Transition(run, "observe_result"), "observe_consult")
  /\ UNCHANGED callVars

(* Mutant: no observation step is emitted.                                 *)
ObserveUntraced ==
  /\ pc = "observe_consult"
  /\ Continue(Transition(RecordStep(run), "critique_verify"), "critique_consult")
  /\ UNCHANGED callVars

Observe ==
  /\ pc = "observe_consult"
  /\ observed' = observed \cup {i}
  /\ Continue(Transition(RecordStep(run), "critique_verify"), "critique_consult")
  /\ UNCHANGED <<calls, i, requests, decisions, executed>>

(* The head of the loop for a later call, unless the charge for the last   *)
(* critique has stopped the run.  The policy engine is then consulted      *)
(* without a look at what the charge for planning has done.                *)
NextCall(r) ==
  /\ i < calls
  /\ IF Halted(r)
     THEN End(r) /\ UNCHANGED i
     ELSE Continue(RecordStep(Transition(r, "plan")), "call_consult") /\ i' = i + 1
  /\ UNCHANGED <<calls, requests, decisions, executed, observed>>

(* "if (halted(state)) return end(...)" after the loop.                    *)
LeaveLoop(r) ==
  IF Halted(r) THEN End(r) ELSE Continue(Transition(r, "finalize"), "finalize_consult")

FrameStep == Receive \/ Frame

ConsultStep == ConsultAllowed \/ ConsultDenied \/ PolicyEngineThrows \/ LLMHalts

CallStep == \/ RequestAuthority \/ Refuse \/ Delegate \/ RejectCall \/ StartHandler
            \/ RegistryThrows \/ HandlerEnds \/ Observe

SharedStep == FrameStep \/ ConsultStep \/ CallStep
-----------------------------------------------------------------------------
RunTypeOK ==
  /\ pc \in Points \cup Ended
  /\ run \in RunRecord
  /\ calls \in 0 .. MaxCalls /\ i \in 0 .. MaxCalls
  /\ requests \subseteq Calls /\ executed \subseteq Calls /\ observed \subseteq Calls
  /\ decisions \in [Calls -> Decision]

Refused(c) == decisions[c] \in RefusingDecision
Proceeds(c) == decisions[c] \in ProceedingDecision

(* The statements of a pipeline follow the FSM: a transition may come too  *)
(* late, when a budget has sealed the run, but no path through the loops   *)
(* ever asks for a step the adjacency map does not have                    *)
(* (transitions.ts:43, schemas/cognitive-pipeline.ts).                     *)
PathsFollowTheFSM == run.error # "InvalidTransitionError"

(* A pipeline that returns has been sealed, by a transition or by a stop,  *)
(* and its trace reports the status of the run, which is not "running".    *)
ReturnsSealed ==
  pc = "returned" =>
    /\ Halted(run) /\ run.termination = run.completionStatus
    /\ run.completionStatus # "running"

(* A refusal ends the plan and the run: no handler is started for the      *)
(* refused call or a later one, and a run that returns reports it.         *)
RefusalEndsTheRun ==
  \A c \in Calls : Refused(c) =>
    /\ pc \in Ended /\ i = c
    /\ \A d \in c .. calls : d \notin executed
    /\ pc = "returned" =>
         run.termination = IF decisions[c] = "denied" THEN "denied" ELSE "escalation_timeout"

(* Under hard enforcement neither loop spends a step or a tool call beyond *)
(* the maximum, however often it plans.                                    *)
LoopBudgetNeverOverspent ==
  \A f \in {"steps", "toolCalls"} :
    (HardBudget(run) /\ run.max[f] > 0) => run.remaining[f] >= 0
=============================================================================
