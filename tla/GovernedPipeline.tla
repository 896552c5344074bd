--------------------------- MODULE GovernedPipeline ---------------------------
(***************************************************************************)
(* runGovernedPipeline (pipelines/governed-pipeline.ts): one run, from     *)
(* "receive" to the sealed audit envelope, with the permission manager,    *)
(* the authority broker and the tool registry it drives.                   *)
(*                                                                         *)
(* The run is one asynchronous function.  Each action is the code between  *)
(* two of its awaits; pc names the await it is suspended at.  What comes   *)
(* back from an await is chosen nondeterministically: the verdict of the   *)
(* policy engine, what the model call left of the run (module LLMCall),    *)
(* the fate of the tool.  Time passes while the run is suspended.          *)
(***************************************************************************)
EXTENDS LLMCall, Permissions

CONSTANTS MaxCalls,   \* the most tool calls the plan may ask for
          Policies,   \* the budget policies a caller may configure
          TTL,        \* life of a permission (900 seconds in the code)
          MaxTime     \* bound on the clock

ASSUME GovernedAssumption == /\ MaxCalls \in Nat
                             /\ Policies \subseteq BudgetPolicy
                             /\ TTL \in Nat \ {0}
                             /\ MaxTime \in Nat

VARIABLES pc,           \* where the run is suspended, or how it ended
          run,          \* the PipelineState fields of PipelineCore
          calls,        \* toolCalls.length of the plan
          i,            \* the tool call being processed, 0 before the first
          requests,     \* tool calls with a DelegationRequest
          decisions,    \* the status of the DelegationDecision of each call
          perms,        \* the permission manager's grants, one per call
          active,       \* state.activePermissions: copies of those grants
          acted,        \* tool calls with an action step in the trace
          executed,     \* tool calls whose handler has been started
          toolResult,   \* what the registry answered for call i
          observed,     \* tool calls with an observation step in the trace
          receipts,     \* status of the ToolExecutionReceipt of each call
          envelope,     \* the sealed audit envelope
          now           \* wall clock

toolVars == <<acted, executed, toolResult, observed, receipts>>
vars == <<pc, run, calls, i, requests, decisions, perms, active, acted,
          executed, toolResult, observed, receipts, envelope, now>>

Calls == 1 .. MaxCalls

ConsultPoints == {"frame_consult", "plan_consult", "observe_consult",
                  "critique_consult", "finalize_consult"}
Points == ConsultPoints \cup
          {"receive", "frame_llm", "plan_llm", "evaluate", "dispatch", "running",
           "result", "critique_llm", "finalize_llm"}
Ended == {"returned", "thrown"}

DecisionStatus == {"approved", "narrowed", "denied", "escalated", "unrecognised"}
GrantingDecision == {"approved", "narrowed"}
RefusingDecision == {"denied", "escalated"}
ReceiptStatus == {"none", "success", "error"}

NoEnvelope == [sealed |-> FALSE]

Init ==
  /\ pc = "receive"
  /\ \E policy \in Policies : run = CreatePipelineState(policy)
  /\ calls = 0 /\ i = 0
  /\ requests = {} /\ acted = {} /\ executed = {} /\ observed = {}
  /\ decisions = [c \in Calls |-> "none"]
  /\ perms = [c \in Calls |-> NoGrant] /\ active = [c \in Calls |-> NoGrant]
  /\ receipts = [c \in Calls |-> "none"] /\ toolResult = "none"
  /\ envelope = NoEnvelope
  /\ now = 0
-----------------------------------------------------------------------------
(* The run is suspended at a new await, unless a statement has thrown.     *)
Continue(r, point) ==
  /\ run' = r
  /\ pc' = IF Running(r) THEN point ELSE "thrown"
  /\ UNCHANGED envelope

(* Mutant: the copies in the state are not refreshed.                      *)
SyncNothing(copies, table) == copies

SyncPermissionState(copies, table) ==
  [c \in Calls |-> IF copies[c].status = "none" THEN copies[c] ELSE table[c]]

(* AuditEngine.seal reads the state; the summary counts are derived from   *)
(* these fields.  completionStatus is never "running" here.                *)
Seal(r, copies, decided) ==
  [sealed      |-> TRUE,
   completion  |-> r.completionStatus,
   requests    |-> requests,
   decisions   |-> decided,
   permissions |-> copies,
   receipts    |-> receipts]

(* finish(): revoke what is left, refresh the copies, finalize the trace,  *)
(* seal, return.                                                           *)
Finish(r, table, copies, decided) ==
  LET table1  == RevokeAll(table, now)
      copies1 == SyncPermissionState(copies, table1)
  IN  /\ run' = FinalizeTrace(r)
      /\ pc' = "returned"
      /\ perms' = table1
      /\ active' = copies1
      /\ envelope' = Seal(r, copies1, decided)

FinishNow(r) == Finish(r, perms, active, decisions)

(* Statements that end in finish(), unless one of them throws.             *)
Return(r, decided) ==
  \/ Running(r) /\ Finish(r, perms, active, decided)
  \/ ~Running(r) /\ Continue(r, "thrown") /\ UNCHANGED <<perms, active>>
-----------------------------------------------------------------------------
Receive ==
  /\ pc = "receive"
  /\ Continue(Transition(RecordStep(run), "frame"), "frame_consult")
  /\ UNCHANGED <<calls, i, requests, decisions, perms, active, toolVars, now>>

(* Allowed: the manifest is recompiled and the model is called.            *)
ConsultAllowed ==
  /\ \E phase \in {<<"frame_consult", "frame_llm">>, <<"plan_consult", "plan_llm">>,
                    <<"critique_consult", "critique_llm">>,
                    <<"finalize_consult", "finalize_llm">>} :
       pc = phase[1] /\ pc' = phase[2]
  /\ UNCHANGED <<run, calls, i, requests, decisions, perms, active, toolVars, envelope, now>>

ConsultDenied ==
  /\ pc \in ConsultPoints
  /\ FinishNow(ForceStop(run, "denied"))
  /\ UNCHANGED <<calls, i, requests, decisions, toolVars, now>>

(* No one catches what a policy engine throws.                             *)
PolicyEngineThrows ==
  /\ pc \in ConsultPoints \cup {"evaluate"}
  /\ Continue(run, "thrown")
  /\ UNCHANGED <<calls, i, requests, decisions, perms, active, toolVars, now>>

(* "if (halted(state)) return finish(...)" after a model call.             *)
LLMHalts ==
  /\ pc \in {"frame_llm", "plan_llm", "critique_llm", "finalize_llm"}
  /\ \E r \in LLMResults(run) : Halted(r) /\ FinishNow(r)
  /\ UNCHANGED <<calls, i, requests, decisions, toolVars, now>>

Frame ==
  /\ pc = "frame_llm"
  /\ \E r \in LLMResults(run) :
       ~Halted(r) /\ Continue(Transition(RecordStep(r), "plan"), "plan_consult")
  /\ UNCHANGED <<calls, i, requests, decisions, perms, active, toolVars, now>>

PlanWithoutTools ==
  /\ pc = "plan_llm"
  /\ \E r \in LLMResults(run) :
       ~Halted(r) /\ Continue(Transition(RecordStep(r), "finalize"), "finalize_consult")
  /\ UNCHANGED <<calls, i, requests, decisions, perms, active, toolVars, now>>

(* Request authority for call c: r is the run on entry to that phase.      *)
RequestAuthority(r, c) ==
  /\ i' = c
  /\ requests' = IF Running(r) THEN requests \cup {c} ELSE requests
  /\ Continue(Transition(RecordStep(r), "validate_authority"), "evaluate")

PlanWithTools ==
  /\ pc = "plan_llm"
  /\ \E n \in Calls, r \in LLMResults(run) :
       /\ ~Halted(r)
       /\ calls' = n
       /\ RequestAuthority(Transition(RecordStep(r), "request_authority"), 1)
  /\ UNCHANGED <<decisions, perms, active, toolVars, now>>

(* The policy engine refused: the status is set and the run is sealed.     *)
Refuse ==
  /\ pc = "evaluate"
  /\ \E d \in RefusingDecision :
       LET denied == d = "denied"
           r == SetStatus(RecordStep(run), IF denied THEN "denied" ELSE "escalation_timeout")
           decided == [decisions EXCEPT ![i] = d]
       IN  /\ decisions' = decided
           /\ Return(Transition(Transition(r, IF denied THEN "deny" ELSE "escalate"),
                                "audit_seal"), decided)
  /\ UNCHANGED <<calls, i, requests, toolVars, now>>

(* The policy engine granted: delegate, materialize the permission, enter  *)
(* execute_tool, charge the tool call and call the registry.  Only a       *)
(* narrowed scope carries the constraint that makes a permission one-shot. *)
Delegate ==
  /\ pc = "evaluate"
  /\ \E d \in GrantingDecision, oneShot \in BOOLEAN :
       LET delegated == Transition(RecordStep(run), "delegate_narrow")
           executing == Transition(RecordStep(delegated), "execute_tool")
       IN  /\ oneShot => d = "narrowed"
           /\ decisions' = [decisions EXCEPT ![i] = d]
           /\ perms' = IF Running(delegated) THEN Grant(perms, i, now, TTL, oneShot)
                       ELSE perms
           /\ active' = IF Running(delegated) THEN [active EXCEPT ![i] = perms'[i]]
                        ELSE active
           /\ acted' = IF Running(executing) THEN acted \cup {i} ELSE acted
           /\ Continue(RecordToolCall(executing), "dispatch")
  /\ UNCHANGED <<calls, i, requests, executed, toolResult, observed, receipts, now>>

(* An engine that answers over HTTP may return a status nobody tests for:  *)
(* it is neither refused nor escalated, and the broker throws on it.       *)
MaterializeFails ==
  /\ pc = "evaluate"
  /\ decisions' = [decisions EXCEPT ![i] = "unrecognised"]
  /\ Continue(Transition(RecordStep(run), "delegate_narrow"), "thrown")
  /\ UNCHANGED <<calls, i, requests, perms, active, toolVars, now>>

(* ToolRegistry.call before the authority check: blocked by the sandbox,   *)
(* unknown tool, or invalid arguments.                                     *)
RejectCall ==
  /\ pc = "dispatch"
  /\ toolResult' = "error"
  /\ pc' = "result"
  /\ UNCHANGED <<run, calls, i, requests, decisions, perms, active, acted, executed,
                 observed, receipts, envelope, now>>

(* The permission is no longer valid, or the narrowed scope excludes the   *)
(* call.  Asking whether a permission is valid expires the overdue ones.   *)
RefuseAuthority ==
  /\ pc = "dispatch"
  /\ ~IsValid(perms, i, now) \/ decisions[i] = "narrowed"
  /\ perms' = CheckExpiry(perms, now)
  /\ toolResult' = "error"
  /\ pc' = "result"
  /\ UNCHANGED <<run, calls, i, requests, decisions, active, acted, executed,
                 observed, receipts, envelope, now>>

(* Mutant: the registry trusts the permission it was handed.               *)
AuthorityUnchecked == TRUE

AuthorityHolds == IsValid(perms, i, now)

StartHandler ==
  /\ pc = "dispatch"
  /\ AuthorityHolds
  /\ perms' = CheckExpiry(perms, now)
  /\ executed' = executed \cup {i}
  /\ pc' = "running"
  /\ UNCHANGED <<run, calls, i, requests, decisions, active, acted, toolResult,
                 observed, receipts, envelope, now>>

(* Mutant: no timeout, the handler may never answer.                       *)
HandlerHangs == pc = "running" /\ UNCHANGED vars

(* The handler answers, fails, or is given up on after its timeout.        *)
HandlerEnds ==
  /\ pc = "running"
  /\ toolResult' \in {"success", "error"}
  /\ pc' = "result"
  /\ UNCHANGED <<run, calls, i, requests, decisions, perms, active, acted, executed,
                 observed, receipts, envelope, now>>

(* The argument schema does not compile: the registry's promise rejects.   *)
RegistryThrows ==
  /\ pc = "dispatch"
  /\ FinishNow(ForceStop(run, "fail_safe"))
  /\ UNCHANGED <<calls, i, requests, decisions, toolVars, now>>

ToolReturned ==
  /\ pc = "result"
  /\ perms' = IF perms[i].oneShot THEN Consume(perms, i, now) ELSE perms
  /\ active' = IF perms[i].oneShot THEN SyncPermissionState(active, perms') ELSE active
  /\ Continue(Transition(run, "observe_result"), "observe_consult")
  /\ UNCHANGED <<calls, i, requests, decisions, toolVars, now>>

(* Mutant: the receipt is stored, the observation step is not.             *)
ObserveUntraced ==
  /\ pc = "observe_consult"
  /\ receipts' = [receipts EXCEPT ![i] = toolResult]
  /\ Continue(Transition(RecordStep(run), "critique_verify"), "critique_consult")
  /\ UNCHANGED <<calls, i, requests, decisions, perms, active, acted, executed,
                 toolResult, observed, now>>

(* Mutant: the observation is traced, the receipt is not stored.           *)
ObserveWithoutReceipt ==
  /\ pc = "observe_consult"
  /\ observed' = observed \cup {i}
  /\ Continue(Transition(RecordStep(run), "critique_verify"), "critique_consult")
  /\ UNCHANGED <<calls, i, requests, decisions, perms, active, acted, executed,
                 toolResult, receipts, now>>

(* Observation and receipt are recorded once the policy engine has agreed. *)
Observe ==
  /\ pc = "observe_consult"
  /\ observed' = observed \cup {i}
  /\ receipts' = [receipts EXCEPT ![i] = toolResult]
  /\ Continue(Transition(RecordStep(run), "critique_verify"), "critique_consult")
  /\ UNCHANGED <<calls, i, requests, decisions, perms, active, acted, executed,
                 toolResult, now>>

(* The critique of call i is in; the loop goes on to the next call ...     *)
CritiqueThenNextCall ==
  /\ pc = "critique_llm" /\ i < calls
  /\ \E r \in LLMResults(run) :
       LET r1 == RecordStep(r)
           replanned == RecordStep(Transition(r1, "plan"))
       IN  /\ ~Halted(r) /\ ~Halted(r1)
           /\ RequestAuthority(Transition(replanned, "request_authority"), i + 1)
  /\ toolResult' = "none"
  /\ UNCHANGED <<calls, decisions, perms, active, acted, executed, observed, receipts, now>>

(* ... or the step just recorded exhausted the budget ...                  *)
CritiqueThenStop ==
  /\ pc = "critique_llm"
  /\ \E r \in LLMResults(run) :
       ~Halted(r) /\ Halted(RecordStep(r)) /\ FinishNow(RecordStep(r))
  /\ UNCHANGED <<calls, i, requests, decisions, toolVars, now>>

(* Mutant: the loop is left although calls remain.                         *)
CritiqueThenFinalizeEarly ==
  /\ pc = "critique_llm"
  /\ \E r \in LLMResults(run) :
       /\ ~Halted(r) /\ ~Halted(RecordStep(r))
       /\ Continue(Transition(RecordStep(r), "finalize"), "finalize_consult")
  /\ UNCHANGED <<calls, i, requests, decisions, perms, active, toolVars, now>>

(* ... or that was the last call.                                          *)
CritiqueThenFinalize ==
  /\ pc = "critique_llm" /\ i = calls
  /\ \E r \in LLMResults(run) :
       /\ ~Halted(r) /\ ~Halted(RecordStep(r))
       /\ Continue(Transition(RecordStep(r), "finalize"), "finalize_consult")
  /\ UNCHANGED <<calls, i, requests, decisions, perms, active, toolVars, now>>

Finalize ==
  /\ pc = "finalize_llm"
  /\ \E r \in LLMResults(run) :
       ~Halted(r) /\ Return(Transition(r, "audit_seal"), decisions)
  /\ UNCHANGED <<calls, i, requests, decisions, toolVars, now>>
-----------------------------------------------------------------------------
Tick ==
  /\ pc \notin Ended
  /\ now < MaxTime
  /\ now' = now + 1
  /\ UNCHANGED <<pc, run, calls, i, requests, decisions, perms, active, toolVars, envelope>>

Terminated == pc \in Ended /\ UNCHANGED vars

RunStep ==
  \/ Receive \/ ConsultAllowed \/ ConsultDenied \/ PolicyEngineThrows \/ LLMHalts
  \/ Frame \/ PlanWithoutTools \/ PlanWithTools \/ Refuse \/ Delegate \/ MaterializeFails
  \/ RejectCall \/ RefuseAuthority \/ StartHandler \/ HandlerEnds \/ RegistryThrows
  \/ ToolReturned \/ Observe
  \/ CritiqueThenNextCall \/ CritiqueThenStop \/ CritiqueThenFinalize \/ Finalize

Next == RunStep \/ Tick \/ Terminated

Spec == Init /\ [][Next]_vars

(* The policy engine and the model answer, a tool answers or times out.    *)
FairSpec == Spec /\ WF_vars(RunStep)
-----------------------------------------------------------------------------
(* The types of the run's state.                                           *)
EnvelopeRecord == [sealed      : {TRUE},
                   completion  : CompletionStatus,
                   requests    : SUBSET Calls,
                   decisions   : [Calls -> DecisionStatus \cup {"none"}],
                   permissions : [Calls -> GrantRecord],
                   receipts    : [Calls -> ReceiptStatus]]

TypeOK ==
  /\ pc \in Points \cup Ended
  /\ run \in RunRecord
  /\ calls \in 0 .. MaxCalls /\ i \in 0 .. MaxCalls
  /\ requests \subseteq Calls /\ acted \subseteq Calls
  /\ executed \subseteq Calls /\ observed \subseteq Calls
  /\ decisions \in [Calls -> DecisionStatus \cup {"none"}]
  /\ perms \in [Calls -> GrantRecord] /\ active \in [Calls -> GrantRecord]
  /\ receipts \in [Calls -> ReceiptStatus] /\ toolResult \in ReceiptStatus
  /\ envelope \in EnvelopeRecord \cup {NoEnvelope}
  /\ now \in 0 .. MaxTime

Granted(c) == decisions[c] \in GrantingDecision
Refused(c) == decisions[c] \in RefusingDecision

(* A sealed envelope reports what became of every permission: the copies   *)
(* kept in the state are not stale, and none of them is still active, so   *)
(* that granted = consumed + expired + revoked in the permission summary   *)
(* (finish, governed-pipeline.ts:108; permissionSummaryFromState).         *)
EnvelopeSettlesPermissions ==
  envelope.sealed =>
    \A c \in Calls : /\ envelope.permissions[c] = perms[c]
                     /\ Granted(c) => Settled(perms[c])

(* The lists of a sealed envelope agree with each other: one decision per  *)
(* request, one permission and one action per granted decision, and a      *)
(* receipt only for an action that was observed.  The trace and the        *)
(* envelope report the same end, and never that the run is still running.  *)
(* Only the last call of a run that was denied when it was to be observed  *)
(* was executed without a receipt (governed-pipeline.ts:401), and a        *)
(* receipt says "success" only of a call whose handler was started.        *)
EnvelopeAccountsAgree ==
  envelope.sealed =>
    /\ run.termination = envelope.completion /\ envelope.completion # "running"
    /\ \A c \in Calls :
      /\ c \in envelope.requests <=> envelope.decisions[c] # "none"
      /\ envelope.permissions[c].status # "none" <=> Granted(c)
      /\ c \in acted <=> Granted(c)
      /\ envelope.receipts[c] # "none" <=> c \in observed
      /\ c \in observed => c \in acted
      /\ (c \in executed /\ envelope.receipts[c] = "none")
           => c = i /\ envelope.completion = "denied"
      /\ envelope.receipts[c] = "success" => c \in executed

(* A run reported as succeeded has gone through everything the plan asked  *)
(* for: each call was requested, granted, acted on, observed and receipted,*)
(* in a run whose hard budget was never exhausted.  That every call was    *)
(* executed is not said: a receipt may report that the registry refused it *)
(* (governed-pipeline.ts:272-430, tool-registry.ts:63-103).                *)
SuccessIsComplete ==
  (envelope.sealed /\ envelope.completion = "succeeded") =>
    /\ \A c \in 1 .. calls :
         /\ c \in requests /\ Granted(c) /\ c \in acted /\ c \in observed
         /\ receipts[c] # "none"
    /\ HardBudget(run) => ~IsExhausted(run)

(* A refused call is the end of the run: nothing is granted or executed    *)
(* for it or for a later call, and the run reports the refusal, unless it  *)
(* throws before it is sealed (governed-pipeline.ts:315-335).              *)
RefusalIsFinal ==
  \A c \in Calls : Refused(c) =>
    /\ pc \in Ended
    /\ \A d \in c .. calls : perms[d].status = "none" /\ d \notin executed
    /\ envelope.sealed =>
         envelope.completion = IF decisions[c] = "denied" THEN "denied"
                               ELSE "escalation_timeout"

(* A handler is started only for a call the policy engine granted, under   *)
(* the permission issued for that call, active and unexpired at the very   *)
(* moment it starts (tool-registry.ts:96-110).                             *)
ExecutionIsAuthorised ==
  [][\A c \in executed' \ executed :
       /\ Granted(c) /\ c \in requests /\ c = i
       /\ Usable(perms[c], now)]_vars

(* Under hard enforcement no pipeline spends a step or a tool call beyond  *)
(* the configured maximum, whatever path the run takes.                    *)
StepAndToolBudgetNeverOverspent ==
  \A f \in {"steps", "toolCalls"} :
    (HardBudget(run) /\ run.max[f] > 0) => run.remaining[f] >= 0

(* Once the run has been stopped no authority is requested, decided or     *)
(* granted, nothing is observed, and the run does not resume.              *)
StoppedRunTakesNoAuthority ==
  [][Halted(run) =>
       /\ requests' = requests /\ decisions' = decisions
       /\ acted' = acted /\ observed' = observed /\ receipts' = receipts
       /\ \A c \in Calls : perms[c].status = "none" => perms'[c].status = "none"
       /\ Halted(run')]_vars

(* The run as the promise sees it.                                         *)
StageOf(c) ==
  CASE receipts[c] # "none"                                -> "receipted"
    [] receipts[c] = "none" /\ c \in executed              -> "executed"
    [] receipts[c] = "none" /\ c \notin executed /\ perms[c].status # "none"
                                                           -> "granted"
    [] Refused(c)                                          -> "refused"
    [] c \in requests /\ ~Refused(c) /\ perms[c].status = "none" -> "requested"
    [] OTHER                                               -> "idle"

OutcomeOf ==
  CASE pc = "thrown"   -> "thrown"
    [] pc = "returned" -> IF envelope.completion = "succeeded" THEN "succeeded" ELSE "stopped"
    [] OTHER           -> "running"

Promise == INSTANCE GovernedRun WITH
             Calls <- Calls, stage <- [c \in Calls |-> StageOf(c)], outcome <- OutcomeOf,
             MaxReplans <- 0, replans <- 0

(* The pipeline implements what GovernedRun promises of it.                *)
KeepsThePromise == Promise!GSpec

(* Every run ends: it returns its envelope or throws.                      *)
RunEnds == <>(pc \in Ended)

(* What the documentation says, and the code does not do.                  *)
(* "At the end, the whole run is sealed in an audit envelope"              *)
(* (docs/eli5_guide.md:40): at least a run that was stopped is.  A run     *)
(* whose policy engine throws is left out of this: nothing is said of it.  *)
EveryStoppedRunIsSealed == pc \in Ended /\ Halted(run) => envelope.sealed

(* "forced transition to terminal FSM status before any follow-on side     *)
(* effect" (docs/model-adaptation-budget-control.md).                      *)
NoToolAfterForcedStop ==
  [][Halted(run) => executed' = executed]_vars
=============================================================================
