---------------------------- MODULE DelegatedRuns ----------------------------
(***************************************************************************)
(* The runs of the two pipelines that act on decisions alone: a run is of  *)
(* either kind, and takes the steps the kinds share or those of its own.   *)
(***************************************************************************)
EXTENDS ChatPipeline, CoderPipeline

VARIABLE kind     \* the pipeline the run is of

vars == <<runVars, loopVars, kind>>

Init == /\ kind \in {"chat", "coder"}
        /\ ChatInit /\ CoderInit

ChatRunStep  == kind = "chat" /\ (SharedStep \/ ChatStep) /\ UNCHANGED loopVars

CoderRunStep == kind = "coder" /\ ((SharedStep /\ UNCHANGED loopVars) \/ CoderStep)

RunStep == (ChatRunStep \/ CoderRunStep) /\ UNCHANGED kind

Terminated == pc \in Ended /\ UNCHANGED vars

Spec == Init /\ [][RunStep \/ Terminated]_vars

(* The policy engine and the model answer, a tool answers or times out.    *)
FairSpec == Spec /\ WF_vars(RunStep)
-----------------------------------------------------------------------------
TypeOK ==
  /\ RunTypeOK
  /\ kind \in {"chat", "coder"}
  /\ repairs \in 0 .. MaxRepairs
  /\ verdict \in {"none", "passed", "failed"}

(* What both loops keep, whatever they do.                                 *)
RunSafety ==
  /\ TypeOK
  /\ PathsFollowTheFSM
  /\ ReturnsSealed
  /\ RefusalEndsTheRun
  /\ LoopBudgetNeverOverspent

(* What a run reports agrees with what it did.  Success means that every   *)
(* call of the last plan was decided and observed, within a hard budget,   *)
(* and in a coder run that the last critique passed; a failure is reported *)
(* only by a coder run whose last critique failed with all its repair      *)
(* attempts spent (coder-pipeline.ts:374-390).                             *)
ReportMatchesTheRun ==
  pc = "returned" =>
    /\ run.termination = "succeeded" =>
         /\ \A c \in 1 .. calls : Proceeds(c) /\ c \in observed
         /\ HardBudget(run) => ~IsExhausted(run)
         /\ kind = "coder" => verdict = "passed"
    /\ run.termination = "failed" => verdict = "failed" /\ repairs = MaxRepairs

(* A stop is not undone: the run requests, decides and observes nothing    *)
(* more, and the only handler it may still start is that of the call which *)
(* took the last of the tool budget (chat-pipeline.ts:322-335).            *)
StoppedRunWindsDown ==
  [][Halted(run) =>
       /\ Halted(run')
       /\ requests' = requests /\ decisions' = decisions /\ observed' = observed
       /\ \A c \in executed' \ executed :
            c = i /\ Proceeds(c) /\ run.remaining["toolCalls"] = 0]_vars

(* The run as the promise of GovernedRun sees it: an observation step in   *)
(* the trace is the only receipt these runs keep of a call.                *)
StageOf(c) ==
  CASE c \in observed                                            -> "receipted"
    [] c \in executed \ observed                                 -> "executed"
    [] c \notin executed \cup observed /\ Proceeds(c)            -> "granted"
    [] c \notin executed \cup observed /\ Refused(c)             -> "refused"
    [] c \in requests /\ decisions[c] = "none"                   -> "requested"
    [] c \notin requests /\ decisions[c] = "none"                -> "idle"

OutcomeOf ==
  CASE pc = "thrown"   -> "thrown"
    [] pc = "returned" -> IF run.termination = "succeeded" THEN "succeeded" ELSE "stopped"
    [] OTHER           -> "running"

Promise == INSTANCE GovernedRun WITH
             Calls <- Calls, stage <- [c \in Calls |-> StageOf(c)], outcome <- OutcomeOf,
             MaxReplans <- MaxRepairs, replans <- repairs

(* Both keep the promise of a governed run: calls in order, each from      *)
(* request to decision to at most one execution to its observation, no new *)
(* plan and no success with a call left half-way.                          *)
KeepsThePromise == Promise!GSpec

(* Every run returns or throws, however often the critique fails.          *)
RunEnds == <>(pc \in Ended)
=============================================================================
