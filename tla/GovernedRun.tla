----------------------------- MODULE GovernedRun -----------------------------
(***************************************************************************)
(* What a governed run promises about the tool calls of its plan, whatever *)
(* the budget, the model and the clock do: they are taken one at a time,   *)
(* in order; each goes from a request to a decision, from a grant to at    *)
(* most one execution, and from there to a receipt; a refusal ends the     *)
(* run; and a run succeeds only with no call left half-way.  A run may     *)
(* plan anew a bounded number of times, once its last plan is completed.   *)
(***************************************************************************)
EXTENDS Integers

CONSTANTS Calls,      \* the positions of the tool calls, a set of numbers
          MaxReplans  \* how often the run may plan anew

VARIABLES
  stage,    \* of each call: idle, requested, refused, granted, executed or receipted
  outcome,  \* of the run: running, succeeded, stopped or thrown
  replans   \* how often it has planned anew

gvars == <<stage, outcome, replans>>

GInit == stage = [c \in Calls |-> "idle"] /\ outcome = "running" /\ replans = 0

Settled == \A c \in Calls : stage[c] \in {"idle", "receipted"}

(* Call c moves on; the run continues or a statement of it throws.         *)
Move(c, from, to) ==
  /\ outcome = "running"
  /\ stage[c] \in from
  /\ stage' = [stage EXCEPT ![c] = to]
  /\ outcome' \in {"running", "thrown"}
  /\ UNCHANGED replans

Request(c) ==
  /\ \A d \in Calls : d < c => stage[d] = "receipted"
  /\ Move(c, {"idle"}, "requested")

Grant(c)   == Move(c, {"requested"}, "granted")
Execute(c) == Move(c, {"granted"}, "executed")
Receipt(c) == Move(c, {"granted", "executed"}, "receipted")

Refuse(c) ==
  /\ outcome = "running"
  /\ stage[c] = "requested"
  /\ stage' = [stage EXCEPT ![c] = "refused"]
  /\ outcome' \in {"stopped", "thrown"}
  /\ UNCHANGED replans

(* A budget, a policy or a failure ends the run at any point.              *)
Stop ==
  /\ outcome = "running"
  /\ outcome' \in {"stopped", "thrown"}
  /\ UNCHANGED <<stage, replans>>

Replan ==
  /\ outcome = "running"
  /\ replans < MaxReplans
  /\ Settled /\ \E c \in Calls : stage[c] = "receipted"
  /\ stage' = [c \in Calls |-> "idle"]
  /\ replans' = replans + 1
  /\ outcome' \in {"running", "thrown"}

Succeed ==
  /\ outcome = "running"
  /\ Settled
  /\ outcome' = "succeeded"
  /\ UNCHANGED <<stage, replans>>

GNext ==
  \/ \E c \in Calls : Request(c) \/ Grant(c) \/ Execute(c) \/ Receipt(c) \/ Refuse(c)
  \/ Stop \/ Replan \/ Succeed

GSpec == GInit /\ [][GNext]_gvars
=============================================================================
