----------------------------- MODULE TraceEmitter -----------------------------
(***************************************************************************)
(* The traces of runs in one process (core/trace-emitter.ts and the trace  *)
(* step of core/transitions.ts).  A run emits between its awaits, so the   *)
(* steps of several runs interleave; each run resets the step counter when *)
(* it begins, and there is one counter for all of them.                    *)
(*                                                                         *)
(* A step is a record of its type, the series of its id ("s" for emitted   *)
(* steps, "t" for transitions), its number in that series, and the number  *)
(* of its parent, 0 for none.                                              *)
(***************************************************************************)
EXTENDS Integers, Sequences, Functions

CONSTANTS Runs,       \* the runs of the process
          MaxSteps    \* bound on the steps of each trace

ASSUME TraceAssumption == \A r \in Runs : MaxSteps[r] \in Nat

VARIABLES counter,    \* _counter, one per process
          begun,      \* the runs that have reset it, in order
          trace,      \* the steps of each run
          plan,       \* the number of the plan step a run has in hand, 0 for none
          action      \* the number of its last action step, 0 for none

vars == <<counter, begun, trace, plan, action>>

Init ==
  /\ counter = 0 /\ begun = <<>>
  /\ trace = [r \in Runs |-> <<>>]
  /\ plan = [r \in Runs |-> 0] /\ action = [r \in Runs |-> 0]
-----------------------------------------------------------------------------
(* resetStepCounter, the first statement of every pipeline.                *)
Begin(r) ==
  /\ r \notin Range(begun)
  /\ begun' = Append(begun, r)
  /\ counter' = 0
  /\ UNCHANGED <<trace, plan, action>>

Live(r) == r \in Range(begun) /\ Len(trace[r]) < MaxSteps[r]

MakeStep(type, parent) ==
  [type |-> type, series |-> "s", number |-> counter + 1, parent |-> parent]

(* Mutant: notes do not advance the counter.                            *)
EmitUncounted(r, type, parent) ==
  /\ trace' = [trace EXCEPT ![r] = Append(@, MakeStep(type, parent))]
  /\ counter' = IF type = "note" THEN counter ELSE counter + 1

Emit(r, type, parent) ==
  /\ trace' = [trace EXCEPT ![r] = Append(@, MakeStep(type, parent))]
  /\ counter' = counter + 1

(* Notes are thoughts, critiques, verifications and summaries: nothing     *)
(* refers to them, and some of them refer to the plan.                     *)
EmitNote(r) ==
  /\ Live(r)
  /\ \E parent \in {0, plan[r]} : Emit(r, "note", parent)
  /\ UNCHANGED <<begun, plan, action>>

EmitPlan(r) ==
  /\ Live(r)
  /\ Emit(r, "plan", 0)
  /\ plan' = [plan EXCEPT ![r] = counter']
  /\ UNCHANGED <<begun, action>>

EmitAction(r) ==
  /\ Live(r) /\ plan[r] # 0
  /\ Emit(r, "action", plan[r])
  /\ action' = [action EXCEPT ![r] = counter']
  /\ UNCHANGED <<begun, plan>>

(* Mutant: the observation refers to the plan.                             *)
EmitObservationOfPlan(r) ==
  /\ Live(r) /\ action[r] # 0
  /\ Emit(r, "observation", plan[r])
  /\ UNCHANGED <<begun, plan, action>>

EmitObservation(r) ==
  /\ Live(r) /\ action[r] # 0
  /\ Emit(r, "observation", action[r])
  /\ UNCHANGED <<begun, plan, action>>

(* Transitions and stops number their step by its position in the trace.   *)
Transition(r) ==
  /\ Live(r)
  /\ trace' = [trace EXCEPT ![r] = Append(@, [type |-> "note", series |-> "t",
                                              number |-> Len(@) + 1, parent |-> 0])]
  /\ UNCHANGED <<counter, begun, plan, action>>

TraceStep(r) == \/ Begin(r) \/ EmitNote(r) \/ EmitPlan(r) \/ EmitAction(r)
                \/ EmitObservation(r) \/ Transition(r)
-----------------------------------------------------------------------------
Earlier(r, n) == {m \in 1 .. n - 1 : trace[r][m].series = trace[r][n].series}

(* "The emitter guarantees monotonically increasing step IDs"              *)
(* (trace-emitter.ts:5).  It does so for the run that was the last to      *)
(* reset the counter, whatever the runs before it still emit: in its trace *)
(* each series of ids increases.                                           *)
NewestIdsIncrease ==
  begun # <<>> =>
    LET steps == trace[begun[Len(begun)]]
    IN  \A n \in DOMAIN steps : \A m \in 1 .. n - 1 :
          steps[m].series = steps[n].series => steps[m].number < steps[n].number

(* "consistent parent linkage": a parent is an earlier step of the same    *)
(* trace, an action's a plan and an observation's an action, whatever else *)
(* carries the same id.                                                    *)
ParentsAreEarlierSteps ==
  \A r \in Runs : \A n \in DOMAIN trace[r] :
    LET step == trace[r][n]
        Candidates == {trace[r][m].type : m \in {k \in Earlier(r, n) :
                                                   trace[r][k].number = step.parent}}
    IN  step.parent # 0 => CASE step.type = "action"      -> "plan" \in Candidates
                             [] step.type = "observation" -> "action" \in Candidates
                             [] OTHER                     -> "plan" \in Candidates

Actions(r) == {n \in DOMAIN trace[r] : trace[r][n].type = "action"}

(* validateActionObservationPairing: the actions without an observation,   *)
(* by the ids of the observations' parents.                                *)
Unpaired(r) ==
  LET observed == {trace[r][m].parent : m \in {k \in DOMAIN trace[r] :
                                                trace[r][k].type = "observation"}}
  IN  {n \in Actions(r) : trace[r][n].number \notin observed}

(* What happened: an observation follows an action if none is in between.  *)
Observed(r, n) ==
  \E m \in n + 1 .. Len(trace[r]) :
    trace[r][m].type = "observation" /\ Actions(r) \cap n + 1 .. m = {}

(* So nothing in that trace has two meanings, and the validator misses     *)
(* exactly the observations that are missing (validator.ts:66-85); in the  *)
(* trace of an older run an action may pass for another of the same id.    *)
NewestTraceIsUnambiguous ==
  /\ NewestIdsIncrease
  /\ begun # <<>> =>
       LET r == begun[Len(begun)] IN Unpaired(r) = {n \in Actions(r) : ~Observed(r, n)}
=============================================================================
