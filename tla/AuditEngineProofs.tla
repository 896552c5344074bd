-------------------------- MODULE AuditEngineProofs --------------------------
(***************************************************************************)
(* Proofs about TraceEmitter and AuditEngine, for any runs, any bounds on  *)
(* their traces and any of the runs having an audit engine.                *)
(***************************************************************************)
EXTENDS AuditEngine, TLAPS

StepRecord == [type : {"note", "plan", "action", "observation"}, series : {"s", "t"},
               number : Nat, parent : Nat]

TraceTypeOK ==
  /\ counter \in Nat
  /\ begun \in Seq(Runs)
  /\ trace \in [Runs -> Seq(StepRecord)]
  /\ plan \in [Runs -> Nat]
  /\ action \in [Runs -> Nat]

(* Step k of a trace is its last action as far as step m.                  *)
LastAction(steps, k, m) ==
  /\ k \in DOMAIN steps /\ k <= m
  /\ steps[k].type = "action"
  /\ \A i \in k + 1 .. m : steps[i].type # "action"

(* What a run has in hand is in its trace: a plan, and its last action.    *)
HandlesAreSteps ==
  \A r \in Runs :
    /\ plan[r] # 0 => \E k \in DOMAIN trace[r] : /\ trace[r][k].type = "plan"
                                                 /\ trace[r][k].series = "s"
                                                 /\ trace[r][k].number = plan[r]
    /\ action[r] # 0 => \E k \in DOMAIN trace[r] : /\ LastAction(trace[r], k, Len(trace[r]))
                                                   /\ trace[r][k].series = "s"
                                                   /\ trace[r][k].number = action[r]

(* The parent of step n, as an earlier step of the same trace.             *)
HasParent(steps, n) ==
  \E m \in 1 .. n - 1 :
    /\ steps[m].series = steps[n].series
    /\ steps[m].number = steps[n].parent
    /\ steps[m].type = IF steps[n].type = "observation" THEN "action" ELSE "plan"

ParentsAreThere ==
  \A r \in Runs : \A n \in DOMAIN trace[r] : trace[r][n].parent # 0 => HasParent(trace[r], n)

(* An action is an emitted step, and an observation names the last action. *)
ObservationsNameTheLastAction ==
  \A r \in Runs : \A m \in DOMAIN trace[r] :
    /\ trace[r][m].type = "action" => trace[r][m].series = "s"
    /\ trace[r][m].type = "observation" =>
         \E k \in DOMAIN trace[r] : /\ LastAction(trace[r], k, m)
                                    /\ trace[r][m].parent = trace[r][k].number

UnbegunIsEmpty == \A r \in Runs : r \notin Range(begun) => trace[r] = <<>>

(* The newest run's emitted steps are numbered up to the counter, and its  *)
(* other steps by their positions.                                         *)
NewestIsNumbered ==
  begun # <<>> =>
    LET steps == trace[begun[Len(begun)]]
    IN  \A n \in DOMAIN steps : IF steps[n].series = "s" THEN steps[n].number <= counter
                                ELSE steps[n].number = n

TraceInv ==
  /\ TraceTypeOK
  /\ HandlesAreSteps
  /\ ParentsAreThere
  /\ ObservationsNameTheLastAction
  /\ UnbegunIsEmpty
  /\ NewestIsNumbered
  /\ NewestIdsIncrease
-----------------------------------------------------------------------------
(* What emitting a step and making a transition have in common.            *)
Appends(r, step) ==
  /\ step \in StepRecord
  /\ step.type # "note" \/ step.parent # 0 => step.series = "s"
  /\ step.parent \in {0, IF step.type = "observation" THEN action[r] ELSE plan[r]}
  /\ step.type = "observation" => step.parent # 0
  /\ step.number = IF step.series = "s" THEN counter + 1 ELSE Len(trace[r]) + 1
  /\ trace' = [trace EXCEPT ![r] = Append(@, step)]
  /\ counter' = IF step.series = "s" THEN step.number ELSE counter
  /\ plan' = IF step.type = "plan" THEN [plan EXCEPT ![r] = step.number] ELSE plan
  /\ action' = IF step.type = "action" THEN [action EXCEPT ![r] = step.number] ELSE action
  /\ UNCHANGED begun

Appending(r) ==
  EmitNote(r) \/ EmitPlan(r) \/ EmitAction(r) \/ EmitObservation(r) \/ Transition(r)

LEMMA AppendingAppends ==
  ASSUME TraceTypeOK, NEW r \in Runs, Appending(r)
  PROVE  r \in Range(begun) /\ \E step : Appends(r, step)
  <1> USE DEF TraceTypeOK, Live, Emit, MakeStep, Appends, StepRecord
  <1>1. CASE EmitNote(r)
    <2>1. PICK parent \in {0, plan[r]} : Emit(r, "note", parent)
      BY <1>1 DEF EmitNote
    <2>2. r \in Range(begun)
      BY <1>1 DEF EmitNote
    <2>3. parent \in Nat
      BY <2>1
    <2>4. MakeStep("note", parent) \in StepRecord
      BY <2>3
    <2>5. Appends(r, MakeStep("note", parent))
      BY <1>1, <2>1, <2>4 DEF EmitNote
    <2>6. QED
      BY <2>2, <2>5
  <1>2. CASE EmitPlan(r)
    <2>1. Appends(r, MakeStep("plan", 0))
      BY <1>2 DEF EmitPlan
    <2>2. QED
      BY <1>2, <2>1 DEF EmitPlan
  <1>3. CASE EmitAction(r)
    <2>1. Appends(r, MakeStep("action", plan[r]))
      BY <1>3 DEF EmitAction
    <2>2. QED
      BY <1>3, <2>1 DEF EmitAction
  <1>4. CASE EmitObservation(r)
    <2>1. Appends(r, MakeStep("observation", action[r]))
      BY <1>4 DEF EmitObservation
    <2>2. QED
      BY <1>4, <2>1 DEF EmitObservation
  <1>5. CASE Transition(r)
    <2>1. Appends(r, [type |-> "note", series |-> "t", number |-> Len(trace[r]) + 1, parent |-> 0])
      BY <1>5 DEF Transition
    <2>2. QED
      BY <1>5, <2>1 DEF Transition
  <1>6. QED
    BY <1>1, <1>2, <1>3, <1>4, <1>5 DEF Appending

(* An appended step leaves the steps before it where they are.             *)
LEMMA TraceAfterAppend ==
  ASSUME TraceTypeOK, NEW r \in Runs, NEW step, Appends(r, step)
  PROVE  /\ \A q \in Runs \ {r} : trace'[q] = trace[q]
         /\ trace'[r] \in Seq(StepRecord)
         /\ Len(trace[r]) \in Nat /\ DOMAIN trace[r] = 1 .. Len(trace[r])
         /\ Len(trace'[r]) = Len(trace[r]) + 1
         /\ DOMAIN trace'[r] = 1 .. Len(trace[r]) + 1
         /\ \A k \in 1 .. Len(trace[r]) : trace'[r][k] = trace[r][k]
         /\ trace'[r][Len(trace[r]) + 1] = step
  <1>1. trace[r] \in Seq(StepRecord) /\ step \in StepRecord
    BY DEF TraceTypeOK, Appends
  <1>2. trace'[r] = Append(trace[r], step) /\ \A q \in Runs \ {r} : trace'[q] = trace[q]
    BY DEF TraceTypeOK, Appends
  <1>3. QED
    BY <1>1, <1>2

LEMMA AppendsKeepsType ==
  ASSUME TraceTypeOK, NEW r \in Runs, NEW step, Appends(r, step)
  PROVE  TraceTypeOK'
  <1>1. step.number \in Nat
    BY DEF Appends, StepRecord
  <1>2. counter' \in Nat /\ begun' \in Seq(Runs)
    BY <1>1 DEF TraceTypeOK, Appends
  <1>3. trace' \in [Runs -> Seq(StepRecord)]
    BY TraceAfterAppend DEF TraceTypeOK, Appends
  <1>4. plan' \in [Runs -> Nat] /\ action' \in [Runs -> Nat]
    BY <1>1 DEF TraceTypeOK, Appends
  <1>5. QED
    BY <1>2, <1>3, <1>4 DEF TraceTypeOK

LEMMA AppendsKeepsHandles ==
  ASSUME TraceTypeOK, HandlesAreSteps, NEW r \in Runs, NEW step, Appends(r, step)
  PROVE  HandlesAreSteps'
  <1> DEFINE len == Len(trace[r])
  <1>1. ASSUME NEW q \in Runs \ {r}
        PROVE  trace'[q] = trace[q] /\ plan'[q] = plan[q] /\ action'[q] = action[q]
    BY TraceAfterAppend DEF TraceTypeOK, Appends
  <1>2. ASSUME plan'[r] # 0
        PROVE  \E k \in DOMAIN trace'[r] : /\ trace'[r][k].type = "plan"
                                           /\ trace'[r][k].series = "s"
                                           /\ trace'[r][k].number = plan'[r]
    <2>1. CASE step.type = "plan"
      <3>1. plan'[r] = step.number /\ step.series = "s"
        BY <2>1 DEF Appends, TraceTypeOK
      <3>2. QED
        BY <2>1, <3>1, TraceAfterAppend
    <2>2. CASE step.type # "plan"
      BY <1>2, <2>2, TraceAfterAppend DEF Appends, HandlesAreSteps
    <2>3. QED
      BY <2>1, <2>2
  <1>3. ASSUME action'[r] # 0
        PROVE  \E k \in DOMAIN trace'[r] : /\ LastAction(trace'[r], k, Len(trace'[r]))
                                           /\ trace'[r][k].series = "s"
                                           /\ trace'[r][k].number = action'[r]
    <2>1. CASE step.type = "action"
      <3>1. action'[r] = step.number /\ step.series = "s"
        BY <2>1 DEF Appends, TraceTypeOK
      <3>2. LastAction(trace'[r], len + 1, Len(trace'[r])) /\ trace'[r][len + 1] = step
        BY <2>1, TraceAfterAppend DEF LastAction
      <3>3. QED
        BY <3>1, <3>2, TraceAfterAppend
    <2>2. CASE step.type # "action"
      <3>1. action'[r] = action[r]
        BY <2>2 DEF Appends
      <3>2. PICK k \in DOMAIN trace[r] : /\ LastAction(trace[r], k, len)
                                          /\ trace[r][k].series = "s"
                                          /\ trace[r][k].number = action[r]
        BY <1>3, <3>1 DEF HandlesAreSteps
      <3>3. \A i \in k + 1 .. len + 1 : trace'[r][i].type # "action"
        BY <2>2, <3>2, TraceAfterAppend DEF LastAction
      <3>4. /\ LastAction(trace'[r], k, Len(trace'[r]))
            /\ trace'[r][k].series = "s" /\ trace'[r][k].number = action'[r]
        BY <3>1, <3>2, <3>3, TraceAfterAppend DEF LastAction
      <3>5. QED
        BY <3>2, <3>4, TraceAfterAppend
    <2>3. QED
      BY <2>1, <2>2
  <1>4. QED
    BY <1>1, <1>2, <1>3 DEF HandlesAreSteps
(* The same, said without a set of candidates.                            *)
LEMMA ParentsRestated == ParentsAreEarlierSteps <=> ParentsAreThere
  <1> DEFINE Candidates(r, n) == {trace[r][m].type : m \in {k \in Earlier(r, n) :
                                                              trace[r][k].number = trace[r][n].parent}}
  <1>1. ASSUME NEW r, NEW n, NEW type
        PROVE  type \in Candidates(r, n) <=>
                 \E m \in 1 .. n - 1 : /\ trace[r][m].series = trace[r][n].series
                                       /\ trace[r][m].number = trace[r][n].parent
                                       /\ trace[r][m].type = type
    BY DEF Earlier
  <1>2. ParentsAreEarlierSteps <=>
          \A r \in Runs : \A n \in DOMAIN trace[r] : trace[r][n].parent # 0 =>
            CASE trace[r][n].type = "action"      -> "plan" \in Candidates(r, n)
              [] trace[r][n].type = "observation" -> "action" \in Candidates(r, n)
              [] OTHER                            -> "plan" \in Candidates(r, n)
    BY DEF ParentsAreEarlierSteps
  <1> HIDE DEF Candidates
  <1>3. ASSUME NEW r, NEW n
        PROVE  HasParent(trace[r], n) <=>
                 IF trace[r][n].type = "observation" THEN "action" \in Candidates(r, n)
                 ELSE "plan" \in Candidates(r, n)
    BY <1>1 DEF HasParent
  <1>4. QED
    BY <1>2, <1>3 DEF ParentsAreThere

LEMMA AppendsKeepsParents ==
  ASSUME TraceTypeOK, HandlesAreSteps, ParentsAreThere, NEW r \in Runs, NEW step,
         Appends(r, step)
  PROVE  ParentsAreThere'
  <1> DEFINE len == Len(trace[r])
  <1>1. SUFFICES ASSUME NEW q \in Runs, NEW n \in DOMAIN trace'[q], trace'[q][n].parent # 0
                 PROVE  HasParent(trace'[q], n)
    BY DEF ParentsAreThere, HasParent
  <1>2. CASE q # r
    BY <1>1, <1>2, TraceAfterAppend DEF ParentsAreThere
  <1>3. CASE q = r /\ n \in 1 .. len
    <2>1. n \in DOMAIN trace[r] /\ trace[r][n].parent # 0
      BY <1>1, <1>3, TraceAfterAppend
    <2>2. HasParent(trace[r], n)
      BY <2>1 DEF ParentsAreThere
    <2>3. trace'[q][n] = trace[q][n] /\ \A m \in 1 .. n - 1 : trace'[q][m] = trace[q][m]
      BY <1>3, TraceAfterAppend
    <2>4. QED
      BY <1>3, <2>2, <2>3 DEF HasParent
  <1>4. CASE q = r /\ n = len + 1
    <2>1. trace'[q][n] = step /\ step.series = "s" /\ step.parent # 0
      BY <1>1, <1>4, TraceAfterAppend DEF Appends
    <2>2. step.parent = IF step.type = "observation" THEN action[r] ELSE plan[r]
      BY <2>1 DEF Appends
    <2>3. PICK m \in DOMAIN trace[r] : /\ trace[r][m].type = IF step.type = "observation"
                                                             THEN "action" ELSE "plan"
                                       /\ trace[r][m].series = "s"
                                       /\ trace[r][m].number = step.parent
      BY <2>1, <2>2 DEF HandlesAreSteps, LastAction
    <2>4. m \in 1 .. n - 1 /\ trace'[q][m] = trace[r][m]
      BY <1>4, <2>3, TraceAfterAppend
    <2>5. QED
      BY <2>1, <2>3, <2>4 DEF HasParent
  <1>5. QED
    BY <1>1, <1>2, <1>3, <1>4, TraceAfterAppend
LEMMA AppendsKeepsObservations ==
  ASSUME TraceTypeOK, HandlesAreSteps, ObservationsNameTheLastAction, NEW r \in Runs, NEW step,
         Appends(r, step)
  PROVE  ObservationsNameTheLastAction'
  <1> DEFINE len == Len(trace[r])
  <1>1. SUFFICES ASSUME NEW q \in Runs, NEW m \in DOMAIN trace'[q]
                 PROVE  /\ trace'[q][m].type = "action" => trace'[q][m].series = "s"
                        /\ trace'[q][m].type = "observation" =>
                             \E k \in DOMAIN trace'[q] :
                               /\ LastAction(trace'[q], k, m)
                               /\ trace'[q][m].parent = trace'[q][k].number
    BY DEF ObservationsNameTheLastAction
  <1>2. CASE q # r
    BY <1>2, TraceAfterAppend DEF ObservationsNameTheLastAction
  <1>3. ASSUME NEW k \in 1 .. len, NEW n \in k .. len + 1, LastAction(trace[r], k, IF n = len + 1 THEN len ELSE n),
               n = len + 1 => step.type # "action"
        PROVE  k \in DOMAIN trace'[r] /\ LastAction(trace'[r], k, n)
    <2>1. \A i \in k .. n : trace'[r][i] = IF i = len + 1 THEN step ELSE trace[r][i]
      BY TraceAfterAppend
    <2>2. \A i \in k + 1 .. n : trace'[r][i].type # "action"
      BY <1>3, <2>1 DEF LastAction
    <2>3. QED
      BY <1>3, <2>1, <2>2, TraceAfterAppend DEF LastAction
  <1>4. CASE q = r /\ m \in 1 .. len
    <2>1. m \in DOMAIN trace[r] /\ trace'[r][m] = trace[r][m]
      BY <1>4, TraceAfterAppend
    <2>2. ASSUME trace[r][m].type = "observation"
          PROVE  \E k \in DOMAIN trace'[r] : /\ LastAction(trace'[r], k, m)
                                             /\ trace'[r][m].parent = trace'[r][k].number
      <3>1. PICK k \in DOMAIN trace[r] : /\ LastAction(trace[r], k, m)
                                         /\ trace[r][m].parent = trace[r][k].number
        BY <2>1, <2>2 DEF ObservationsNameTheLastAction
      <3>2. k \in 1 .. len /\ m \in k .. len + 1 /\ m # len + 1 /\ trace'[r][k] = trace[r][k]
        BY <1>4, <3>1, TraceAfterAppend DEF LastAction
      <3>3. QED
        BY <1>3, <2>1, <3>1, <3>2
    <2>3. trace[r][m].type = "action" => trace[r][m].series = "s"
      BY <2>1 DEF ObservationsNameTheLastAction
    <2>4. QED
      BY <1>4, <2>1, <2>2, <2>3
  <1>5. CASE q = r /\ m = len + 1
    <2>1. trace'[r][m] = step /\ (step.type = "action" => step.series = "s")
      BY <1>5, TraceAfterAppend DEF Appends
    <2>2. ASSUME step.type = "observation"
          PROVE  \E k \in DOMAIN trace'[r] : /\ LastAction(trace'[r], k, m)
                                             /\ step.parent = trace'[r][k].number
      <3>1. step.parent = action[r] /\ action[r] # 0
        BY <2>2 DEF Appends
      <3>2. PICK k \in DOMAIN trace[r] : LastAction(trace[r], k, len) /\ trace[r][k].number = step.parent
        BY <3>1 DEF HandlesAreSteps
      <3>3. k \in 1 .. len /\ m \in k .. len + 1 /\ trace'[r][k] = trace[r][k]
        BY <1>5, <3>2, TraceAfterAppend DEF LastAction
      <3>4. QED
        BY <1>3, <1>5, <2>2, <3>2, <3>3
    <2>3. QED
      BY <1>5, <2>1, <2>2
  <1>6. QED
    BY <1>1, <1>2, <1>4, <1>5, TraceAfterAppend

(* Whichever run appends, the newest one's numbers are the counter's.      *)
LEMMA AppendsKeepsNumbers ==
  ASSUME TraceTypeOK, NewestIsNumbered, NewestIdsIncrease, NEW r \in Runs, NEW step,
         Appends(r, step)
  PROVE  NewestIsNumbered' /\ NewestIdsIncrease'
  <1> DEFINE len == Len(trace[r])
             new == begun[Len(begun)]
  <1>1. SUFFICES ASSUME begun # <<>>
                 PROVE  /\ \A n \in DOMAIN trace'[new] :
                             IF trace'[new][n].series = "s" THEN trace'[new][n].number <= counter'
                             ELSE trace'[new][n].number = n
                        /\ \A n \in DOMAIN trace'[new] : \A m \in 1 .. n - 1 :
                             trace'[new][m].series = trace'[new][n].series =>
                               trace'[new][m].number < trace'[new][n].number
    BY DEF NewestIsNumbered, NewestIdsIncrease, Appends
  <1>2. new \in Runs /\ counter \in Nat /\ counter' \in Nat /\ counter <= counter'
    <2>1. new \in Runs /\ counter \in Nat
      BY <1>1 DEF TraceTypeOK
    <2>2. counter' = IF step.series = "s" THEN counter + 1 ELSE counter
      BY DEF Appends
    <2>3. QED
      BY <2>1, <2>2
  <1>3. /\ \A n \in DOMAIN trace[new] : IF trace[new][n].series = "s" THEN trace[new][n].number <= counter
                                        ELSE trace[new][n].number = n
        /\ \A n \in DOMAIN trace[new] : \A m \in 1 .. n - 1 :
             trace[new][m].series = trace[new][n].series => trace[new][m].number < trace[new][n].number
        /\ DOMAIN trace[new] = 1 .. Len(trace[new]) /\ Len(trace[new]) \in Nat
        /\ \A n \in 1 .. Len(trace[new]) : /\ trace[new][n].number \in Nat
                                           /\ trace[new][n].series \in {"s", "t"}
    <2>1. trace[new] \in Seq(StepRecord)
      BY <1>2 DEF TraceTypeOK
    <2>2. \A n \in 1 .. Len(trace[new]) : trace[new][n] \in StepRecord
      BY <2>1
    <2>3. QED
      BY <1>1, <2>1, <2>2 DEF NewestIsNumbered, NewestIdsIncrease, StepRecord
  <1> HIDE DEF new
  <1>4. CASE new # r
    <2>1. trace'[new] = trace[new]
      BY <1>2, <1>4, TraceAfterAppend
    <2>2. ASSUME NEW n \in DOMAIN trace[new], trace[new][n].series = "s"
          PROVE  trace[new][n].number <= counter'
      BY <1>2, <1>3, <2>2
    <2>3. QED
      BY <1>3, <2>1, <2>2
  <1>5. CASE new = r
    <2>1. /\ step.number = IF step.series = "s" THEN counter + 1 ELSE len + 1
          /\ counter' = IF step.series = "s" THEN step.number ELSE counter
      BY DEF Appends
    <2>2. ASSUME NEW n \in 1 .. len + 1
          PROVE  IF trace'[r][n].series = "s" THEN trace'[r][n].number <= counter'
                 ELSE trace'[r][n].number = n
      <3>1. CASE n = len + 1
        BY <1>2, <2>1, <3>1, TraceAfterAppend
      <3>2. CASE n \in 1 .. len
        <4>1. trace'[r][n] = trace[r][n] /\ n \in DOMAIN trace[r] /\ trace[r][n].number \in Nat
          BY <1>3, <1>5, <3>2, TraceAfterAppend
        <4>2. QED
          BY <1>2, <1>3, <1>5, <4>1
      <3>3. QED
        BY <2>2, <3>1, <3>2, TraceAfterAppend
    <2>3. ASSUME NEW n \in 1 .. len + 1, NEW m \in 1 .. n - 1, trace'[r][m].series = trace'[r][n].series
          PROVE  trace'[r][m].number < trace'[r][n].number
      <3>1. /\ trace'[r][m] = trace[r][m] /\ m \in 1 .. len /\ m \in DOMAIN trace[r]
            /\ trace[r][m].number \in Nat
        BY <1>3, <1>5, <2>3, TraceAfterAppend
      <3>2. CASE n = len + 1
        <4>1. trace'[r][n] = step
          BY <3>2, TraceAfterAppend
        <4>2. IF step.series = "s" THEN trace[r][m].number <= counter ELSE trace[r][m].number = m
          BY <1>3, <1>5, <2>3, <3>1, <4>1
        <4>3. QED
          BY <1>2, <2>1, <2>3, <3>1, <3>2, <4>1, <4>2
      <3>3. CASE n \in 1 .. len
        BY <1>3, <1>5, <2>3, <3>1, <3>3, TraceAfterAppend
      <3>4. QED
        BY <2>3, <3>2, <3>3, TraceAfterAppend
    <2>4. QED
      BY <1>5, <2>2, <2>3, TraceAfterAppend
  <1>6. QED
    BY <1>4, <1>5 DEF new
LEMMA AppendsKeepsTraceInv ==
  ASSUME TraceInv, NEW r \in Runs, r \in Range(begun), NEW step, Appends(r, step)
  PROVE  TraceInv'
  <1>1. TraceTypeOK'
    BY AppendsKeepsType DEF TraceInv
  <1>2. HandlesAreSteps' /\ ParentsAreThere' /\ ObservationsNameTheLastAction'
    BY AppendsKeepsHandles, AppendsKeepsParents, AppendsKeepsObservations DEF TraceInv
  <1>3. NewestIsNumbered' /\ NewestIdsIncrease'
    BY AppendsKeepsNumbers DEF TraceInv
  <1>4. UnbegunIsEmpty'
    <2>1. ASSUME NEW q \in Runs, q \notin Range(begun)
          PROVE  trace'[q] = <<>>
      BY <2>1, TraceAfterAppend DEF TraceInv, UnbegunIsEmpty
    <2>2. begun' = begun
      BY DEF Appends
    <2>3. QED
      BY <2>1, <2>2 DEF UnbegunIsEmpty
  <1>5. QED
    BY <1>1, <1>2, <1>3, <1>4 DEF TraceInv

(* A run begins with an empty trace, so it may begin to count at 0.        *)
LEMMA BeginKeepsTraceInv ==
  ASSUME TraceInv, NEW r \in Runs, Begin(r)
  PROVE  TraceInv'
  <1>1. /\ begun \in Seq(Runs) /\ begun' = Append(begun, r) /\ r \notin Range(begun)
        /\ counter' = 0 /\ trace' = trace /\ plan' = plan /\ action' = action
    BY DEF TraceInv, TraceTypeOK, Begin
  <1>2. begun' # <<>> /\ begun'[Len(begun')] = r /\ begun' \in Seq(Runs)
    BY <1>1
  <1>3. trace[r] = <<>>
    BY <1>1 DEF TraceInv, UnbegunIsEmpty
  <1>4. DOMAIN trace'[begun'[Len(begun')]] = {}
    BY <1>1, <1>2, <1>3
  <1>5. NewestIsNumbered' /\ NewestIdsIncrease'
    BY <1>4 DEF NewestIsNumbered, NewestIdsIncrease
  <1>6. Range(begun) \subseteq Range(begun')
    BY <1>1 DEF Range
  <1>7. UnbegunIsEmpty'
    BY <1>1, <1>6 DEF TraceInv, UnbegunIsEmpty
  <1>8. TraceTypeOK'
    BY <1>1, <1>2 DEF TraceInv, TraceTypeOK
  <1>9. HandlesAreSteps' /\ ParentsAreThere' /\ ObservationsNameTheLastAction'
    BY <1>1 DEF TraceInv, HandlesAreSteps, ParentsAreThere, ObservationsNameTheLastAction
  <1>10. QED
    BY <1>5, <1>7, <1>8, <1>9 DEF TraceInv

LEMMA InitTraceInv ==
  ASSUME Init
  PROVE  TraceInv
  <1>1. TraceTypeOK
    BY DEF Init, TraceTypeOK
  <1>2. \A r \in Runs : trace[r] = <<>> /\ DOMAIN trace[r] = {} /\ plan[r] = 0 /\ action[r] = 0
    BY DEF Init
  <1>3. begun = <<>>
    BY DEF Init
  <1>4. QED
    BY <1>1, <1>2, <1>3 DEF TraceInv, HandlesAreSteps, ParentsAreThere, ObservationsNameTheLastAction,
      UnbegunIsEmpty, NewestIsNumbered, NewestIdsIncrease

LEMMA NextKeepsTraceInv ==
  ASSUME TraceInv, [AuditNext]_avars
  PROVE  TraceInv'
  <1>1. CASE UNCHANGED vars
    BY <1>1 DEF vars, TraceInv, TraceTypeOK, HandlesAreSteps, ParentsAreThere,
      ObservationsNameTheLastAction, UnbegunIsEmpty, NewestIsNumbered, NewestIdsIncrease,
      HasParent, LastAction
  <1>2. ASSUME NEW r \in Runs, TraceStep(r)
        PROVE  TraceInv'
    <2>1. CASE Begin(r)
      BY <2>1, BeginKeepsTraceInv
    <2>2. CASE Appending(r)
      BY <2>2, AppendingAppends, AppendsKeepsTraceInv DEF TraceInv
    <2>3. QED
      BY <1>2, <2>1, <2>2 DEF TraceStep, Appending
  <1>3. AuditNext => UNCHANGED vars \/ \E r \in Runs : TraceStep(r)
    BY DEF AuditNext, EmitEvent, Seal, Keep, Damage
  <1>4. QED
    BY <1>1, <1>2, <1>3 DEF avars

THEOREM AlwaysTraceInv == AuditSpec => []TraceInv
  <1>1. AuditInit => TraceInv
    BY InitTraceInv DEF AuditInit
  <1>2. TraceInv /\ [AuditNext]_avars => TraceInv'
    BY NextKeepsTraceInv
  <1>3. QED
    BY <1>1, <1>2, PTL DEF AuditSpec

(* However the runs of a process interleave, and however often the counter *)
(* they share is reset, the parent a step names (makeStep in               *)
(* trace-emitter.ts) is an earlier step of its own trace, of the type it   *)
(* refers to.                                                              *)
THEOREM ParentsAlwaysEarlier == AuditSpec => []ParentsAreEarlierSteps
  BY AlwaysTraceInv, ParentsRestated, PTL DEF TraceInv

(* An action is paired, by the number of an observation's parent, exactly  *)
(* when an observation follows it before the next action.                  *)
LEMMA PairedIsObserved ==
  ASSUME TraceInv, begun # <<>>
  PROVE  LET r == begun[Len(begun)] IN Unpaired(r) = {n \in Actions(r) : ~Observed(r, n)}
  <1> DEFINE r == begun[Len(begun)]
             steps == trace[r]
             len == Len(steps)
  <1>1. r \in Runs
    BY DEF TraceInv, TraceTypeOK
  <1>2. DOMAIN steps = 1 .. len /\ len \in Nat /\ \A n \in 1 .. len : steps[n].number \in Nat
    <2>1. steps \in Seq(StepRecord)
      BY <1>1 DEF TraceInv, TraceTypeOK
    <2> HIDE DEF steps
    <2>2. \A n \in 1 .. len : steps[n] \in StepRecord
      BY <2>1
    <2>3. \A n \in 1 .. len : steps[n].number \in Nat
      BY <2>2 DEF StepRecord
    <2>4. QED
      BY <2>1, <2>3
  <1>3. ASSUME NEW n \in 1 .. len, NEW m \in 1 .. len,
               steps[n].type = "action", steps[m].type = "action", steps[n].number = steps[m].number
        PROVE  n = m
    <2>1. steps[n].series = "s" /\ steps[m].series = "s"
      BY <1>1, <1>2, <1>3 DEF TraceInv, ObservationsNameTheLastAction
    <2>2. \A i \in 1 .. len : \A j \in 1 .. i - 1 :
            steps[j].series = steps[i].series => steps[j].number < steps[i].number
      BY <1>2 DEF TraceInv, NewestIdsIncrease
    <2> HIDE DEF steps
    <2>3. n < m \/ n = m \/ m < n
      OBVIOUS
    <2>4. QED
      BY <1>2, <1>3, <2>1, <2>2, <2>3
  <1>4. ASSUME NEW m \in 1 .. len, steps[m].type = "observation"
        PROVE  \E k \in 1 .. len : LastAction(steps, k, m) /\ steps[m].parent = steps[k].number
    BY <1>1, <1>2, <1>4 DEF TraceInv, ObservationsNameTheLastAction
  <1> HIDE DEF steps
  <1>5. ASSUME NEW n \in 1 .. len, steps[n].type = "action"
        PROVE  (\E m \in 1 .. len : steps[m].type = "observation" /\ steps[m].parent = steps[n].number)
                 <=> \E m \in n + 1 .. len : /\ steps[m].type = "observation"
                                             /\ \A i \in n + 1 .. m : steps[i].type # "action"
    <2>1. ASSUME NEW m \in 1 .. len, steps[m].type = "observation", steps[m].parent = steps[n].number
          PROVE  m \in n + 1 .. len /\ \A i \in n + 1 .. m : steps[i].type # "action"
      <3>1. PICK k \in 1 .. len : LastAction(steps, k, m) /\ steps[m].parent = steps[k].number
        BY <1>4, <2>1
      <3>2. k = n
        BY <1>3, <1>5, <2>1, <3>1 DEF LastAction
      <3>3. n # m
        BY <1>5, <2>1
      <3>4. QED
        BY <3>1, <3>2, <3>3, <1>2 DEF LastAction
    <2>2. ASSUME NEW m \in n + 1 .. len, steps[m].type = "observation",
                 \A i \in n + 1 .. m : steps[i].type # "action"
          PROVE  m \in 1 .. len /\ steps[m].parent = steps[n].number
      <3>1. m \in 1 .. len /\ n < m
        BY <1>2, <2>2
      <3>2. PICK k \in 1 .. len : LastAction(steps, k, m) /\ steps[m].parent = steps[k].number
        BY <1>4, <2>2, <3>1
      <3>3. ~(k < n)
        <4>1. k < n => n \in k + 1 .. m
          BY <1>2, <3>1
        <4>2. QED
          BY <1>5, <3>2, <4>1 DEF LastAction
      <3>4. ~(n < k)
        <4>1. n < k => k \in n + 1 .. m
          BY <1>2, <3>2 DEF LastAction
        <4>2. QED
          BY <2>2, <3>2, <4>1 DEF LastAction
      <3>5. k = n
        BY <1>2, <3>3, <3>4
      <3>6. QED
        BY <3>1, <3>2, <3>5
    <2>3. QED
      BY <2>1, <2>2
  <1>6. Actions(r) = {n \in 1 .. len : steps[n].type = "action"}
    BY <1>2 DEF Actions, steps
  <1>7. \A n \in 1 .. len : Observed(r, n) <=>
          \E m \in n + 1 .. len : /\ steps[m].type = "observation"
                                  /\ \A i \in n + 1 .. m : steps[i].type # "action"
    <2>1. \A n \in 1 .. len : \A m \in n + 1 .. len :
            Actions(r) \cap n + 1 .. m = {} <=> \A i \in n + 1 .. m : steps[i].type # "action"
      BY <1>2, <1>6
    <2>2. QED
      BY <2>1 DEF Observed, steps
  <1>8. Unpaired(r) =
          {n \in Actions(r) : ~ \E m \in 1 .. len : /\ steps[m].type = "observation"
                                                    /\ steps[m].parent = steps[n].number}
    BY <1>2 DEF Unpaired, steps
  <1> HIDE DEF r, len
  <1>9. Unpaired(r) = {n \in Actions(r) : ~Observed(r, n)}
    BY <1>5, <1>6, <1>7, <1>8
  <1>10. QED
    BY <1>9 DEF r

(* In the trace of the run that was the last to reset the counter, no two  *)
(* steps of a series have one id, and what the validator finds unpaired    *)
(* (validateActionObservationPairing, validator.ts:66-85) is what was not  *)
(* observed.                                                               *)
THEOREM NewestTraceNeverAmbiguous == AuditSpec => []NewestTraceIsUnambiguous
  <1>1. TraceInv => NewestTraceIsUnambiguous
    BY PairedIsObserved DEF TraceInv, NewestTraceIsUnambiguous
  <1>2. QED
    BY <1>1, AlwaysTraceInv, PTL
-----------------------------------------------------------------------------
(* The body of an envelope over a chain of count events.                   *)
BodyOf(steps, count) ==
  [trace_hash       |-> Sha256([steps |-> steps]),
   event_chain_head |-> IF count = 0 THEN Undefined ELSE 1,
   event_chain_tail |-> IF count = 0 THEN Undefined ELSE count,
   event_count      |-> count]

EnvelopeOf(steps, count) == WithHash(BodyOf(steps, count))

ChainOf(count) == [k \in 1 .. count |-> [id |-> k, parent |-> k - 1]]

CopyOf(object) == [object |-> object, damaged |-> FALSE]
DamagedCopyOf(object, k) == [object |-> Damaged(object, k), damaged |-> TRUE]

(* The events are a chain; what was sealed is the trace as it still is and *)
(* the first of the events; what was kept is that, or damaged in one value.*)
RecordInv ==
  /\ DOMAIN events = Governed /\ DOMAIN envelope = Governed /\ DOMAIN kept = Governed
  /\ \A r \in Governed :
       /\ Len(events[r]) \in Nat /\ events[r] = ChainOf(Len(events[r]))
       /\ Sealed(r) => \E count \in 0 .. Len(events[r]) : envelope[r] = EnvelopeOf(trace[r], count)
       /\ kept[r] # <<>> =>
            /\ Sealed(r)
            /\ \/ kept[r] = CopyOf(AsJson(envelope[r]))
               \/ \E k \in (Optional \cup {"event_count"}) \cap DOMAIN AsJson(envelope[r]) :
                    kept[r] = DamagedCopyOf(AsJson(envelope[r]), k)

EnvelopeKeys == {"trace_hash", "event_chain_head", "event_chain_tail", "event_count", "content_hash"}

LEMMA EnvelopeFields ==
  ASSUME NEW steps, NEW count \in Nat
  PROVE  /\ EnvelopeOf(steps, count) = [k \in EnvelopeKeys |-> EnvelopeOf(steps, count)[k]]
         /\ DOMAIN EnvelopeOf(steps, count) = EnvelopeKeys
         /\ EnvelopeOf(steps, count).trace_hash = Sha256([steps |-> steps])
         /\ EnvelopeOf(steps, count).event_chain_head = IF count = 0 THEN Undefined ELSE 1
         /\ EnvelopeOf(steps, count).event_chain_tail = IF count = 0 THEN Undefined ELSE count
         /\ EnvelopeOf(steps, count).event_count = count
         /\ EnvelopeOf(steps, count).content_hash = Sha256(BodyOf(steps, count))
         /\ EnvelopeOf(steps, count) # <<>>
  <1> DEFINE e == EnvelopeOf(steps, count)
             body == BodyOf(steps, count)
  <1>1. DOMAIN body = {"trace_hash", "event_chain_head", "event_chain_tail", "event_count"}
    BY DEF BodyOf
  <1>2. e = [k \in EnvelopeKeys |-> IF k = "content_hash" THEN Sha256(body) ELSE body[k]]
    <2>1. DOMAIN body \cup {"content_hash"} = EnvelopeKeys
      BY <1>1 DEF EnvelopeKeys
    <2>2. QED
      BY <2>1 DEF EnvelopeOf, WithHash
  <1>3. /\ body.trace_hash = Sha256([steps |-> steps])
        /\ body.event_chain_head = IF count = 0 THEN Undefined ELSE 1
        /\ body.event_chain_tail = IF count = 0 THEN Undefined ELSE count
        /\ body.event_count = count
    BY DEF BodyOf
  <1> HIDE DEF e, body
  <1>4. /\ e.trace_hash = body.trace_hash /\ e.event_chain_head = body.event_chain_head
        /\ e.event_chain_tail = body.event_chain_tail /\ e.event_count = body.event_count
        /\ e.content_hash = Sha256(body)
    BY <1>2 DEF EnvelopeKeys
  <1>5. DOMAIN e = EnvelopeKeys /\ e = [k \in EnvelopeKeys |-> e[k]]
    BY <1>2
  <1>6. e # <<>>
    <2>1. DOMAIN e # {}
      BY <1>5 DEF EnvelopeKeys
    <2>2. QED
      BY <2>1
  <1>7. QED
    BY <1>3, <1>4, <1>5, <1>6 DEF e, body

(* Without its hash, an envelope is the body that was hashed.              *)
LEMMA EnvelopeVerifies ==
  ASSUME NEW steps, NEW count \in Nat
  PROVE  /\ Without(EnvelopeOf(steps, count), {"content_hash"}) = BodyOf(steps, count)
         /\ Verify(EnvelopeOf(steps, count))
  <1> DEFINE e == EnvelopeOf(steps, count)
             body == BodyOf(steps, count)
  <1>1. body = [k \in EnvelopeKeys \ {"content_hash"} |-> body[k]]
    BY DEF BodyOf, EnvelopeKeys
  <1>2. /\ DOMAIN e = EnvelopeKeys
        /\ \A k \in EnvelopeKeys \ {"content_hash"} : e[k] = body[k]
        /\ e.content_hash = Sha256(body)
    BY EnvelopeFields DEF BodyOf, EnvelopeKeys
  <1> HIDE DEF e, body
  <1>3. Without(e, {"content_hash"}) = [k \in EnvelopeKeys \ {"content_hash"} |-> e[k]]
    BY <1>2 DEF Without
  <1>4. Without(e, {"content_hash"}) = body
    BY <1>1, <1>2, <1>3
  <1>5. QED
    BY <1>2, <1>4 DEF Verify, e, body

(* JSON drops the two ends of an empty chain, and nothing else.            *)
LEMMA EnvelopeAsJson ==
  ASSUME NEW steps, NEW count \in Nat
  PROVE  /\ count > 0 => AsJson(EnvelopeOf(steps, count)) = EnvelopeOf(steps, count)
         /\ count = 0 => "event_chain_head" \notin DOMAIN AsJson(EnvelopeOf(steps, count))
         /\ AsJson(EnvelopeOf(steps, count)).content_hash = EnvelopeOf(steps, count).content_hash
         /\ "content_hash" \in DOMAIN AsJson(EnvelopeOf(steps, count))
  <1> DEFINE e == EnvelopeOf(steps, count)
             gone == {k \in Optional \cap DOMAIN e : e[k] = Undefined}
  <1>1. /\ e = [k \in EnvelopeKeys |-> e[k]] /\ DOMAIN e = EnvelopeKeys
        /\ e.event_chain_head = IF count = 0 THEN Undefined ELSE 1
        /\ e.event_chain_tail = IF count = 0 THEN Undefined ELSE count
    BY EnvelopeFields
  <1>2. AsJson(e) = [k \in EnvelopeKeys \ gone |-> e[k]]
    BY <1>1 DEF AsJson, Without
  <1> HIDE DEF e
  <1>3. count > 0 => gone = {}
    BY <1>1 DEF Undefined, Optional
  <1>4. count = 0 => "event_chain_head" \in gone
    BY <1>1 DEF Undefined, Optional, EnvelopeKeys
  <1>5. "content_hash" \in EnvelopeKeys \ gone
    BY DEF EnvelopeKeys, Optional
  <1> HIDE DEF gone
  <1>6. QED
    BY <1>1, <1>2, <1>3, <1>4, <1>5 DEF e

(* Whatever value is not the one that was kept, the hash of what is left   *)
(* is not the hash that was kept with it.                                  *)
LEMMA DamageShows ==
  ASSUME NEW steps, NEW count \in Nat,
         NEW k \in (Optional \cup {"event_count"}) \cap DOMAIN AsJson(EnvelopeOf(steps, count))
  PROVE  ~Verify(Damaged(AsJson(EnvelopeOf(steps, count)), k))
  <1> DEFINE e == EnvelopeOf(steps, count)
             body == BodyOf(steps, count)
             damaged == Damaged(AsJson(e), k)
             rest == Without(damaged, {"content_hash"})
  <1>1. k # "content_hash" /\ k \in EnvelopeKeys \ {"content_hash"}
    BY DEF Optional, EnvelopeKeys
  <1>2. /\ DOMAIN damaged = DOMAIN AsJson(e)
        /\ damaged[k] = AsJson(e)[k] + 1
        /\ damaged.content_hash = AsJson(e).content_hash
    <2> DEFINE json == AsJson(e)
    <2>1. k \in DOMAIN json /\ "content_hash" \in DOMAIN json
      BY EnvelopeAsJson
    <2> HIDE DEF json
    <2>2. /\ DOMAIN Damaged(json, k) = DOMAIN json
          /\ Damaged(json, k)[k] = json[k] + 1
          /\ Damaged(json, k).content_hash = json.content_hash
      BY <1>1, <2>1 DEF Damaged
    <2>3. QED
      BY <2>2 DEF json
  <1>3. e.content_hash = Sha256(body) /\ damaged.content_hash = Sha256(body)
    <2>1. e.content_hash = Sha256(body)
      BY EnvelopeFields
    <2>2. AsJson(e).content_hash = e.content_hash
      BY EnvelopeAsJson
    <2>3. QED
      BY <1>2, <2>1, <2>2
  <1>4. rest # body
    <2>1. DOMAIN rest = DOMAIN AsJson(e) \ {"content_hash"} /\ rest[k] = damaged[k]
      BY <1>1, <1>2 DEF Without
    <2>2. CASE count = 0
      <3>1. "event_chain_head" \notin DOMAIN rest
        BY <2>1, <2>2, EnvelopeAsJson
      <3>2. "event_chain_head" \in DOMAIN body
        BY DEF BodyOf
      <3>3. QED
        BY <3>1, <3>2
    <2>3. CASE count > 0
      <3>1. rest[k] = e[k] + 1
        BY <1>2, <2>1, <2>3, EnvelopeAsJson
      <3>2. e[k] = body[k] /\ body[k] \in Nat
        BY <2>3, EnvelopeFields DEF BodyOf, Optional
      <3>3. QED
        BY <3>1, <3>2
    <2>4. QED
      BY <2>2, <2>3
  <1> HIDE DEF e, body, damaged, rest
  <1>5. Sha256(rest) # Sha256(body)
    <2>1. Sha256(rest).sha256 = rest /\ Sha256(body).sha256 = body
      BY DEF Sha256
    <2>2. QED
      BY <1>4, <2>1
  <1>6. ~Verify(damaged)
    BY <1>3, <1>5 DEF Verify, rest
  <1>7. QED
    BY <1>6 DEF damaged, e
LEMMA ChainGrows ==
  ASSUME NEW n \in Nat
  PROVE  Append(ChainOf(n), [id |-> n + 1, parent |-> n]) = ChainOf(n + 1)
  <1> DEFINE link == [id |-> n + 1, parent |-> n]
             Link == [id : Nat, parent : Nat]
  <1>1. ChainOf(n) \in Seq(Link) /\ Len(ChainOf(n)) = n
    BY DEF ChainOf
  <1>2. ChainOf(n + 1) \in Seq(Link) /\ Len(ChainOf(n + 1)) = n + 1
    BY DEF ChainOf
  <1>3. \A k \in 1 .. n + 1 : ChainOf(n + 1)[k] = IF k = n + 1 THEN link ELSE ChainOf(n)[k]
    BY DEF ChainOf
  <1>4. link \in Link
    OBVIOUS
  <1> HIDE DEF link, Link
  <1>5. Append(ChainOf(n), link) = ChainOf(n + 1)
    BY <1>1, <1>2, <1>3, <1>4
  <1>6. QED
    BY <1>5 DEF link

LEMMA InitRecordInv ==
  ASSUME AuditInit
  PROVE  RecordInv
  <1>1. ChainOf(0) = <<>>
    BY DEF ChainOf
  <1>2. QED
    BY <1>1 DEF AuditInit, RecordInv, Sealed

(* A sealed run emits no steps; what other runs emit is not in its trace.  *)
LEMMA TraceStepKeepsRecordInv ==
  ASSUME TraceTypeOK, RecordInv, NEW r \in Runs, ~Sealed(r), TraceStep(r), UNCHANGED record
  PROVE  RecordInv'
  <1>1. \A q \in Runs \ {r} : trace'[q] = trace[q]
    <2>1. CASE Begin(r)
      BY <2>1 DEF Begin
    <2>2. CASE Appending(r)
      BY <2>2, AppendingAppends, TraceAfterAppend
    <2>3. QED
      BY <2>1, <2>2 DEF TraceStep, Appending
  <1>2. \A q \in Governed : Sealed(q) => trace'[q] = trace[q]
    BY <1>1, AuditAssumption
  <1>3. events' = events /\ envelope' = envelope /\ kept' = kept
    BY DEF record
  <1>4. \A q \in Governed : Sealed(q)' <=> Sealed(q)
    BY <1>3 DEF Sealed
  <1>5. QED
    BY <1>2, <1>3, <1>4 DEF RecordInv

LEMMA EmitEventKeepsRecordInv ==
  ASSUME RecordInv, NEW r \in Governed, EmitEvent(r)
  PROVE  RecordInv'
  <1> DEFINE len == Len(events[r])
  <1>1. len \in Nat /\ events[r] = ChainOf(len) /\ DOMAIN events = Governed
    BY DEF RecordInv
  <1>2. /\ events' = [events EXCEPT ![r] = Append(events[r],
                        [id |-> len + 1, parent |-> IF events[r] = <<>> THEN 0 ELSE events[r][len].id])]
        /\ trace' = trace /\ envelope' = envelope /\ kept' = kept
    BY DEF EmitEvent, vars
  <1>3. (IF events[r] = <<>> THEN 0 ELSE events[r][len].id) = len
    BY <1>1 DEF ChainOf
  <1>4. events'[r] = ChainOf(len + 1)
    BY <1>1, <1>2, <1>3, ChainGrows
  <1>5. Len(events'[r]) = len + 1
    BY <1>1, <1>4 DEF ChainOf
  <1>6. /\ DOMAIN events' = Governed
        /\ \A q \in Governed \ {r} : events'[q] = events[q]
    BY <1>1, <1>2
  <1>7. \A q \in Governed : /\ Len(events'[q]) \in Nat /\ events'[q] = ChainOf(Len(events'[q]))
                            /\ Len(events[q]) \in Nat /\ Len(events[q]) <= Len(events'[q])
    BY <1>1, <1>4, <1>5, <1>6 DEF RecordInv
  <1>8. \A q \in Governed : Sealed(q)' <=> Sealed(q)
    BY <1>2 DEF Sealed
  <1>9. \A q \in Governed : Sealed(q) =>
          \E count \in 0 .. Len(events'[q]) : envelope[q] = EnvelopeOf(trace[q], count)
    BY <1>7 DEF RecordInv
  <1>10. QED
    BY <1>2, <1>6, <1>7, <1>8, <1>9 DEF RecordInv

LEMMA SealKeepsRecordInv ==
  ASSUME RecordInv, NEW r \in Governed, Seal(r)
  PROVE  RecordInv'
  <1> DEFINE len == Len(events[r])
  <1>1. len \in Nat /\ events[r] = ChainOf(len) /\ DOMAIN envelope = Governed /\ ~Sealed(r)
    BY DEF RecordInv, Seal
  <1>2. /\ envelope' = [envelope EXCEPT ![r] = WithHash(Body(r, TraceObject(r)))]
        /\ trace' = trace /\ events' = events /\ kept' = kept
    BY DEF Seal, vars
  <1>3. Body(r, TraceObject(r)) = BodyOf(trace[r], len)
    <2>1. TraceObject(r) = [steps |-> trace[r]]
      BY <1>1 DEF TraceObject
    <2>2. len # 0 => events[r][1].id = 1 /\ events[r][len].id = len
      BY <1>1 DEF ChainOf
    <2>3. QED
      BY <2>1, <2>2 DEF Body, BodyOf
  <1>4. /\ envelope'[r] = EnvelopeOf(trace[r], len)
        /\ DOMAIN envelope' = Governed
        /\ \A q \in Governed \ {r} : envelope'[q] = envelope[q]
    BY <1>1, <1>2, <1>3 DEF EnvelopeOf
  <1>5. \A q \in Governed \ {r} : Sealed(q)' <=> Sealed(q)
    BY <1>4 DEF Sealed
  <1>6. kept[r] = <<>> /\ len \in 0 .. len
    BY <1>1 DEF RecordInv
  <1>7. QED
    BY <1>2, <1>4, <1>5, <1>6 DEF RecordInv

LEMMA KeepKeepsRecordInv ==
  ASSUME RecordInv, NEW r \in Governed, Keep(r)
  PROVE  RecordInv'
  <1>1. /\ kept'[r] = CopyOf(AsJson(envelope[r])) /\ Sealed(r)
        /\ DOMAIN kept' = Governed
        /\ \A q \in Governed \ {r} : kept'[q] = kept[q]
        /\ trace' = trace /\ events' = events /\ envelope' = envelope
    BY DEF RecordInv, Keep, CopyOf, vars
  <1>2. \A q \in Governed : Sealed(q)' <=> Sealed(q)
    BY <1>1 DEF Sealed
  <1>3. AsJson(envelope[r])' = AsJson(envelope[r])
    BY <1>1
  <1>4. QED
    BY <1>1, <1>2, <1>3 DEF RecordInv

LEMMA DamageKeepsRecordInv ==
  ASSUME RecordInv, NEW r \in Governed, Damage(r)
  PROVE  RecordInv'
  <1>1. kept[r] # <<>> /\ ~kept[r].damaged /\ Sealed(r)
    BY DEF Damage, RecordInv
  <1>2. kept[r] = CopyOf(AsJson(envelope[r]))
    BY <1>1 DEF RecordInv, DamagedCopyOf
  <1>3. PICK k \in (Optional \cup {"event_count"}) \cap DOMAIN AsJson(envelope[r]) :
          kept' = [kept EXCEPT ![r] = DamagedCopyOf(AsJson(envelope[r]), k)]
    <2>1. kept[r].object = AsJson(envelope[r])
      BY <1>2 DEF CopyOf
    <2>2. PICK k \in (Optional \cup {"event_count"}) \cap DOMAIN kept[r].object :
            kept' = [kept EXCEPT ![r] = [object |-> Damaged(kept[r].object, k), damaged |-> TRUE]]
      BY DEF Damage
    <2>3. kept' = [kept EXCEPT ![r] = DamagedCopyOf(AsJson(envelope[r]), k)]
      BY <2>1, <2>2 DEF DamagedCopyOf
    <2>4. QED
      BY <2>1, <2>2, <2>3
  <1>4. /\ kept'[r] = DamagedCopyOf(AsJson(envelope[r]), k)
        /\ DOMAIN kept' = Governed
        /\ \A q \in Governed \ {r} : kept'[q] = kept[q]
        /\ trace' = trace /\ events' = events /\ envelope' = envelope
    BY <1>3 DEF RecordInv, Damage, vars
  <1>5. \A q \in Governed : Sealed(q)' <=> Sealed(q)
    BY <1>4 DEF Sealed
  <1>6. QED
    BY <1>1, <1>4, <1>5 DEF RecordInv
LEMMA NextKeepsRecordInv ==
  ASSUME TraceTypeOK, RecordInv, [AuditNext]_avars
  PROVE  RecordInv'
  <1>1. CASE UNCHANGED avars
    <2>1. /\ trace' = trace /\ events' = events /\ envelope' = envelope /\ kept' = kept
      BY <1>1 DEF avars, vars, record
    <2>2. \A q \in Governed : Sealed(q)' <=> Sealed(q)
      BY <2>1 DEF Sealed
    <2>3. QED
      BY <2>1, <2>2 DEF RecordInv
  <1>2. ASSUME NEW r \in Runs, ~Sealed(r), TraceStep(r), UNCHANGED record
        PROVE  RecordInv'
    BY <1>2, TraceStepKeepsRecordInv
  <1>3. ASSUME NEW r \in Governed, EmitEvent(r) \/ Seal(r) \/ Keep(r) \/ Damage(r)
        PROVE  RecordInv'
    BY <1>3, EmitEventKeepsRecordInv, SealKeepsRecordInv, KeepKeepsRecordInv, DamageKeepsRecordInv
  <1>4. QED
    BY <1>1, <1>2, <1>3 DEF AuditNext

THEOREM AlwaysRecordInv == AuditSpec => []RecordInv
  <1>1. AuditInit => RecordInv
    BY InitRecordInv
  <1>2. TraceInv /\ RecordInv /\ [AuditNext]_avars => RecordInv'
    BY NextKeepsRecordInv DEF TraceInv
  <1>3. QED
    BY <1>1, <1>2, AlwaysTraceInv, PTL DEF AuditSpec

(* The tail of the chain is its count-th event, and each parent is the     *)
(* event before.                                                           *)
LEMMA ChainIsSpelt ==
  ASSUME NEW r \in Governed, events[r] = ChainOf(Len(events[r])), Len(events[r]) \in Nat,
         NEW count \in 0 .. Len(events[r])
  PROVE  Spells(r, EnvelopeOf(trace[r], count))
  <1> DEFINE e == EnvelopeOf(trace[r], count)
             at == [i \in 1 .. count |-> count - i + 1]
  <1>1. /\ e.event_count = count
        /\ e.event_chain_head = IF count = 0 THEN Undefined ELSE 1
        /\ e.event_chain_tail = IF count = 0 THEN Undefined ELSE count
    <2>1. count \in Nat
      OBVIOUS
    <2>2. QED
      BY <2>1, EnvelopeFields
  <1>2. \A k \in 1 .. Len(events[r]) : events[r][k].parent = k - 1
    BY DEF ChainOf
  <1>3. DOMAIN events[r] = 1 .. Len(events[r])
    BY DEF ChainOf
  <1> HIDE DEF e
  <1>4. CASE count = 0
    BY <1>1, <1>4 DEF Spells, Optional, e
  <1>5. CASE count # 0
    <2>1. at \in [1 .. count -> DOMAIN events[r]]
      BY <1>3
    <2>2. at[1] = count /\ at[count] = 1 /\ events[r][1].parent = 0
      BY <1>2, <1>5
    <2>3. ASSUME NEW i \in 2 .. count
          PROVE  at[i] = events[r][at[i - 1]].parent
      <3>1. at[i] = count - i + 1 /\ at[i - 1] = count - i + 2 /\ count - i + 2 \in 1 .. Len(events[r])
        OBVIOUS
      <3>2. QED
        BY <1>2, <3>1
    <2> HIDE DEF at
    <2>4. Spells(r, e)
      BY <1>1, <1>5, <2>1, <2>2, <2>3 DEF Spells
    <2>5. QED
      BY <2>4 DEF e
  <1>6. QED
    BY <1>4, <1>5

(* The envelope of a sealed run is over the trace that is returned and the *)
(* events up to the seal, and verifies; a copy that verifies was not       *)
(* damaged (seal and verifyEnvelope, audit-engine.ts:143-192).             *)
THEOREM SealedRecordAlwaysAgrees == AuditSpec => []SealedRecordAgrees
  <1>1. ASSUME RecordInv, NEW r \in Governed, Sealed(r)
        PROVE  /\ Verify(envelope[r])
               /\ Spells(r, envelope[r])
               /\ envelope[r].trace_hash = Sha256(Without(TraceObject(r), {"audit_envelope"}))
    <2>1. PICK count \in 0 .. Len(events[r]) : envelope[r] = EnvelopeOf(trace[r], count)
      BY <1>1 DEF RecordInv
    <2>2. count \in Nat /\ Len(events[r]) \in Nat /\ events[r] = ChainOf(Len(events[r]))
      BY <1>1 DEF RecordInv
    <2>3. Without(TraceObject(r), {"audit_envelope"}) = [steps |-> trace[r]]
      BY <1>1 DEF TraceObject, Without
    <2>4. envelope[r].trace_hash = Sha256([steps |-> trace[r]])
      BY <2>1, <2>2, EnvelopeFields
    <2>5. QED
      BY <2>1, <2>2, <2>3, <2>4, EnvelopeVerifies, ChainIsSpelt
  <1>2. ASSUME RecordInv, NEW r \in Governed, kept[r] # <<>>
        PROVE  /\ kept[r].damaged => ~Verify(kept[r].object)
               /\ ~kept[r].damaged /\ envelope[r].event_count > 0 => Verify(kept[r].object)
    <2>1. Sealed(r)
      BY <1>2 DEF RecordInv
    <2>2. PICK count \in 0 .. Len(events[r]) : envelope[r] = EnvelopeOf(trace[r], count)
      BY <1>2, <2>1 DEF RecordInv
    <2>3. count \in Nat
      BY DEF RecordInv
    <2>4. CASE kept[r] = CopyOf(AsJson(envelope[r]))
      <3>1. ~kept[r].damaged /\ kept[r].object = AsJson(envelope[r])
        BY <2>4 DEF CopyOf
      <3>2. envelope[r].event_count = count
        <4>1. EnvelopeOf(trace[r], count).event_count = count
          BY <2>3, EnvelopeFields
        <4>2. QED
          BY <2>2, <4>1
      <3>3. count > 0 => AsJson(envelope[r]) = envelope[r]
        BY <2>2, <2>3, EnvelopeAsJson
      <3>4. Verify(envelope[r])
        BY <2>2, <2>3, EnvelopeVerifies
      <3>5. QED
        BY <3>1, <3>2, <3>3, <3>4
    <2>5. ASSUME NEW k \in (Optional \cup {"event_count"}) \cap DOMAIN AsJson(envelope[r]),
                 kept[r] = DamagedCopyOf(AsJson(envelope[r]), k)
          PROVE  kept[r].damaged /\ ~Verify(kept[r].object)
      <3>1. kept[r].damaged /\ kept[r].object = Damaged(AsJson(envelope[r]), k)
        BY <2>5 DEF DamagedCopyOf
      <3>2. QED
        BY <2>2, <2>3, <3>1, DamageShows
    <2>6. QED
      BY <1>2, <2>4, <2>5 DEF RecordInv
  <1>3. RecordInv => SealedRecordAgrees
    BY <1>1, <1>2 DEF SealedRecordAgrees
  <1>4. QED
    BY <1>3, AlwaysRecordInv, PTL
=============================================================================
