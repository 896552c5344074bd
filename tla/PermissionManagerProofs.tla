------------------------ MODULE PermissionManagerProofs ------------------------
(***************************************************************************)
(* Theorems about PermissionManager, for any set of permissions, any       *)
(* lifetimes and any behaviour of the clock.                               *)
(*                                                                         *)
(* Every method sweeps the overdue grants and then settles a set of those  *)
(* that are still active; Settles says so of a step, once for all methods, *)
(* and the inductive invariant TypeOK /\ LogTellsTheStory follows from it. *)
(***************************************************************************)
EXTENDS PermissionManager, TLAPS

IInv == TypeOK /\ LogTellsTheStory

(* The step expires what is overdue and settles the grants of "chosen".    *)
Settles(chosen, status) ==
  /\ perms' = [id \in Ids |->
                 IF id \in Overdue THEN [perms[id] EXCEPT !.status = "expired"]
                 ELSE IF id \in chosen THEN [perms[id] EXCEPT !.status = status]
                 ELSE perms[id]]
  /\ log' = Push(Push(log, Overdue, "expired"), chosen, status)

LEMMA SweepIsExpiry ==
  ASSUME TypeOK
  PROVE  CheckExpiry(perms, now) =
           [id \in Ids |-> IF id \in Overdue THEN [perms[id] EXCEPT !.status = "expired"]
                           ELSE perms[id]]
  BY DEF TypeOK, CheckExpiry, Overdue, Active

(* A method that settles some of the active grants keeps the log in step   *)
(* with the table, and leaves what was settled before as it was.           *)
LEMMA SettlesKeeps ==
  ASSUME IInv, NEW chosen \in SUBSET (Active \ Overdue),
         NEW status \in {"consumed", "revoked"}, Settles(chosen, status),
         now' \in 0 .. MaxTime
  PROVE  /\ IInv'
         /\ \A id \in Ids : Settled(perms[id]) => perms'[id] = perms[id]
  <1> DEFINE pushed(id, e) == IF (id \in Overdue /\ e = "expired")
                                 \/ (id \in chosen /\ e = status) THEN 1 ELSE 0
  <1>0. /\ \A id \in Overdue : perms[id].status = "active"
        /\ \A id \in chosen : perms[id].status = "active" /\ id \notin Overdue
    BY DEF Active, Overdue
  <1>1. ASSUME NEW id \in Ids
        PROVE  /\ perms'[id] \in GrantRecord
               /\ perms'[id].status = IF id \in Overdue THEN "expired"
                                      ELSE IF id \in chosen THEN status
                                      ELSE perms[id].status
               /\ Settled(perms[id]) => perms'[id] = perms[id]
    BY <1>0 DEF Settles, IInv, TypeOK, GrantRecord, GrantStatus, Settled
  <1>2. ASSUME NEW id \in Ids, NEW e \in Event
        PROVE  log'[id][e] = log[id][e] + pushed(id, e)
    <2>1. log[id] \in [Event -> Nat] /\ "expired" \in Event /\ status \in Event
      BY DEF IInv, TypeOK, Event
    <2>2. Push(log, Overdue, "expired")[id] \in [Event -> Nat]
      BY <2>1 DEF Push
    <2>3. Push(log, Overdue, "expired")[id][e]
            = log[id][e] + (IF id \in Overdue /\ e = "expired" THEN 1 ELSE 0)
      BY <2>1 DEF Push
    <2> DEFINE l == Push(log, Overdue, "expired")
    <2> HIDE DEF l
    <2>4. l[id] \in [Event -> Nat] => Push(l, chosen, status)[id][e]
            = l[id][e] + (IF id \in chosen /\ e = status THEN 1 ELSE 0)
      BY <2>1 DEF Push
    <2>5. log' = Push(l, chosen, status)
      BY DEF Settles, l
    <2>6. QED
      BY <1>0, <2>1, <2>2, <2>3, <2>4, <2>5 DEF l
  <1>3. log' \in [Ids -> [Event -> Nat]]
    <2>1. Push(log, Overdue, "expired") \in [Ids -> [Event -> Nat]]
      BY DEF IInv, TypeOK, Push, Event
    <2> DEFINE l == Push(log, Overdue, "expired")
    <2> HIDE DEF l
    <2>2. l \in [Ids -> [Event -> Nat]] => Push(l, chosen, status) \in [Ids -> [Event -> Nat]]
      BY DEF Push, Event
    <2>3. QED
      BY <2>1, <2>2 DEF Settles, l
  <1>4. TypeOK'
    BY <1>1, <1>3 DEF TypeOK, Settles
  <1>5. LogTellsTheStory'
    <2> SUFFICES ASSUME NEW id \in Ids
                 PROVE  /\ log'[id]["granted"] = IF perms'[id].status = "none" THEN 0 ELSE 1
                        /\ \A e \in Event \ {"granted"} :
                             log'[id][e] = IF perms'[id].status = e THEN 1 ELSE 0
      BY DEF LogTellsTheStory
    <2>1. /\ log[id]["granted"] = IF perms[id].status = "none" THEN 0 ELSE 1
          /\ \A e \in Event \ {"granted"} :
               log[id][e] = IF perms[id].status = e THEN 1 ELSE 0
      BY DEF IInv, LogTellsTheStory
    <2>2. QED
      BY <1>0, <1>1, <1>2, <2>1 DEF Event
  <1>6. QED
    BY <1>1, <1>4, <1>5 DEF IInv

(* Each method as a sweep that settles some of the active grants.          *)
LEMMA SweepSettles ==
  ASSUME TypeOK, perms' = CheckExpiry(perms, now), log' = Swept
  PROVE  Settles({}, "revoked")
  <1>1. Push(Swept, {}, "revoked") = Swept
    BY DEF TypeOK, Swept, Push
  <1>2. QED
    BY <1>1, SweepIsExpiry DEF Settles, Swept

LEMMA ConsumeSettles ==
  ASSUME TypeOK, NEW id \in Ids, NEW later \in Int,
         perms' = ConsumeAt(perms, id, now, later),
         log' = IF CanConsumeAt(perms, id, now, later)
                THEN Push(Swept, {id}, "consumed") ELSE Swept
  PROVE  \/ Settles({}, "revoked")
         \/ id \in Active \ Overdue /\ Settles({id}, "consumed")
  <1> DEFINE e == CheckExpiry(perms, now)
  <1>1. CASE ~CanConsumeAt(perms, id, now, later)
    BY <1>1, SweepSettles DEF ConsumeAt
  <1>2. CASE CanConsumeAt(perms, id, now, later)
    <2>1. perms' = [e EXCEPT ![id].status = "consumed"] /\ log' = Push(Swept, {id}, "consumed")
      BY <1>2 DEF ConsumeAt
    <2>2. e[id].status = "active"
      BY <1>2 DEF CanConsumeAt, IsValidAt, Usable
    <2>3. e = [x \in Ids |-> IF x \in Overdue THEN [perms[x] EXCEPT !.status = "expired"]
                             ELSE perms[x]]
      BY SweepIsExpiry
    <2> HIDE DEF e
    <2>4. id \in Active \ Overdue
      <3>1. id \notin Overdue
        BY <2>2, <2>3 DEF TypeOK, GrantRecord
      <3>2. QED
        BY <2>2, <2>3, <3>1 DEF Active
    <2>5. QED
      BY <2>1, <2>3, <2>4 DEF Settles, Swept, TypeOK, GrantRecord
  <1>3. QED
    BY <1>1, <1>2

LEMMA RevokeSettles ==
  ASSUME TypeOK, NEW id \in Ids, perms' = Revoke(perms, id, now),
         log' = Push(Swept, {id} \cap (Active \ Overdue), "revoked")
  PROVE  Settles({id} \cap (Active \ Overdue), "revoked")
  <1> DEFINE e == CheckExpiry(perms, now)
  <1>1. e = [x \in Ids |-> IF x \in Overdue THEN [perms[x] EXCEPT !.status = "expired"]
                           ELSE perms[x]]
    BY SweepIsExpiry
  <1>2. CanRevoke(perms, id, now) <=> e[id].status = "active"
    BY DEF CanRevoke
  <1>3. perms' = IF e[id].status = "active" THEN [e EXCEPT ![id].status = "revoked"] ELSE e
    BY <1>2 DEF Revoke
  <1> HIDE DEF e
  <1>4. e[id].status = "active" <=> id \in Active \ Overdue
    BY <1>1 DEF Active, TypeOK, GrantRecord
  <1>5. QED
    BY <1>1, <1>3, <1>4 DEF Settles, Swept, TypeOK, GrantRecord

LEMMA RevokeAllSettles ==
  ASSUME TypeOK, perms' = RevokeAll(perms, now),
         log' = Push(Swept, Active \ Overdue, "revoked")
  PROVE  Settles(Active \ Overdue, "revoked")
  <1> DEFINE e == CheckExpiry(perms, now)
  <1>1. e = [x \in Ids |-> IF x \in Overdue THEN [perms[x] EXCEPT !.status = "expired"]
                           ELSE perms[x]]
    BY SweepIsExpiry
  <1>2. perms' = [x \in Ids |-> IF e[x].status = "active"
                                THEN [perms[x] EXCEPT !.status = "revoked"] ELSE e[x]]
    BY DEF RevokeAll, CanRevoke, TypeOK
  <1> HIDE DEF e
  <1>3. \A x \in Ids : e[x].status = "active" <=> x \in Active \ Overdue
    BY <1>1 DEF Active, TypeOK, GrantRecord
  <1>4. QED
    BY <1>1, <1>2, <1>3 DEF Settles, Swept
-----------------------------------------------------------------------------
LEMMA InitIInv == Init => IInv
  BY ManagerAssumption
     DEF Init, IInv, TypeOK, LogTellsTheStory, NoEvents, Event, NoGrant, GrantRecord, GrantStatus

(* A new grant has its one event; nothing else changes.                    *)
LEMMA NewGrantKeeps ==
  ASSUME IInv, NewGrant
  PROVE  IInv' /\ \A id \in Ids : Settled(perms[id]) => perms'[id] = perms[id]
  <1>1. PICK id \in Ids, ttl \in TTLs, oneShot \in BOOLEAN :
          /\ perms[id].status = "none"
          /\ perms' = Grant(perms, id, now, ttl, oneShot)
          /\ log' = Push(log, {id}, "granted")
    BY DEF NewGrant
  <1> DEFINE g == [status |-> "active", effectiveAt |-> now,
                   expiresAt |-> now + ttl, oneShot |-> oneShot]
  <1>2. g \in GrantRecord /\ g.status = "active"
    BY ManagerAssumption DEF IInv, TypeOK, GrantRecord, GrantStatus
  <1>3. perms' = [perms EXCEPT ![id] = g]
    BY <1>1 DEF Grant
  <1> HIDE DEF g
  <1>4. \A x \in Ids : perms'[x] = IF x = id THEN g ELSE perms[x]
    BY <1>3 DEF IInv, TypeOK
  <1>5. \A x \in Ids, e \in Event :
          log'[x][e] = log[x][e] + (IF x = id /\ e = "granted" THEN 1 ELSE 0)
    BY <1>1 DEF IInv, TypeOK, Push, Event
  <1>6. TypeOK'
    BY <1>1, <1>2, <1>3 DEF NewGrant, IInv, TypeOK, Push, Event
  <1>7. LogTellsTheStory'
    <2> SUFFICES ASSUME NEW x \in Ids
                 PROVE  /\ log'[x]["granted"] = IF perms'[x].status = "none" THEN 0 ELSE 1
                        /\ \A e \in Event \ {"granted"} :
                             log'[x][e] = IF perms'[x].status = e THEN 1 ELSE 0
      BY DEF LogTellsTheStory
    <2>1. /\ log[x]["granted"] = IF perms[x].status = "none" THEN 0 ELSE 1
          /\ \A e \in Event \ {"granted"} :
               log[x][e] = IF perms[x].status = e THEN 1 ELSE 0
      BY DEF IInv, LogTellsTheStory
    <2>2. QED
      BY <1>1, <1>2, <1>4, <1>5, <2>1 DEF Event
  <1>8. QED
    BY <1>1, <1>4, <1>6, <1>7 DEF IInv, Settled

(* Every step of the manager, and of the clock.                            *)
LEMMA StepKeeps ==
  ASSUME IInv, [Next]_vars
  PROVE  IInv' /\ \A id \in Ids : Settled(perms[id]) => perms'[id] = perms[id]
  <1>0. TypeOK /\ now \in 0 .. MaxTime
    BY DEF IInv, TypeOK
  <1>1. CASE NewGrant
    BY <1>1, NewGrantKeeps
  <1>2. CASE Sweep
    <2>1. Settles({}, "revoked")
      BY <1>0, <1>2, SweepSettles DEF Sweep
    <2>2. QED
      BY <1>0, <1>2, <2>1, SettlesKeeps DEF Sweep
  <1>3. CASE AskIfValid
    <2>1. Settles({}, "revoked")
      BY <1>0, <1>3, SweepSettles DEF AskIfValid
    <2>2. now' \in 0 .. MaxTime
      BY <1>0, <1>3, ManagerAssumption DEF AskIfValid, SecondReading
    <2>3. QED
      BY <2>1, <2>2, SettlesKeeps
  <1>4. CASE ConsumeOne
    <2>1. now' \in 0 .. MaxTime /\ now' \in Int
      BY <1>0, <1>4, ManagerAssumption DEF ConsumeOne, SecondReading
    <2>2. PICK id \in Ids : /\ perms' = ConsumeAt(perms, id, now, now')
                            /\ log' = ConsumptionLog(id)
      BY <1>4 DEF ConsumeOne
    <2>3. \/ Settles({}, "revoked")
          \/ id \in Active \ Overdue /\ Settles({id}, "consumed")
      BY <1>0, <2>1, <2>2, ConsumeSettles DEF ConsumptionLog
    <2>4. CASE Settles({}, "revoked")
      BY <2>1, <2>4, SettlesKeeps
    <2>5. CASE id \in Active \ Overdue /\ Settles({id}, "consumed")
      BY <2>1, <2>5, SettlesKeeps
    <2>6. QED
      BY <2>3, <2>4, <2>5
  <1>5. CASE RevokeOne
    <2>1. PICK id \in Ids : /\ perms' = Revoke(perms, id, now)
                            /\ log' = Push(Swept, {id} \cap (Active \ Overdue), "revoked")
      BY <1>5 DEF RevokeOne
    <2>2. Settles({id} \cap (Active \ Overdue), "revoked")
      BY <1>0, <2>1, RevokeSettles
    <2>3. QED
      BY <1>0, <1>5, <2>2, SettlesKeeps DEF RevokeOne
  <1>6. CASE RevokeEvery
    <2>1. Settles(Active \ Overdue, "revoked")
      BY <1>0, <1>6, RevokeAllSettles DEF RevokeEvery
    <2>2. QED
      BY <1>0, <1>6, <2>1, SettlesKeeps DEF RevokeEvery
  <1>7. CASE Tick \/ ClockSetBack \/ UNCHANGED vars
    <2>1. UNCHANGED <<perms, log>> /\ now' \in 0 .. MaxTime
      BY <1>0, <1>7, ManagerAssumption DEF Tick, ClockSetBack, vars
    <2>2. QED
      BY <2>1 DEF IInv, TypeOK, LogTellsTheStory
  <1>8. QED
    BY <1>1, <1>2, <1>3, <1>4, <1>5, <1>6, <1>7 DEF Next

LEMMA ManagerInvariant == Spec => []IInv
  <1>1. IInv /\ [Next]_vars => IInv'
    BY StepKeeps
  <1>2. QED
    BY <1>1, InitIInv, PTL DEF Spec

(* The table of grants, the counts of events and the clock keep their      *)
(* types under every interleaving of the methods of PermissionManager.     *)
THEOREM ManagerTypeCorrect == Spec => []TypeOK
  <1>1. IInv => TypeOK
    BY DEF IInv
  <1>2. QED
    BY <1>1, ManagerInvariant, PTL

(* The lifecycle events tell exactly what the table of grants says: no     *)
(* method reports an event twice, for the wrong grant, or not at all.      *)
THEOREM LogTheorem == Spec => []LogTellsTheStory
  <1>1. IInv => LogTellsTheStory
    BY DEF IInv
  <1>2. QED
    BY <1>1, ManagerInvariant, PTL

(* A consumed, expired or revoked grant is never changed by any method,    *)
(* also when the clock is set back to a moment before its expiry.          *)
THEOREM FinalTheorem == Spec => SettledIsFinal
  <1>1. IInv /\ [Next]_vars =>
          [\A id \in Ids : Settled(perms[id]) => perms'[id] = perms[id]]_vars
    BY StepKeeps
  <1>2. QED
    BY <1>1, ManagerInvariant, PTL DEF Spec, SettledIsFinal

(* Sweeping and revoking consume nothing.                                  *)
LEMMA OthersConsumeNothing ==
  ASSUME TypeOK, NEW chosen \in SUBSET (Active \ Overdue), Settles(chosen, "revoked"),
         NEW id \in Ids, perms'[id].status = "consumed"
  PROVE  perms[id].status = "consumed"
  BY DEF Settles, TypeOK, GrantRecord

(* What consume takes is a one-shot grant in its window.                   *)
LEMMA ConsumeTakesOneInItsWindow ==
  ASSUME TypeOK, NEW x \in Ids, NEW later \in Int, CanConsumeAt(perms, x, now, later)
  PROVE  perms[x].oneShot /\ perms[x].effectiveAt <= later /\ later < perms[x].expiresAt
  <1> DEFINE e == CheckExpiry(perms, now)
  <1>1. e[x].effectiveAt = perms[x].effectiveAt /\ e[x].expiresAt = perms[x].expiresAt
    BY SweepIsExpiry DEF TypeOK, GrantRecord
  <1>2. Usable(e[x], later) /\ perms[x].oneShot
    BY DEF CanConsumeAt, IsValidAt
  <1> HIDE DEF e
  <1>3. perms[x].effectiveAt \in Int /\ perms[x].expiresAt \in Int
    BY DEF TypeOK, GrantRecord
  <1>4. QED
    BY <1>1, <1>2, <1>3 DEF Usable, IsBeforeEffective, IsPastExpiry

LEMMA StepConsumesInsideTheWindow ==
  ASSUME IInv, [Next]_vars, NEW id \in Ids,
         perms[id].status # "consumed", perms'[id].status = "consumed"
  PROVE  perms[id].oneShot /\ perms[id].effectiveAt <= now' /\ now' < perms[id].expiresAt
  <1>0. TypeOK /\ now \in 0 .. MaxTime
    BY DEF IInv, TypeOK
  <1>1. CASE NewGrant
    <2>1. PICK x \in Ids, ttl \in TTLs, oneShot \in BOOLEAN :
            perms' = Grant(perms, x, now, ttl, oneShot)
      BY <1>1 DEF NewGrant
    <2>2. perms'[id].status = "active" \/ perms'[id] = perms[id]
      BY <1>0, <2>1 DEF Grant, TypeOK
    <2>3. QED
      BY <2>2
  <1>2. CASE Sweep \/ AskIfValid
    <2>1. Settles({}, "revoked")
      BY <1>0, <1>2, SweepSettles DEF Sweep, AskIfValid
    <2>2. QED
      BY <1>0, <2>1, OthersConsumeNothing
  <1>3. CASE ConsumeOne
    <2>1. now' \in Int
      BY <1>0, <1>3, ManagerAssumption DEF ConsumeOne, SecondReading
    <2>2. PICK x \in Ids : perms' = ConsumeAt(perms, x, now, now')
      BY <1>3 DEF ConsumeOne
    <2>3. CASE CanConsumeAt(perms, x, now, now')
      <3>1. id = x
        BY <1>0, <2>2, <2>3, SweepIsExpiry DEF ConsumeAt, TypeOK, GrantRecord
      <3>2. QED
        BY <1>0, <2>1, <2>3, <3>1, ConsumeTakesOneInItsWindow
    <2>4. CASE ~CanConsumeAt(perms, x, now, now')
      BY <1>0, <2>2, <2>4, SweepIsExpiry DEF ConsumeAt, TypeOK, GrantRecord
    <2>5. QED
      BY <2>3, <2>4
  <1>4. CASE RevokeOne
    <2>1. PICK x \in Ids : /\ perms' = Revoke(perms, x, now)
                           /\ log' = Push(Swept, {x} \cap (Active \ Overdue), "revoked")
      BY <1>4 DEF RevokeOne
    <2>2. Settles({x} \cap (Active \ Overdue), "revoked")
      BY <1>0, <2>1, RevokeSettles
    <2>3. QED
      BY <1>0, <2>2, OthersConsumeNothing
  <1>5. CASE RevokeEvery
    <2>1. Settles(Active \ Overdue, "revoked")
      BY <1>0, <1>5, RevokeAllSettles DEF RevokeEvery
    <2>2. QED
      BY <1>0, <2>1, OthersConsumeNothing
  <1>6. CASE Tick \/ ClockSetBack \/ UNCHANGED vars
    BY <1>6 DEF Tick, ClockSetBack, vars
  <1>7. QED
    BY <1>1, <1>2, <1>3, <1>4, <1>5, <1>6 DEF Next

(* Whatever the lifetimes and the clock, consume only ever takes a one-shot *)
(* permission that is inside its window at the last look at the clock.     *)
THEOREM ConsumptionTheorem == Spec => ConsumedInsideItsWindow
  <1>1. IInv /\ [Next]_vars =>
          [\A id \in Ids :
             (perms[id].status # "consumed" /\ perms'[id].status = "consumed") =>
               /\ perms[id].oneShot
               /\ perms[id].effectiveAt <= now' /\ now' < perms[id].expiresAt]_vars
    BY StepConsumesInsideTheWindow
  <1>2. QED
    BY <1>1, ManagerInvariant, PTL DEF Spec, ConsumedInsideItsWindow
=============================================================================
