--------------------------- MODULE PermissionManager ---------------------------
(***************************************************************************)
(* PermissionManager (governance/permission-manager.ts) with any number of *)
(* callers.  Its methods are synchronous, so calls interleave whole; what  *)
(* happens between them, and between the two readings of the clock inside  *)
(* isValid and consume, is time: it passes, and the wall clock may be set  *)
(* back.  Expiry is lazy: a grant stays active until some method notices.  *)
(***************************************************************************)
EXTENDS Permissions

CONSTANTS Ids,       \* the permissions that may be granted
          TTLs,      \* the lifetimes a request may ask for
          MaxTime    \* bound on the clock

ASSUME ManagerAssumption == TTLs \subseteq Nat \ {0} /\ MaxTime \in Nat

VARIABLES perms,   \* the map of grants
          log,     \* how often each lifecycle event was pushed for each grant
          now      \* the wall clock

vars == <<perms, log, now>>

Event == {"granted", "consumed", "expired", "revoked"}

NoEvents == [e \in Event |-> 0]

Init ==
  /\ perms = [id \in Ids |-> NoGrant]
  /\ log = [id \in Ids |-> NoEvents]
  /\ now = 0

Push(l, ids, e) ==
  [id \in Ids |-> IF id \in ids THEN [l[id] EXCEPT ![e] = @ + 1] ELSE l[id]]

Active == {id \in Ids : perms[id].status = "active"}

(* Mutant: what has expired before is reported again at every sweep.       *)
OverdueOrExpired == {id \in Ids : perms[id].status \in {"active", "expired"}
                                    /\ IsPastExpiry(perms[id], now)}

Overdue == {id \in Active : IsPastExpiry(perms[id], now)}

(* checkExpiry, which every other method but grant and get begins with.    *)
Swept == Push(log, Overdue, "expired")

NewGrant ==
  /\ \E id \in Ids, ttl \in TTLs, oneShot \in BOOLEAN :
       /\ perms[id].status = "none"
       /\ perms' = Grant(perms, id, now, ttl, oneShot)
       /\ log' = Push(log, {id}, "granted")
  /\ UNCHANGED now

Sweep ==
  /\ perms' = CheckExpiry(perms, now)
  /\ log' = Swept
  /\ UNCHANGED now

(* The second reading of the clock, some time after the first.             *)
SecondReading == now' \in {now, now + 1} /\ now' <= MaxTime

AskIfValid ==
  /\ SecondReading
  /\ perms' = CheckExpiry(perms, now)
  /\ log' = Swept

ConsumptionLog(id) ==
  IF CanConsumeAt(perms, id, now, now') THEN Push(Swept, {id}, "consumed") ELSE Swept

ConsumeOne ==
  /\ SecondReading
  /\ \E id \in Ids :
       /\ perms' = ConsumeAt(perms, id, now, now')
       /\ log' = ConsumptionLog(id)

RevokeOne ==
  /\ \E id \in Ids :
       /\ perms' = Revoke(perms, id, now)
       /\ log' = Push(Swept, {id} \cap (Active \ Overdue), "revoked")
  /\ UNCHANGED now

RevokeEvery ==
  /\ perms' = RevokeAll(perms, now)
  /\ log' = Push(Swept, Active \ Overdue, "revoked")
  /\ UNCHANGED now

Tick == now < MaxTime /\ now' = now + 1 /\ UNCHANGED <<perms, log>>

ClockSetBack == now' \in 0 .. now - 1 /\ UNCHANGED <<perms, log>>

Next ==
  \/ NewGrant \/ Sweep \/ AskIfValid \/ ConsumeOne \/ RevokeOne \/ RevokeEvery
  \/ Tick \/ ClockSetBack

Spec == Init /\ [][Next]_vars
-----------------------------------------------------------------------------
TypeOK ==
  /\ perms \in [Ids -> GrantRecord]
  /\ log \in [Ids -> [Event -> Nat]]
  /\ now \in 0 .. MaxTime

(* The events tell what the table says: a grant was granted once, and has  *)
(* exactly one further event if it is settled, that of its status.         *)
LogTellsTheStory ==
  \A id \in Ids :
    /\ log[id]["granted"] = IF perms[id].status = "none" THEN 0 ELSE 1
    /\ \A e \in Event \ {"granted"} :
         log[id][e] = IF perms[id].status = e THEN 1 ELSE 0

(* A settled grant never changes again, wherever the clock goes: it is not *)
(* revived when the clock is set back before its expiry.                   *)
SettledIsFinal ==
  [][\A id \in Ids : Settled(perms[id]) => perms'[id] = perms[id]]_vars

(* Only a one-shot permission is consumed, within its window at the moment *)
(* of the last look at the clock, and it does not outlive its consumption. *)
ConsumedInsideItsWindow ==
  [][\A id \in Ids :
       (perms[id].status # "consumed" /\ perms'[id].status = "consumed") =>
         /\ perms[id].oneShot
         /\ perms[id].effectiveAt <= now' /\ now' < perms[id].expiresAt]_vars
=============================================================================
