---------------------------- MODULE Permissions ----------------------------
(***************************************************************************)
(* The operations of PermissionManager (governance/permission-manager.ts)  *)
(* as functions of the table of grants and of the reading of the clock.    *)
(* An identifier that has not been granted yet maps to NoGrant.            *)
(***************************************************************************)
EXTENDS Integers

GrantStatus == {"none", "active", "consumed", "expired", "revoked"}

GrantRecord == [status      : GrantStatus,
                effectiveAt : Int,
                expiresAt   : Int,
                oneShot     : BOOLEAN]

NoGrant == [status |-> "none", effectiveAt |-> 0, expiresAt |-> 0, oneShot |-> FALSE]

IsPastExpiry(g, now)      == g.expiresAt <= now
IsBeforeEffective(g, now) == now < g.effectiveAt

Settled(g) == g.status \in {"consumed", "expired", "revoked"}

Grant(perms, id, now, ttl, oneShot) ==
  [perms EXCEPT ![id] = [status      |-> "active",
                         effectiveAt |-> now,
                         expiresAt   |-> now + ttl,
                         oneShot     |-> oneShot]]

CheckExpiry(perms, now) ==
  [id \in DOMAIN perms |->
     IF perms[id].status = "active" /\ IsPastExpiry(perms[id], now)
     THEN [perms[id] EXCEPT !.status = "expired"]
     ELSE perms[id]]

(* Mutant: a grant the sweep has left active is taken to be in its window. *)
UsableWhileActive(g, now) == g.status = "active"

Usable(g, now) == /\ g.status = "active"
                  /\ ~IsBeforeEffective(g, now)
                  /\ ~IsPastExpiry(g, now)

(* isValid and consume read the clock twice: for the expiry of all grants, *)
(* and for the window of the one they are asked about.  A third reading of *)
(* consume is only the time it records (permission-manager.ts:90): no later*)
(* decision looks at it, and it is left out.                               *)
IsValidAt(perms, id, first, second) == Usable(CheckExpiry(perms, first)[id], second)
IsValid(perms, id, now)             == Usable(CheckExpiry(perms, now)[id], now)

CanConsumeAt(perms, id, first, second) ==
  perms[id].oneShot /\ IsValidAt(perms, id, first, second)

ConsumeAt(perms, id, first, second) ==
  IF CanConsumeAt(perms, id, first, second)
  THEN [CheckExpiry(perms, first) EXCEPT ![id].status = "consumed"]
  ELSE CheckExpiry(perms, first)

Consume(perms, id, now) == ConsumeAt(perms, id, now, now)

(* Mutant: a settled grant may be revoked.                                 *)
CanRevokeAnything(perms, id, now) == perms[id].status # "none"

CanRevoke(perms, id, now) == CheckExpiry(perms, now)[id].status = "active"

Revoke(perms, id, now) ==
  IF CanRevoke(perms, id, now)
  THEN [CheckExpiry(perms, now) EXCEPT ![id].status = "revoked"]
  ELSE CheckExpiry(perms, now)

(* Mutant: a status that the permission schema does not have.              *)
CancelAll(perms, now) ==
  [id \in DOMAIN perms |->
     IF CanRevoke(perms, id, now) THEN [perms[id] EXCEPT !.status = "cancelled"]
     ELSE CheckExpiry(perms, now)[id]]

(* revokeAll calls revoke on every grant that is still active, and revoke  *)
(* expires the overdue ones first: none is active afterwards.              *)
RevokeAll(perms, now) ==
  [id \in DOMAIN perms |->
     IF CanRevoke(perms, id, now) THEN [perms[id] EXCEPT !.status = "revoked"]
     ELSE CheckExpiry(perms, now)[id]]
=============================================================================
