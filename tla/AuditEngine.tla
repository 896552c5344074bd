----------------------------- MODULE AuditEngine -----------------------------
(***************************************************************************)
(* AuditEngine (governance/audit-engine.ts) over the traces of module      *)
(* TraceEmitter: events are chained while a run goes on, seal hashes the   *)
(* trace into an envelope which is itself hashed, and the envelope is kept *)
(* as JSON and verified later.  Each governed run has an engine of its own.*)
(*                                                                         *)
(* An object is a record.  A key may be there with the value undefined,    *)
(* which the hash sees and JSON does not keep.  SHA-256 does not collide.  *)
(***************************************************************************)
EXTENDS TraceEmitter

CONSTANTS Governed,   \* the runs with an audit engine
          MaxEvents   \* bound on the events of an engine

ASSUME AuditAssumption == Governed \subseteq Runs /\ MaxEvents \in Nat

VARIABLES events,     \* the events of each engine: [id, parent], the parent 0 if null
          envelope,   \* the sealed envelope of each run, or <<>>
          kept        \* the copy kept as JSON, [object, damaged], or <<>>

record == <<events, envelope, kept>>
avars == <<vars, record>>

Undefined == -1

(* The keys of an envelope that may have no value.                         *)
Optional == {"event_chain_head", "event_chain_tail"}

Sha256(object) == [sha256 |-> object]

Without(object, keys) == [k \in DOMAIN object \ keys |-> object[k]]

(* JSON.parse(JSON.stringify(...)) of an envelope.                         *)
AsJson(object) == Without(object, {k \in Optional \cap DOMAIN object : object[k] = Undefined})

AuditInit ==
  /\ Init
  /\ events = [r \in Governed |-> <<>>]
  /\ envelope = [r \in Governed |-> <<>>]
  /\ kept = [r \in Governed |-> <<>>]

Sealed(r) == r \in Governed /\ envelope[r] # <<>>

(* The id of the envelope is a key of the trace it was made from.          *)
TraceObject(r) ==
  IF Sealed(r) THEN [steps |-> trace[r], audit_envelope |-> r] ELSE [steps |-> trace[r]]
-----------------------------------------------------------------------------
EmitEvent(r) ==
  /\ Len(events[r]) < MaxEvents
  /\ events' = [events EXCEPT ![r] = Append(@, [id |-> Len(@) + 1,
                                               parent |-> IF @ = <<>> THEN 0 ELSE @[Len(@)].id])]
  /\ UNCHANGED <<vars, envelope, kept>>

(* seal: what the hash of the envelope covers, and the envelope.           *)
Body(r, object) ==
  LET count == Len(events[r])
  IN  [trace_hash       |-> Sha256(object),
       event_chain_head |-> IF count = 0 THEN Undefined ELSE events[r][1].id,
       event_chain_tail |-> IF count = 0 THEN Undefined ELSE events[r][count].id,
       event_count      |-> count]

WithHash(body) == [k \in DOMAIN body \cup {"content_hash"} |->
                     IF k = "content_hash" THEN Sha256(body) ELSE body[k]]

(* Mutant: the id is written to the trace before the trace is hashed.      *)
SealAfterWritingId(r) ==
  /\ r \in Range(begun) /\ ~Sealed(r)
  /\ envelope' = [envelope EXCEPT ![r] =
                     WithHash(Body(r, [steps |-> trace[r], audit_envelope |-> r]))]
  /\ UNCHANGED <<vars, events, kept>>

(* It is the last thing a governed run does.                               *)
Seal(r) ==
  /\ r \in Range(begun) /\ ~Sealed(r)
  /\ envelope' = [envelope EXCEPT ![r] = WithHash(Body(r, TraceObject(r)))]
  /\ UNCHANGED <<vars, events, kept>>

Keep(r) ==
  /\ Sealed(r) /\ kept[r] = <<>>
  /\ kept' = [kept EXCEPT ![r] = [object |-> AsJson(envelope[r]), damaged |-> FALSE]]
  /\ UNCHANGED <<vars, events, envelope>>

Damaged(object, k) == [object EXCEPT ![k] = @ + 1]

(* One value of the copy is not what was kept.                             *)
Damage(r) ==
  /\ kept[r] # <<>> /\ ~kept[r].damaged
  /\ \E k \in (Optional \cup {"event_count"}) \cap DOMAIN kept[r].object :
       kept' = [kept EXCEPT ![r] = [object |-> Damaged(@.object, k), damaged |-> TRUE]]
  /\ UNCHANGED <<vars, events, envelope>>

AuditNext ==
  \/ \E r \in Runs : ~Sealed(r) /\ TraceStep(r) /\ UNCHANGED record
  \/ \E r \in Governed : EmitEvent(r) \/ Seal(r) \/ Keep(r) \/ Damage(r)

AuditSpec == AuditInit /\ [][AuditNext]_avars
-----------------------------------------------------------------------------
Verify(object) == Sha256(Without(object, {"content_hash"})) = object.content_hash

(* From the tail of the chain, count - 1 parents lead to its head.         *)
Spells(r, e) ==
  IF e.event_count = 0 THEN \A k \in Optional : e[k] = Undefined
  ELSE \E at \in [1 .. e.event_count -> DOMAIN events[r]] :
         /\ at[1] = e.event_chain_tail /\ at[e.event_count] = e.event_chain_head
         /\ \A i \in 2 .. e.event_count : at[i] = events[r][at[i - 1]].parent
         /\ events[r][e.event_chain_head].parent = 0

(* The record of a sealed run agrees with itself, whatever is emitted to   *)
(* the engine and by other runs later: the envelope verifies; its chain is *)
(* that of the events before the seal; its trace hash is the hash of the   *)
(* trace that is returned, without the id that was written last            *)
(* (audit-engine.ts:143-192); and a copy that verifies was not damaged.    *)
SealedRecordAgrees ==
  \A r \in Governed :
    /\ Sealed(r) =>
         /\ Verify(envelope[r])
         /\ Spells(r, envelope[r])
         /\ envelope[r].trace_hash = Sha256(Without(TraceObject(r), {"audit_envelope"}))
    /\ kept[r] # <<>> =>
         /\ kept[r].damaged => ~Verify(kept[r].object)
         /\ ~kept[r].damaged /\ envelope[r].event_count > 0 => Verify(kept[r].object)

(* "The audit envelope is a single JSON object that says: [...] and a hash *)
(* proving none of it was tampered with" (docs/eli5_guide.md:46): what was *)
(* kept as JSON, and not touched, verifies.                                *)
StoredEnvelopeVerifies ==
  \A r \in Governed : kept[r] # <<>> /\ ~kept[r].damaged => Verify(kept[r].object)
=============================================================================
