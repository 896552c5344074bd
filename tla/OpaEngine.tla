------------------------------ MODULE OpaEngine ------------------------------
(***************************************************************************)
(* OpaPolicyEngine (governance/opa-policy-engine.ts): the operations of a  *)
(* policy engine, each of them one or more HTTP queries to an OPA server   *)
(* that has its rules replaced meanwhile.  A query races with a timer      *)
(* which also covers the reading of the answer; whatever goes wrong turns  *)
(* it over to a fallback engine, or into a denial.                         *)
(*                                                                         *)
(* An operation is a record [id, kind, resources]: "evaluate" a request    *)
(* for a resource, "consult" about a phase, or "preview" tools.  A query   *)
(* is a pair of an operation and a resource; evaluate is one query whose   *)
(* verdict is returned as it is.                                           *)
(***************************************************************************)
EXTENDS Integers

CONSTANTS Operations,   \* the operations, called once each
          Rules,        \* Rules[version][resource]: what the server's rules give
          Fallbacks,    \* what fallback engines decide of each resource, by engine
          NoFallback,   \* the engine that is none
          Hidden        \* the tools the sandbox does not allow

(* A status nobody tests for is a decision, too.                           *)
Decisions == {"approved", "narrowed", "escalated", "denied", "unrecognised"}

(* No rule for the input, a result without a status, or no object at all.  *)
Results == Decisions \cup {"undefined"}

Versions == DOMAIN Rules
Topics == UNION {o.resources : o \in Operations}

ASSUME OpaAssumption ==
  /\ 1 \in Versions /\ Versions \subseteq Nat
  /\ \A v \in Versions : Rules[v] \in [Topics -> Results]
  /\ \A f \in DOMAIN Fallbacks : Fallbacks[f] \in [Topics -> Decisions \cup {"rejected"}]
  /\ \A r \in Topics : Fallbacks[NoFallback][r] = "denied"

(* What an operation asks the server about.                                *)
Asks(o) == IF o.kind = "preview" THEN o.resources \ Hidden ELSE o.resources

Queries == UNION {{<<o, r>> : r \in Asks(o)} : o \in Operations}

VARIABLES fallback, \* the configured fallback engine
          version,  \* of the rules on the server
          since,    \* of each query, the version it was sent under, 0 before
          stage,    \* of each query: idle, sent, reading, fallback or settled
          wire,     \* what the server has answered to it, or "none"
          verdict   \* what it settled on, or "none"

opaVars == <<fallback, version, since, stage, wire, verdict>>

OpaInit ==
  /\ fallback \in DOMAIN Fallbacks
  /\ version = 1
  /\ since = [q \in Queries |-> 0]
  /\ stage = [q \in Queries |-> "idle"]
  /\ wire = [q \in Queries |-> "none"]
  /\ verdict = [q \in Queries |-> "none"]
-----------------------------------------------------------------------------
(* The server's side: rules are replaced, a query is answered or fails     *)
(* there, whether or not anybody still waits for it.                       *)
Replace ==
  /\ version + 1 \in Versions
  /\ version' = version + 1
  /\ UNCHANGED <<fallback, since, stage, wire, verdict>>

Serve(q) ==
  /\ since[q] # 0 /\ wire[q] = "none"
  /\ \E result \in {Rules[version][q[2]], "http_error"} : wire' = [wire EXCEPT ![q] = result]
  /\ UNCHANGED <<fallback, version, since, stage, verdict>>

(* The operation is called: all its queries are sent before any is waited  *)
(* for, each with a timer of its own.                                      *)
Call(o) ==
  /\ \A r \in Asks(o) : stage[<<o, r>>] = "idle"
  /\ stage' = [q \in Queries |-> IF q[1] = o THEN "sent" ELSE stage[q]]
  /\ since' = [q \in Queries |-> IF q[1] = o THEN version ELSE since[q]]
  /\ UNCHANGED <<fallback, version, wire, verdict>>

Settle(q, v) ==
  /\ stage' = [stage EXCEPT ![q] = "settled"]
  /\ verdict' = [verdict EXCEPT ![q] = v]

(* The catch clause of evaluate.                                           *)
Fail(q) ==
  IF fallback = NoFallback THEN Settle(q, "denied")
  ELSE stage' = [stage EXCEPT ![q] = "fallback"] /\ UNCHANGED verdict

(* fetch resolves with the head of the answer; its body is still to come.  *)
Headers(q) ==
  /\ stage[q] = "sent" /\ wire[q] # "none"
  /\ stage' = [stage EXCEPT ![q] = "reading"]
  /\ UNCHANGED <<fallback, version, since, wire, verdict>>

(* Mutant: the timer races the query without calling it off.               *)
BodyBehindTheTimer(q) ==
  /\ stage[q] \in {"reading", "fallback"} /\ wire[q] # "none"
  /\ IF wire[q] \in Decisions THEN Settle(q, wire[q]) ELSE Fail(q)
  /\ UNCHANGED <<fallback, version, since, wire>>

(* toDecision takes any status; the rest throws, inside evaluate's try.    *)
Body(q) ==
  /\ stage[q] = "reading"
  /\ IF wire[q] \in Decisions THEN Settle(q, wire[q]) ELSE Fail(q)
  /\ UNCHANGED <<fallback, version, since, wire>>

Breaks(q) ==
  /\ stage[q] \in {"sent", "reading"}
  /\ Fail(q)
  /\ UNCHANGED <<fallback, version, since, wire>>

(* Mutant: the timer is cleared when fetch resolves.                       *)
TimerFiresOnFetch(q) ==
  /\ stage[q] = "sent"
  /\ Fail(q)
  /\ UNCHANGED <<fallback, version, since, wire>>

TimerFires(q) ==
  /\ stage[q] \in {"sent", "reading"}
  /\ Fail(q)
  /\ UNCHANGED <<fallback, version, since, wire>>

(* The fallback decides, or rejects; what OPA answers by now is ignored.   *)
FallbackAnswers(q) ==
  /\ stage[q] = "fallback"
  /\ Settle(q, Fallbacks[fallback][q[2]])
  /\ UNCHANGED <<fallback, version, since, wire>>

Done == (\A q \in Queries : stage[q] = "settled") /\ UNCHANGED opaVars

QueryStep(q) == Headers(q) \/ Body(q) \/ Breaks(q) \/ TimerFires(q) \/ FallbackAnswers(q)

OpaNext ==
  \/ Replace \/ Done
  \/ \E o \in Operations : Call(o)
  \/ \E q \in Queries : Serve(q) \/ QueryStep(q)

OpaSpec == OpaInit /\ [][OpaNext]_opaVars

(* Timers go off and the fallback engine answers; nothing is assumed of    *)
(* the server, nor that an answer ever arrives.                            *)
OpaFairSpec ==
  /\ OpaSpec
  /\ \A q \in Queries : WF_opaVars(TimerFires(q)) /\ WF_opaVars(FallbackAnswers(q))
-----------------------------------------------------------------------------
Called(o) == \A r \in Asks(o) : stage[<<o, r>>] # "idle"

Rejected(o) == \E r \in Asks(o) : verdict[<<o, r>>] = "rejected"

(* Promise.all rejects with the first that does, and waits for all others. *)
Answered(o) == Rejected(o) \/ \A r \in Asks(o) : stage[<<o, r>>] = "settled"

(* consultPhase: what is not a refusal opens the phase.                    *)
Opens(o) ==
  /\ Answered(o) /\ ~Rejected(o)
  /\ \A r \in Asks(o) : verdict[<<o, r>>] \notin {"denied", "escalated"}

(* Mutant: a status nobody tests for shows the tool.                       *)
LevelUnlessDenied(v) ==
  CASE v = "approved" -> "pre_authorized"
    [] v = "denied"   -> "blocked"
    [] OTHER          -> "requires_delegation"

(* toToolAccessPreview: what is not a known permission hides the tool.     *)
Level(v) ==
  CASE v = "approved"                  -> "pre_authorized"
    [] v \in {"narrowed", "escalated"} -> "requires_delegation"
    [] OTHER                           -> "blocked"

PreviewOf(o) ==
  [tool \in o.resources |-> IF tool \in Hidden THEN "blocked" ELSE Level(verdict[<<o, tool>>])]

Oracle == INSTANCE PolicyOracle WITH
            Questions  <- Queries,
            Decides    <- [v \in Versions |-> [q \in Queries |-> Rules[v][q[2]]]],
            Decisions  <- Decisions,
            answer     <- verdict,
            abandoned  <- {q \in Queries : stage[q] = "fallback"},
            substitute <- [q \in Queries |-> Fallbacks[fallback][q[2]]]

(* The engine implements PolicyOracle: no query is answered twice, by rules*)
(* that were replaced before it was sent, by OPA once the fallback has been*)
(* asked, or by anybody but these two (opa-policy-engine.ts:49-72).        *)
KeepsTheOracle == Oracle!OSpec

(* "fails closed when OPA result is invalid" (policy-engine.test.ts:206):  *)
(* an engine without a fallback opens a phase, or offers a tool, only when *)
(* rules in force during the operation say so of it.  A status nobody      *)
(* tests for never offers a tool, but does open a phase                    *)
(* (opa-policy-engine.ts:89-102, 261-290).                                 *)
FailsClosed ==
  fallback = NoFallback =>
    \A o \in Operations :
      LET Said(r, allowed) == \E v \in since[<<o, r>>] .. version : Rules[v][r] \in allowed
      IN  (Called(o) /\ Answered(o)) =>
            /\ (o.kind = "consult" /\ Opens(o)) =>
                 \A r \in o.resources : Said(r, {"approved", "narrowed", "unrecognised"})
            /\ o.kind = "preview" =>
                 \A r \in o.resources : PreviewOf(o)[r] # "blocked" =>
                   r \notin Hidden /\ Said(r, {"approved", "narrowed", "escalated"})

(* Every operation that is called is answered, or rejected by the fallback,*)
(* whatever the server does: nothing, too much, or half an answer.         *)
CallsAreAnswered == \A o \in Operations : Called(o) ~> Answered(o)
=============================================================================
