----------------------------- MODULE ToolRegistry -----------------------------
(***************************************************************************)
(* ToolRegistry (core/tool-registry.ts) under concurrent calls: runs that  *)
(* share a registry await it at the same time, tools are registered anew   *)
(* while calls are in flight, permissions end, and handlers outlive their  *)
(* timeout.                                                                *)
(*                                                                         *)
(* One tool name is modelled: the maps of the registry are keyed by name   *)
(* and a call touches only its own.  What is shared by all names is the    *)
(* validator factory, the dynamic import of ajv.  A contract is the number *)
(* of the registration it came with.                                       *)
(***************************************************************************)
EXTENDS Integers, Sequences

CONSTANTS Calls,             \* calls made over the life of the registry
          Args,              \* arguments a call may carry
          MaxRegistrations,  \* bound on the registrations of the name
          Accepts,           \* Accepts[n]: arguments the schema of contract n admits
          Broken,            \* contracts whose schema does not compile
          InScope,           \* arguments the granted scope permits
          Authorities,       \* the kinds of authority callers bring
          Categories         \* error categories that handlers return themselves

Contracts == 1 .. MaxRegistrations

(* Standing authority, or none; a receipt with the question whether its    *)
(* permission is still valid, or without; one that lacks its permission or *)
(* its scope.                                                              *)
Authority == {"standing", "receipt", "unwatched", "incomplete"}

ErrorCategory == {"timeout", "invalid_input", "not_found", "permission_denied",
                  "rate_limit", "internal_error", "unknown"}

ASSUME RegistryAssumption == /\ MaxRegistrations \in Nat
                             /\ Accepts \in [Contracts -> SUBSET Args]
                             /\ Broken \subseteq Contracts
                             /\ InScope \subseteq Args
                             /\ Authorities \subseteq Authority
                             /\ Categories \subseteq ErrorCategory

VARIABLES registered,  \* the number of registrations so far
          factory,     \* validatorFactoryPromise: "none", "loading", "ready" or "failed"
          cache,       \* argValidators.get(name): a contract, or 0
          waiting,     \* the calls that await the factory, in order
          stage,       \* where each call is suspended
          args,        \* what it was called with
          authority,   \* and under which authority
          entry,       \* the contract and handler it looked up
          validator,   \* the contract its arguments are validated against
          valid,       \* whether its permission is valid
          answer,      \* what the caller got: "success", a category or a rejection
          started,     \* calls whose handler was started
          finished     \* calls whose handler ran to its end

vars == <<registered, factory, cache, waiting, stage, args, authority, entry,
          validator, valid, answer, started, finished>>
request == <<args, authority>>

Stage == {"idle", "compiling", "validating", "authorising", "running", "done"}

Answer == {"success", "rejected"} \cup ErrorCategory

Init ==
  /\ registered = 0 /\ factory = "none" /\ cache = 0 /\ waiting = <<>>
  /\ stage = [k \in Calls |-> "idle"]
  /\ args \in [Calls -> Args] /\ authority \in [Calls -> Authorities]
  /\ entry = [k \in Calls |-> 0] /\ validator = [k \in Calls |-> 0]
  /\ valid = [k \in Calls |-> TRUE]
  /\ answer = [k \in Calls |-> "none"]
  /\ started = {} /\ finished = {}
-----------------------------------------------------------------------------
MoveTo(k, point) == stage' = [stage EXCEPT ![k] = point]

AnswerWith(k, a) == MoveTo(k, "done") /\ answer' = [answer EXCEPT ![k] = a]

(* A registration replaces contract and handler; the validator that was    *)
(* compiled for the name stays.                                            *)
Register ==
  /\ registered < MaxRegistrations
  /\ registered' = registered + 1
  /\ UNCHANGED <<factory, cache, waiting, stage, request, entry, validator, valid,
                 answer, started, finished>>

(* Blocked by the sandbox, or not registered.                              *)
CallTurnedAway(k) ==
  /\ stage[k] = "idle"
  /\ \/ AnswerWith(k, "permission_denied")
     \/ (registered = 0 /\ AnswerWith(k, "not_found"))
  /\ UNCHANGED <<registered, factory, cache, waiting, request, entry, validator, valid,
                 started, finished>>

(* The entry is looked up once; so is the cached validator.                *)
CallCached(k) ==
  /\ stage[k] = "idle" /\ registered > 0 /\ cache # 0
  /\ entry' = [entry EXCEPT ![k] = registered]
  /\ validator' = [validator EXCEPT ![k] = cache]
  /\ MoveTo(k, "validating")
  /\ UNCHANGED <<registered, factory, cache, waiting, request, valid, answer, started, finished>>

CallUncached(k) ==
  /\ stage[k] = "idle" /\ registered > 0 /\ cache = 0
  /\ entry' = [entry EXCEPT ![k] = registered]
  /\ factory' = IF factory = "none" THEN "loading" ELSE factory
  /\ waiting' = Append(waiting, k)
  /\ MoveTo(k, "compiling")
  /\ UNCHANGED <<registered, cache, request, validator, valid, answer, started, finished>>

(* The import of ajv ends, for every call that awaits it.                  *)
FactoryLoads ==
  /\ factory = "loading"
  /\ factory' \in {"ready", "failed"}
  /\ UNCHANGED <<registered, cache, waiting, stage, request, entry, validator, valid,
                 answer, started, finished>>

(* Mutant: every call imports ajv by itself, and imports end in any order. *)
ResumedInAnyOrder(k) ==
  \E n \in 1 .. Len(waiting) :
    k = waiting[n] /\ waiting' = SubSeq(waiting, 1, n - 1) \o SubSeq(waiting, n + 1, Len(waiting))

(* Calls that await the same promise are resumed in the order they came.   *)
Resumed(k) == waiting # <<>> /\ k = Head(waiting) /\ waiting' = Tail(waiting)

(* Mutant: the contract is looked up again after the await.                *)
CompileNewest(k) ==
  /\ factory = "ready" /\ Resumed(k) /\ registered \notin Broken
  /\ cache' = registered
  /\ validator' = [validator EXCEPT ![k] = registered]
  /\ MoveTo(k, "validating")
  /\ UNCHANGED <<registered, factory, request, entry, valid, answer, started, finished>>

(* The cache is not read again: each call compiles its own contract.       *)
Compile(k) ==
  /\ factory = "ready" /\ Resumed(k) /\ entry[k] \notin Broken
  /\ cache' = entry[k]
  /\ validator' = [validator EXCEPT ![k] = entry[k]]
  /\ MoveTo(k, "validating")
  /\ UNCHANGED <<registered, factory, request, entry, valid, answer, started, finished>>

(* The promise the caller awaits rejects.                                  *)
CompileFails(k) ==
  /\ Resumed(k)
  /\ (factory = "failed" \/ (factory = "ready" /\ entry[k] \in Broken))
  /\ AnswerWith(k, "rejected")
  /\ UNCHANGED <<registered, factory, cache, request, entry, validator, valid, started, finished>>

ValidateArguments(k) ==
  /\ stage[k] = "validating"
  /\ IF args[k] \in Accepts[validator[k]]
     THEN MoveTo(k, "authorising") /\ UNCHANGED answer
     ELSE AnswerWith(k, "invalid_input")
  /\ UNCHANGED <<registered, factory, cache, waiting, request, entry, validator, valid,
                 started, finished>>

(* The permission of a call ends: consumed, expired or revoked.            *)
PermissionEnds(k) ==
  /\ authority[k] = "receipt" /\ valid[k] /\ stage[k] # "done"
  /\ valid' = [valid EXCEPT ![k] = FALSE]
  /\ UNCHANGED <<registered, factory, cache, waiting, stage, request, entry, validator,
                 answer, started, finished>>

(* Without a receipt nothing is asked; of a receipt, whether its permission*)
(* is valid, if the caller said how to ask, and whether its scope permits  *)
(* the call.                                                               *)
Authorised(k) ==
  \/ authority[k] = "standing"
  \/ /\ authority[k] \in {"receipt", "unwatched"}
     /\ authority[k] = "receipt" => valid[k]
     /\ args[k] \in InScope

RefuseAuthority(k) ==
  /\ stage[k] = "authorising" /\ ~Authorised(k)
  /\ AnswerWith(k, "permission_denied")
  /\ UNCHANGED <<registered, factory, cache, waiting, request, entry, validator, valid,
                 started, finished>>

StartHandler(k) ==
  /\ stage[k] = "authorising" /\ Authorised(k)
  /\ started' = started \cup {k}
  /\ MoveTo(k, "running")
  /\ UNCHANGED <<registered, factory, cache, waiting, request, entry, validator, valid,
                 answer, finished>>

(* The result of the handler, which may name any category itself, or what  *)
(* is made of an error it threw, by the first word of its message.         *)
HandlerAnswers == {"success", "internal_error", "timeout"} \cup Categories

(* Mutant: the result is returned whether the race was won or lost.        *)
HandlerEndsAnyTime(k) ==
  /\ k \in started \ finished
  /\ finished' = finished \cup {k}
  /\ \E a \in HandlerAnswers : AnswerWith(k, a)
  /\ UNCHANGED <<registered, factory, cache, waiting, request, entry, validator, valid, started>>

(* The handler wins the race ...                                           *)
HandlerEnds(k) ==
  /\ stage[k] = "running"
  /\ finished' = finished \cup {k}
  /\ \E a \in HandlerAnswers : AnswerWith(k, a)
  /\ UNCHANGED <<registered, factory, cache, waiting, request, entry, validator, valid, started>>

(* Mutant: there is no timer.                                              *)
TimerNeverEnds(k) == stage[k] = "running" /\ UNCHANGED vars

(* ... or the timer does, and the handler goes on by itself.               *)
TimerEnds(k) ==
  /\ stage[k] = "running"
  /\ AnswerWith(k, "timeout")
  /\ UNCHANGED <<registered, factory, cache, waiting, request, entry, validator, valid,
                 started, finished>>

LateHandlerEnds(k) ==
  /\ stage[k] = "done" /\ k \in started \ finished
  /\ finished' = finished \cup {k}
  /\ UNCHANGED <<registered, factory, cache, waiting, stage, request, entry, validator,
                 valid, answer, started>>

CallStep(k) ==
  \/ Compile(k) \/ CompileFails(k) \/ ValidateArguments(k)
  \/ RefuseAuthority(k) \/ StartHandler(k) \/ TimerEnds(k)

Next ==
  \/ Register \/ FactoryLoads
  \/ \E k \in Calls : \/ CallTurnedAway(k) \/ CallCached(k) \/ CallUncached(k)
                      \/ CallStep(k) \/ HandlerEnds(k)
                      \/ LateHandlerEnds(k) \/ PermissionEnds(k)

Spec == Init /\ [][Next]_vars

(* The import ends, the event loop resumes what can be resumed, and timers *)
(* go off; that a handler ends, or a call is made, is not assumed.         *)
FairSpec == Spec /\ WF_vars(FactoryLoads) /\ \A k \in Calls : WF_vars(CallStep(k))
-----------------------------------------------------------------------------
(* Whatever is compiled concurrently, a handler is started only with       *)
(* arguments admitted by a contract registered under its name no later     *)
(* than its own, and that compiles.  It need not be its own: "dispatches   *)
(* calls with contract validation" (tool-registry.ts:4), but the validator *)
(* outlives the registration it was compiled for (tool-registry.ts:229-241)*)
StartedOnAnEarlierContract ==
  \A k \in started : /\ validator[k] \in 1 .. entry[k] \ Broken
                     /\ args[k] \in Accepts[validator[k]]

(* No call is validated against an older contract than a call before it    *)
(* was, however calls that missed the cache together and registrations are *)
(* interleaved: whoever compiles last has the newest contract, because the *)
(* calls that wait are resumed in order (tool-registry.ts:229-241).        *)
ValidatorsOnlyGetNewer ==
  [][\A k, l \in Calls : validator'[k] # validator[k] => validator'[k] >= validator[l]]_vars

(* The caller has one answer, which a late handler does not change, and    *)
(* after which no handler is started for it.  A call whose promise rejects *)
(* has done nothing; a success is that of a handler which ran to its end.  *)
(* Of an error the caller cannot tell whether the handler has run: it may  *)
(* return any category itself (tool-registry.ts:107-124).                  *)
AnswerIsFinal ==
  [][\A k \in Calls :
       /\ answer[k] # "none" => answer'[k] = answer[k] /\ (k \in started' => k \in started)
       /\ answer'[k] = "rejected" => k \notin started'
       /\ answer'[k] = "success" => k \in finished']_vars

(* A call that was taken is answered, from whatever handler.               *)
CallsAreAnswered == \A k \in Calls : stage[k] # "idle" ~> answer[k] # "none"
=============================================================================
