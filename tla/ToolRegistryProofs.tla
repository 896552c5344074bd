-------------------------- MODULE ToolRegistryProofs --------------------------
(***************************************************************************)
(* Theorems about ToolRegistry, for any calls, any contracts and any       *)
(* number of registrations.                                                *)
(*                                                                         *)
(* A call is followed through its awaits: CallInv says what is known of it *)
(* at each.  What other calls do to it goes through the cache and through  *)
(* the queue of those that wait for the validator factory.                 *)
(***************************************************************************)
EXTENDS ToolRegistry, TLAPS

TypeOK ==
  /\ registered \in 0 .. MaxRegistrations
  /\ factory \in {"none", "loading", "ready", "failed"}
  /\ cache \in 0 .. MaxRegistrations
  /\ waiting \in Seq(Calls)
  /\ stage \in [Calls -> Stage]
  /\ args \in [Calls -> Args] /\ authority \in [Calls -> Authorities]
  /\ entry \in [Calls -> 0 .. MaxRegistrations]
  /\ validator \in [Calls -> 0 .. MaxRegistrations]
  /\ valid \in [Calls -> BOOLEAN]
  /\ answer \in [Calls -> Answer \cup {"none"}]
  /\ started \subseteq Calls /\ finished \subseteq started

(* Only calls that wait are in the queue, each of them once.               *)
QueueInv ==
  /\ \A n \in 1 .. Len(waiting) : stage[waiting[n]] = "compiling"
  /\ \A m, n \in 1 .. Len(waiting) : waiting[m] = waiting[n] => m = n

(* What is cached was compiled for a contract that has been registered.    *)
CacheInv == cache # 0 => cache \in 1 .. registered \ Broken

Admissible(k) == validator[k] \in 1 .. entry[k] \ Broken

CallInv(k) ==
  /\ entry[k] <= registered
  /\ stage[k] \notin {"idle", "done"} => entry[k] > 0
  /\ stage[k] \in {"validating", "authorising", "running"} => Admissible(k)
  /\ stage[k] = "authorising" \/ k \in started => Admissible(k) /\ args[k] \in Accepts[validator[k]]
  /\ answer[k] = "none" <=> stage[k] # "done"
  /\ k \in started => stage[k] \in {"running", "done"}
  /\ stage[k] = "running" => k \in started
  /\ answer[k] = "rejected" => k \notin started
  /\ answer[k] = "success" => k \in finished

IInv == TypeOK /\ QueueInv /\ CacheInv /\ \A k \in Calls : CallInv(k)
-----------------------------------------------------------------------------
LEMMA InitIInv == Init => IInv
  <1> SUFFICES ASSUME Init PROVE IInv
    OBVIOUS
  <1> USE RegistryAssumption DEF Init
  <1>1. TypeOK
    BY DEF TypeOK, Stage, Answer
  <1>2. QueueInv /\ CacheInv
    BY DEF QueueInv, CacheInv
  <1>3. ASSUME NEW k \in Calls PROVE CallInv(k)
    BY DEF CallInv
  <1>4. QED
    BY <1>1, <1>2, <1>3 DEF IInv

(* The queue stays what it is when its head is taken off, or when a call   *)
(* that did not wait is put at its end.                                    *)
LEMMA TailOfQueue ==
  ASSUME NEW q \in Seq(Calls), q # <<>>,
         \A m, n \in 1 .. Len(q) : q[m] = q[n] => m = n
  PROVE  /\ Tail(q) \in Seq(Calls) /\ Head(q) \in Calls
         /\ \A m, n \in 1 .. Len(Tail(q)) : Tail(q)[m] = Tail(q)[n] => m = n
         /\ \A n \in 1 .. Len(Tail(q)) : /\ Tail(q)[n] # Head(q)
                                         /\ \E m \in 1 .. Len(q) : Tail(q)[n] = q[m]
  <1>1. /\ Tail(q) \in Seq(Calls) /\ Len(Tail(q)) = Len(q) - 1 /\ Len(q) \in Nat \ {0}
        /\ \A n \in 1 .. Len(q) - 1 : Tail(q)[n] = q[n + 1]
        /\ Head(q) = q[1] /\ q[1] \in Calls
    OBVIOUS
  <1>2. QED
    BY <1>1

LEMMA EndOfQueue ==
  ASSUME NEW q \in Seq(Calls), NEW k \in Calls,
         \A n \in 1 .. Len(q) : q[n] # k,
         \A m, n \in 1 .. Len(q) : q[m] = q[n] => m = n
  PROVE  /\ Append(q, k) \in Seq(Calls)
         /\ \A m, n \in 1 .. Len(Append(q, k)) : Append(q, k)[m] = Append(q, k)[n] => m = n
         /\ \A n \in 1 .. Len(Append(q, k)) :
              Append(q, k)[n] = k \/ \E m \in 1 .. Len(q) : Append(q, k)[n] = q[m]
  <1>1. /\ Append(q, k) \in Seq(Calls) /\ Len(Append(q, k)) = Len(q) + 1 /\ Len(q) \in Nat
        /\ \A n \in 1 .. Len(q) : Append(q, k)[n] = q[n]
        /\ Append(q, k)[Len(q) + 1] = k
    OBVIOUS
  <1>2. QED
    BY <1>1
-----------------------------------------------------------------------------
LEMMA ResumedWaits ==
  ASSUME TypeOK, QueueInv, NEW c \in Calls, Resumed(c)
  PROVE  stage[c] = "compiling"
  BY DEF Resumed, TypeOK, QueueInv

LEMMA NextIInv == IInv /\ [Next]_vars => IInv'
  <1> SUFFICES ASSUME IInv, [Next]_vars PROVE IInv'
    OBVIOUS
  <1> USE RegistryAssumption DEF request
  <1>0. /\ TypeOK /\ QueueInv /\ CacheInv
        /\ \A k \in Calls : CallInv(k)
    BY DEF IInv
  <1>1. CASE Register
    <2>1. TypeOK'
      BY <1>0, <1>1 DEF TypeOK, Register
    <2>2. QueueInv' /\ CacheInv'
      BY <1>0, <1>1 DEF QueueInv, CacheInv, TypeOK, Register
    <2>3. ASSUME NEW k \in Calls PROVE CallInv(k)'
      BY <1>0, <1>1 DEF CallInv, Admissible, TypeOK, Register
    <2>4. QED
      BY <2>1, <2>2, <2>3 DEF IInv
  <1>2. CASE FactoryLoads
    <2>1. TypeOK' /\ QueueInv' /\ CacheInv'
      BY <1>0, <1>2 DEF TypeOK, QueueInv, CacheInv, FactoryLoads
    <2>2. ASSUME NEW k \in Calls PROVE CallInv(k)'
      BY <1>0, <1>2 DEF CallInv, Admissible, FactoryLoads
    <2>3. QED
      BY <2>1, <2>2 DEF IInv
  <1>3. ASSUME NEW c \in Calls, CallTurnedAway(c) PROVE IInv'
    <2>1. TypeOK'
      BY <1>0, <1>3 DEF TypeOK, CallTurnedAway, AnswerWith, MoveTo, Stage, Answer, ErrorCategory
    <2>2. QueueInv' /\ CacheInv'
      BY <1>0, <1>3 DEF TypeOK, QueueInv, CacheInv, CallTurnedAway, AnswerWith, MoveTo
    <2>3. ASSUME NEW k \in Calls PROVE CallInv(k)'
      BY <1>0, <1>3 DEF CallInv, Admissible, TypeOK, CallTurnedAway, AnswerWith, MoveTo
    <2>4. QED
      BY <2>1, <2>2, <2>3 DEF IInv
  <1>4. ASSUME NEW c \in Calls, CallCached(c) PROVE IInv'
    <2>1. TypeOK'
      BY <1>0, <1>4 DEF TypeOK, CallCached, MoveTo, Stage
    <2>2. QueueInv' /\ CacheInv'
      BY <1>0, <1>4 DEF TypeOK, QueueInv, CacheInv, CallCached, MoveTo
    <2>3. ASSUME NEW k \in Calls PROVE CallInv(k)'
      BY <1>0, <1>4 DEF CallInv, CacheInv, Admissible, TypeOK, CallCached, MoveTo
    <2>4. QED
      BY <2>1, <2>2, <2>3 DEF IInv
  <1>5. ASSUME NEW c \in Calls, CallUncached(c) PROVE IInv'
    <2>1. \A n \in 1 .. Len(waiting) : waiting[n] # c
      BY <1>0, <1>5 DEF QueueInv, CallUncached
    <2>2. /\ waiting' \in Seq(Calls)
          /\ \A m, n \in 1 .. Len(waiting') : waiting'[m] = waiting'[n] => m = n
          /\ \A n \in 1 .. Len(waiting') :
               waiting'[n] = c \/ \E m \in 1 .. Len(waiting) : waiting'[n] = waiting[m]
      BY <1>0, <1>5, <2>1, EndOfQueue DEF TypeOK, QueueInv, CallUncached
    <2>3. TypeOK'
      BY <1>0, <1>5, <2>2 DEF TypeOK, CallUncached, MoveTo, Stage
    <2>4. QueueInv'
      <3>1. ASSUME NEW n \in 1 .. Len(waiting') PROVE stage'[waiting'[n]] = "compiling"
        BY <1>0, <1>5, <2>2 DEF TypeOK, QueueInv, CallUncached, MoveTo
      <3>2. QED
        BY <2>2, <3>1 DEF QueueInv
    <2>5. CacheInv'
      BY <1>0, <1>5 DEF CacheInv, CallUncached
    <2>6. ASSUME NEW k \in Calls PROVE CallInv(k)'
      BY <1>0, <1>5 DEF CallInv, Admissible, TypeOK, CallUncached, MoveTo
    <2>7. QED
      BY <2>3, <2>4, <2>5, <2>6 DEF IInv
  <1>6. ASSUME NEW c \in Calls, Resumed(c)
        PROVE  /\ stage[c] = "compiling"
               /\ waiting' \in Seq(Calls)
               /\ (\A k \in Calls \ {c} : stage'[k] = stage[k]) => QueueInv'
    <2>1. /\ waiting \in Seq(Calls) /\ waiting # <<>>
          /\ c = Head(waiting) /\ waiting' = Tail(waiting)
          /\ \A m, n \in 1 .. Len(waiting) : waiting[m] = waiting[n] => m = n
          /\ \A n \in 1 .. Len(waiting) : stage[waiting[n]] = "compiling" /\ waiting[n] \in Calls
      BY <1>0, <1>6 DEF Resumed, TypeOK, QueueInv
    <2>2. stage[c] = "compiling"
      BY <2>1
    <2>3. /\ waiting' \in Seq(Calls)
          /\ \A m, n \in 1 .. Len(waiting') : waiting'[m] = waiting'[n] => m = n
          /\ \A n \in 1 .. Len(waiting') : /\ waiting'[n] # c
                                           /\ \E m \in 1 .. Len(waiting) : waiting'[n] = waiting[m]
      BY <2>1, TailOfQueue
    <2>4. QED
      BY <2>1, <2>2, <2>3 DEF QueueInv
  <1>7. ASSUME NEW c \in Calls, Compile(c) PROVE IInv'
    <2>1. stage[c] = "compiling" /\ waiting' \in Seq(Calls) /\ QueueInv'
      BY <1>0, <1>6, <1>7 DEF Compile, MoveTo, TypeOK
    <2>2. TypeOK'
      BY <1>0, <1>7, <2>1 DEF TypeOK, Compile, MoveTo, Stage
    <2>3. CacheInv'
      BY <1>0, <1>7, <2>1 DEF CallInv, CacheInv, TypeOK, Compile
    <2>4. ASSUME NEW k \in Calls PROVE CallInv(k)'
      BY <1>0, <1>7, <2>1 DEF CallInv, Admissible, TypeOK, Compile, MoveTo
    <2>5. QED
      BY <2>1, <2>2, <2>3, <2>4 DEF IInv
  <1>8. ASSUME NEW c \in Calls, CompileFails(c) PROVE IInv'
    <2>1. stage[c] = "compiling" /\ waiting' \in Seq(Calls) /\ QueueInv'
      BY <1>0, <1>6, <1>8 DEF CompileFails, AnswerWith, MoveTo, TypeOK
    <2>2. TypeOK'
      BY <1>0, <1>8, <2>1 DEF TypeOK, CompileFails, AnswerWith, MoveTo, Stage, Answer, ErrorCategory
    <2>3. CacheInv'
      BY <1>0, <1>8 DEF CacheInv, CompileFails
    <2>4. ASSUME NEW k \in Calls PROVE CallInv(k)'
      BY <1>0, <1>8, <2>1
      DEF CallInv, Admissible, TypeOK, CompileFails, AnswerWith, MoveTo
    <2>5. QED
      BY <2>1, <2>2, <2>3, <2>4 DEF IInv
  <1>9. ASSUME NEW c \in Calls, ValidateArguments(c) PROVE IInv'
    <2>1. TypeOK'
      BY <1>0, <1>9 DEF TypeOK, ValidateArguments, AnswerWith, MoveTo, Stage, Answer, ErrorCategory
    <2>2. QueueInv' /\ CacheInv'
      BY <1>0, <1>9 DEF TypeOK, QueueInv, CacheInv, ValidateArguments, AnswerWith, MoveTo
    <2>3. ASSUME NEW k \in Calls PROVE CallInv(k)'
      BY <1>0, <1>9
      DEF CallInv, Admissible, TypeOK, ValidateArguments, AnswerWith, MoveTo
    <2>4. QED
      BY <2>1, <2>2, <2>3 DEF IInv
  <1>10. ASSUME NEW c \in Calls, RefuseAuthority(c) PROVE IInv'
    <2>1. TypeOK'
      BY <1>0, <1>10 DEF TypeOK, RefuseAuthority, AnswerWith, MoveTo, Stage, Answer, ErrorCategory
    <2>2. QueueInv' /\ CacheInv'
      BY <1>0, <1>10 DEF TypeOK, QueueInv, CacheInv, RefuseAuthority, AnswerWith, MoveTo
    <2>3. ASSUME NEW k \in Calls PROVE CallInv(k)'
      BY <1>0, <1>10
      DEF CallInv, Admissible, TypeOK, RefuseAuthority, AnswerWith, MoveTo
    <2>4. QED
      BY <2>1, <2>2, <2>3 DEF IInv
  <1>11. ASSUME NEW c \in Calls, StartHandler(c) PROVE IInv'
    <2>1. TypeOK'
      BY <1>0, <1>11 DEF TypeOK, StartHandler, MoveTo, Stage
    <2>2. QueueInv' /\ CacheInv'
      BY <1>0, <1>11 DEF TypeOK, QueueInv, CacheInv, StartHandler, MoveTo
    <2>3. ASSUME NEW k \in Calls PROVE CallInv(k)'
      BY <1>0, <1>11 DEF CallInv, Admissible, TypeOK, StartHandler, MoveTo
    <2>4. QED
      BY <2>1, <2>2, <2>3 DEF IInv
  <1>12. ASSUME NEW c \in Calls, HandlerEnds(c) PROVE IInv'
    <2>1. TypeOK'
      BY <1>0, <1>12
      DEF TypeOK, CallInv, HandlerEnds, HandlerAnswers, AnswerWith, MoveTo, Stage, Answer,
          ErrorCategory
    <2>2. QueueInv' /\ CacheInv'
      BY <1>0, <1>12 DEF TypeOK, QueueInv, CacheInv, HandlerEnds, AnswerWith, MoveTo
    <2>3. ASSUME NEW k \in Calls PROVE CallInv(k)'
      <3>1. PICK a \in HandlerAnswers : AnswerWith(c, a)
        BY <1>12 DEF HandlerEnds
      <3>2. a # "rejected" /\ a # "none"
        BY <3>1 DEF HandlerAnswers, ErrorCategory
      <3>3. QED
        BY <1>0, <1>12, <3>1, <3>2
        DEF CallInv, Admissible, TypeOK, HandlerEnds, AnswerWith, MoveTo
    <2>4. QED
      BY <2>1, <2>2, <2>3 DEF IInv
  <1>13. ASSUME NEW c \in Calls, TimerEnds(c) PROVE IInv'
    <2>1. TypeOK'
      BY <1>0, <1>13 DEF TypeOK, TimerEnds, AnswerWith, MoveTo, Stage, Answer, ErrorCategory
    <2>2. QueueInv' /\ CacheInv'
      BY <1>0, <1>13 DEF TypeOK, QueueInv, CacheInv, TimerEnds, AnswerWith, MoveTo
    <2>3. ASSUME NEW k \in Calls PROVE CallInv(k)'
      BY <1>0, <1>13 DEF CallInv, Admissible, TypeOK, TimerEnds, AnswerWith, MoveTo
    <2>4. QED
      BY <2>1, <2>2, <2>3 DEF IInv
  <1>14. ASSUME NEW c \in Calls, LateHandlerEnds(c) \/ PermissionEnds(c) PROVE IInv'
    <2>1. TypeOK' /\ QueueInv' /\ CacheInv'
      BY <1>0, <1>14 DEF TypeOK, QueueInv, CacheInv, LateHandlerEnds, PermissionEnds
    <2>2. ASSUME NEW k \in Calls PROVE CallInv(k)'
      BY <1>0, <1>14 DEF CallInv, Admissible, LateHandlerEnds, PermissionEnds
    <2>3. QED
      BY <2>1, <2>2 DEF IInv
  <1>15. CASE UNCHANGED vars
    BY <1>15 DEF vars, IInv, TypeOK, QueueInv, CacheInv, CallInv, Admissible
  <1>16. QED
    BY <1>1, <1>2, <1>3, <1>4, <1>5, <1>7, <1>8, <1>9, <1>10, <1>11, <1>12, <1>13, <1>14, <1>15
    DEF Next, CallStep

LEMMA AlwaysIInv == Spec => []IInv
  BY InitIInv, NextIInv, PTL DEF Spec
-----------------------------------------------------------------------------
(* The registry's maps and the records of its calls keep their types.      *)
THEOREM TypeCorrect == Spec => []TypeOK
  <1>1. IInv => TypeOK
    BY DEF IInv
  <1>2. QED
    BY <1>1, AlwaysIInv, PTL

(* A handler only starts with arguments that some contract registered      *)
(* under its name, no later than its own, admits.                          *)
THEOREM ContractTheorem == Spec => []StartedOnAnEarlierContract
  <1>1. IInv => StartedOnAnEarlierContract
    BY DEF IInv, TypeOK, CallInv, Admissible, StartedOnAnEarlierContract
  <1>2. QED
    BY <1>1, AlwaysIInv, PTL

(* How the cache, the queue and the contracts of the calls are ordered: no *)
(* call is ahead of the cache, and whoever waits is not behind it.         *)
OrderInv ==
  /\ \A k \in Calls : validator[k] <= cache
  /\ \A n \in 1 .. Len(waiting) : cache <= entry[waiting[n]]
  /\ \A m, n \in 1 .. Len(waiting) : m < n => entry[waiting[m]] <= entry[waiting[n]]

(* What a call does that leaves the queue.                                 *)
LEMMA ResumedIsOldest ==
  ASSUME TypeOK, QueueInv, OrderInv, NEW c \in Calls, Resumed(c)
  PROVE  /\ cache <= entry[c]
         /\ \A n \in 1 .. Len(waiting') : /\ waiting'[n] \in Calls
                                          /\ waiting'[n] # c
                                          /\ entry[c] <= entry[waiting'[n]]
         /\ \A m, n \in 1 .. Len(waiting') : m < n => entry[waiting'[m]] <= entry[waiting'[n]]
  <1>1. /\ waiting \in Seq(Calls) /\ waiting # <<>> /\ c = Head(waiting) /\ waiting' = Tail(waiting)
        /\ \A m, n \in 1 .. Len(waiting) : waiting[m] = waiting[n] => m = n
    BY DEF TypeOK, QueueInv, Resumed
  <1>2. /\ Len(waiting) \in Nat \ {0} /\ c = waiting[1] /\ Len(waiting') = Len(waiting) - 1
        /\ \A n \in 1 .. Len(waiting) - 1 : waiting'[n] = waiting[n + 1]
        /\ \A n \in 1 .. Len(waiting) : waiting[n] \in Calls
    BY <1>1
  <1>3. ASSUME NEW n \in 1 .. Len(waiting')
        PROVE  waiting'[n] \in Calls /\ waiting'[n] # c /\ entry[c] <= entry[waiting'[n]]
    <2>1. waiting'[n] = waiting[n + 1] /\ n + 1 \in 1 .. Len(waiting) /\ 1 < n + 1
          /\ 1 \in 1 .. Len(waiting)
      BY <1>2
    <2>2. entry[waiting[1]] <= entry[waiting[n + 1]] /\ waiting[n + 1] # waiting[1]
      BY <1>1, <2>1 DEF OrderInv
    <2>3. QED
      BY <1>2, <2>1, <2>2
  <1>4. ASSUME NEW m \in 1 .. Len(waiting'), NEW n \in 1 .. Len(waiting'), m < n
        PROVE  entry[waiting'[m]] <= entry[waiting'[n]]
    <2>1. /\ waiting'[m] = waiting[m + 1] /\ m + 1 \in 1 .. Len(waiting)
          /\ waiting'[n] = waiting[n + 1] /\ n + 1 \in 1 .. Len(waiting)
          /\ m + 1 < n + 1
      BY <1>2, <1>4
    <2>2. QED
      BY <2>1 DEF OrderInv
  <1>5. cache <= entry[c]
    BY <1>2 DEF OrderInv
  <1>6. QED
    BY <1>3, <1>4, <1>5

Newer == \A k, l \in Calls : validator'[k] # validator[k] => validator'[k] >= validator[l]

LEMMA NextOrder == IInv /\ OrderInv /\ [Next]_vars => OrderInv' /\ [Newer]_vars
  <1> SUFFICES ASSUME IInv, OrderInv, [Next]_vars PROVE OrderInv' /\ (Newer \/ UNCHANGED vars)
    OBVIOUS
  <1> USE RegistryAssumption
  <1>0. /\ TypeOK /\ QueueInv /\ CacheInv
        /\ \A k \in Calls : CallInv(k)
        /\ \A n \in 1 .. Len(waiting) : waiting[n] \in Calls
    BY DEF IInv, TypeOK
  <1>1. ASSUME NEW c \in Calls, CallCached(c) PROVE OrderInv' /\ Newer
    <2>1. \A n \in 1 .. Len(waiting) : waiting[n] # c
      BY <1>0, <1>1 DEF QueueInv, CallCached
    <2>2. /\ UNCHANGED <<cache, waiting>> /\ \A k \in Calls \ {c} : entry'[k] = entry[k]
          /\ validator' = [validator EXCEPT ![c] = cache]
          /\ cache \in Nat /\ validator \in [Calls -> 0 .. MaxRegistrations]
      BY <1>0, <1>1 DEF TypeOK, CallCached
    <2>3. \A n \in 1 .. Len(waiting) : entry'[waiting[n]] = entry[waiting[n]]
      BY <1>0, <2>1, <2>2
    <2>4. QED
      BY <2>2, <2>3 DEF OrderInv, Newer
  <1>2. ASSUME NEW c \in Calls, CallUncached(c) PROVE OrderInv' /\ Newer
    <2>1. \A n \in 1 .. Len(waiting) : waiting[n] # c
      BY <1>0, <1>2 DEF QueueInv, CallUncached
    <2>2. /\ Len(waiting') = Len(waiting) + 1 /\ waiting'[Len(waiting) + 1] = c
          /\ Len(waiting) \in Nat
          /\ \A n \in 1 .. Len(waiting) : waiting'[n] = waiting[n]
      BY <1>0, <1>2 DEF TypeOK, CallUncached
    <2>3. /\ entry'[c] = registered /\ cache = 0
          /\ \A k \in Calls \ {c} : entry'[k] = entry[k]
          /\ \A k \in Calls : entry[k] <= registered /\ entry[k] \in Nat
          /\ registered \in Nat /\ UNCHANGED <<cache, validator>>
      BY <1>0, <1>2 DEF TypeOK, CallUncached, CallInv
    <2>4. \A n \in 1 .. Len(waiting') : cache' <= entry'[waiting'[n]]
      BY <1>0, <2>1, <2>2, <2>3
    <2>5. ASSUME NEW m \in 1 .. Len(waiting'), NEW n \in 1 .. Len(waiting'), m < n
          PROVE  entry'[waiting'[m]] <= entry'[waiting'[n]]
      <3>1. m \in 1 .. Len(waiting)
        BY <2>2, <2>5
      <3>2. CASE n \in 1 .. Len(waiting)
        BY <1>0, <2>1, <2>2, <2>3, <2>5, <3>1, <3>2 DEF OrderInv
      <3>3. CASE n = Len(waiting) + 1
        BY <1>0, <2>1, <2>2, <2>3, <3>1, <3>3
      <3>4. QED
        BY <2>2, <3>2, <3>3
    <2>6. QED
      BY <2>3, <2>4, <2>5 DEF OrderInv, Newer
  <1>3. ASSUME NEW c \in Calls, Compile(c) PROVE OrderInv' /\ Newer
    <2>1. /\ cache <= entry[c]
          /\ \A n \in 1 .. Len(waiting') : waiting'[n] \in Calls /\ entry[c] <= entry[waiting'[n]]
          /\ \A m, n \in 1 .. Len(waiting') : m < n => entry[waiting'[m]] <= entry[waiting'[n]]
      BY <1>0, <1>3, ResumedIsOldest DEF Compile
    <2>2. /\ cache' = entry[c] /\ entry' = entry
          /\ validator' = [validator EXCEPT ![c] = entry[c]]
          /\ cache \in Nat /\ entry[c] \in Nat /\ validator \in [Calls -> 0 .. MaxRegistrations]
      BY <1>0, <1>3 DEF Compile, TypeOK
    <2>3. QED
      BY <2>1, <2>2 DEF OrderInv, Newer
  <1>4. ASSUME NEW c \in Calls, CompileFails(c) PROVE OrderInv' /\ Newer
    <2>1. /\ cache <= entry[c]
          /\ \A n \in 1 .. Len(waiting') : waiting'[n] \in Calls /\ entry[c] <= entry[waiting'[n]]
          /\ \A m, n \in 1 .. Len(waiting') : m < n => entry[waiting'[m]] <= entry[waiting'[n]]
      BY <1>0, <1>4, ResumedIsOldest DEF CompileFails
    <2>2. QED
      BY <1>0, <1>4, <2>1 DEF OrderInv, Newer, TypeOK, CompileFails
  <1>5. ASSUME UNCHANGED <<waiting, entry, cache, validator>> PROVE OrderInv' /\ Newer
    BY <1>5 DEF OrderInv, Newer
  <1>6. QED
    BY <1>1, <1>2, <1>3, <1>4, <1>5
    DEF Next, vars, CallStep, Register, FactoryLoads, CallTurnedAway, ValidateArguments,
        RefuseAuthority, StartHandler, HandlerEnds, TimerEnds, LateHandlerEnds, PermissionEnds

(* No call is validated against an older contract than one before it: the  *)
(* cache only moves on, since calls that wait for the factory are resumed  *)
(* in the order in which they looked their contracts up.                   *)
THEOREM ValidatorTheorem == Spec => ValidatorsOnlyGetNewer
  <1>1. Init => OrderInv
    BY RegistryAssumption DEF Init, OrderInv
  <1>2. QED
    BY <1>1, NextOrder, AlwaysIInv, PTL DEF Spec, ValidatorsOnlyGetNewer, Newer

(* No answer is changed, nothing is started for a call that was answered,  *)
(* a call whose promise rejected started nothing, and a success is that of *)
(* a handler which ran to its end.                                         *)
THEOREM AnswerTheorem == Spec => AnswerIsFinal
  <1> DEFINE Kept == \A k \in Calls :
                       /\ answer[k] # "none" =>
                            answer'[k] = answer[k] /\ (k \in started' => k \in started)
                       /\ answer'[k] = "rejected" => k \notin started'
                       /\ answer'[k] = "success" => k \in finished'
  <1>1. ASSUME IInv, IInv', [Next]_vars PROVE [Kept]_vars
    <2> SUFFICES ASSUME Next PROVE Kept
      BY <1>1
    <2>1. ASSUME NEW k \in Calls, answer[k] # "none" PROVE answer'[k] = answer[k]
      <3>1. stage[k] = "done" /\ answer \in [Calls -> Answer \cup {"none"}]
        BY <1>1, <2>1 DEF IInv, CallInv, TypeOK
      <3>2. ASSUME NEW c \in Calls, NEW a, AnswerWith(c, a), stage[c] # "done"
            PROVE  answer'[k] = answer[k]
        BY <3>1, <3>2 DEF AnswerWith
      <3>3. ASSUME NEW c \in Calls, CompileFails(c) PROVE answer'[k] = answer[k]
        BY <1>1, <3>2, <3>3, ResumedWaits DEF IInv, CompileFails
      <3>4. ASSUME NEW c \in Calls,
                   \/ CallTurnedAway(c) \/ ValidateArguments(c) \/ RefuseAuthority(c)
                   \/ HandlerEnds(c) \/ TimerEnds(c)
            PROVE  answer'[k] = answer[k]
        BY <3>2, <3>4
        DEF CallTurnedAway, ValidateArguments, RefuseAuthority, HandlerEnds, TimerEnds
      <3>5. QED
        BY <3>3, <3>4
        DEF Next, CallStep, Register, FactoryLoads, CallCached, CallUncached, Compile,
            StartHandler, LateHandlerEnds, PermissionEnds
    <2>2. ASSUME NEW k \in Calls, answer[k] # "none", k \in started' PROVE k \in started
      <3>1. stage[k] = "done"
        BY <1>1, <2>2 DEF IInv, CallInv
      <3>2. QED
        BY <2>2, <3>1
        DEF Next, CallStep, Register, FactoryLoads, CallTurnedAway, CallCached, CallUncached,
            Compile, CompileFails, ValidateArguments, RefuseAuthority, StartHandler,
            HandlerEnds, TimerEnds, LateHandlerEnds, PermissionEnds
    <2>3. ASSUME NEW k \in Calls
          PROVE  /\ answer'[k] = "rejected" => k \notin started'
                 /\ answer'[k] = "success" => k \in finished'
      BY <1>1 DEF IInv, CallInv
    <2>4. QED
      BY <2>1, <2>2, <2>3
  <1>2. QED
    BY <1>1, AlwaysIInv, PTL DEF Spec, AnswerIsFinal
=============================================================================
