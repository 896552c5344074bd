---------------------------- MODULE PolicyProofs ----------------------------
(***************************************************************************)
(* What is proved of the two policy engines and of the manifest.           *)
(*                                                                         *)
(* OpaEngine implements PolicyOracle and fails closed, for any operations, *)
(* any rules and however often they are replaced, and any fallback engine: *)
(* QueryInv follows one query from the version it was sent under to what   *)
(* it settled on; both theorems are read off it.                           *)
(*                                                                         *)
(* The in-process engine decides as its reference says, in every state in  *)
(* which a run can be asked.  The loop over the sorted policies is         *)
(* recursive and its order a choice: that the loop has a run, that a       *)
(* finite set can be listed in order, and what the loop has found after k  *)
(* turns, is proved by induction over the natural numbers, which are well  *)
(* founded.  ListsInv is all these theorems need of a state.               *)
(*                                                                         *)
(* The manifest says what is enforced: ShownInv remembers why a line of an *)
(* older manifest is still true after policies were added.                 *)
(***************************************************************************)
EXTENDS OpaEngine, CapabilityManifest, FiniteSetTheorems, FunctionTheorems,
        WellFoundedInduction, TLAPS

Stage == {"idle", "sent", "reading", "fallback", "settled"}

OpaTypeOK ==
  /\ fallback \in DOMAIN Fallbacks
  /\ version \in Nat \ {0} /\ 1 .. version \subseteq Versions
  /\ since \in [Queries -> Nat]
  /\ stage \in [Queries -> Stage]
  /\ wire \in [Queries -> Results \cup {"none", "http_error"}]
  /\ verdict \in [Queries -> Decisions \cup {"none", "rejected"}]

(* The result is that of rules in force since the query was sent.          *)
SaidSince(q, result) == \E v \in since[q] .. version : result = Rules[v][q[2]]

QueryInv(q) ==
  /\ since[q] <= version
  /\ since[q] = 0 <=> stage[q] = "idle"
  /\ wire[q] # "none" => since[q] # 0 /\ (wire[q] = "http_error" \/ SaidSince(q, wire[q]))
  /\ stage[q] = "reading" => wire[q] # "none"
  /\ stage[q] = "fallback" => fallback # NoFallback
  /\ verdict[q] = "none" <=> stage[q] # "settled"
  /\ stage[q] = "settled" =>
       \/ verdict[q] = Fallbacks[fallback][q[2]]
       \/ verdict[q] \in Decisions /\ SaidSince(q, verdict[q])

OpaInv == OpaTypeOK /\ \A q \in Queries : QueryInv(q)
-----------------------------------------------------------------------------
LEMMA QueriesAreAsked ==
  /\ \A q \in Queries : /\ q[1] \in Operations /\ q[2] \in Asks(q[1]) /\ q[2] \in Topics
                        /\ q = <<q[1], q[2]>>
  /\ \A o \in Operations : \A r \in Asks(o) : <<o, r>> \in Queries
  BY DEF Queries, Asks, Topics

LEMMA OpaInitInv == OpaInit => OpaInv
  <1> SUFFICES ASSUME OpaInit PROVE OpaInv
    OBVIOUS
  <1>1. OpaTypeOK
    BY OpaAssumption DEF OpaInit, OpaTypeOK, Stage
  <1>2. ASSUME NEW q \in Queries PROVE QueryInv(q)
    BY DEF OpaInit, QueryInv
  <1>3. QED
    BY <1>1, <1>2 DEF OpaInv

(* Settling on an answer that is allowed, or turning to the fallback, of a *)
(* query that was sent.                                                    *)
LEMMA SettleKeeps ==
  ASSUME OpaInv, NEW c \in Queries, NEW v \in Decisions \cup {"rejected"},
         stage[c] \notin {"idle", "settled"},
         v = Fallbacks[fallback][c[2]] \/ (v \in Decisions /\ SaidSince(c, v)),
         Settle(c, v), UNCHANGED <<fallback, version, since, wire>>
  PROVE  OpaInv'
  <1>1. OpaTypeOK'
    BY DEF OpaInv, OpaTypeOK, Settle, Stage
  <1>2. ASSUME NEW q \in Queries PROVE QueryInv(q)'
    BY DEF OpaInv, OpaTypeOK, QueryInv, SaidSince, Settle, Decisions
  <1>3. QED
    BY <1>1, <1>2 DEF OpaInv

LEMMA FailKeeps ==
  ASSUME OpaInv, NEW c \in Queries, stage[c] \in {"sent", "reading"},
         Fail(c), UNCHANGED <<fallback, version, since, wire>>
  PROVE  OpaInv'
  <1>1. CASE fallback = NoFallback
    <2>1. "denied" = Fallbacks[fallback][c[2]]
      BY <1>1, QueriesAreAsked, OpaAssumption
    <2>2. QED
      BY <1>1, <2>1, SettleKeeps DEF Fail, Decisions
  <1>2. CASE fallback # NoFallback
    <2>1. OpaTypeOK'
      BY <1>2 DEF OpaInv, OpaTypeOK, Fail, Stage
    <2>2. ASSUME NEW q \in Queries PROVE QueryInv(q)'
      BY <1>2 DEF OpaInv, OpaTypeOK, QueryInv, SaidSince, Fail
    <2>3. QED
      BY <2>1, <2>2 DEF OpaInv
  <1>3. QED
    BY <1>1, <1>2

(* What was current stays so when the rules are replaced.                  *)
LEMMA ReplaceKeeps == ASSUME OpaInv, Replace PROVE OpaInv'
  <1>1. OpaTypeOK'
    BY DEF OpaInv, OpaTypeOK, Replace
  <1>2. ASSUME NEW q \in Queries PROVE QueryInv(q)'
    <2>1. \A result : SaidSince(q, result) => SaidSince(q, result)'
      BY DEF OpaInv, OpaTypeOK, SaidSince, Replace
    <2>2. QED
      BY <2>1 DEF OpaInv, OpaTypeOK, QueryInv, Replace
  <1>3. QED
    BY <1>1, <1>2 DEF OpaInv

LEMMA ServeKeeps == ASSUME OpaInv, NEW c \in Queries, Serve(c) PROVE OpaInv'
  <1>1. PICK result \in {Rules[version][c[2]], "http_error"} : wire' = [wire EXCEPT ![c] = result]
    BY DEF Serve
  <1>2. Rules[version][c[2]] \in Results
    BY QueriesAreAsked, OpaAssumption DEF OpaInv, OpaTypeOK
  <1>3. OpaTypeOK'
    BY <1>1, <1>2 DEF OpaInv, OpaTypeOK, Serve
  <1>4. result = "http_error" \/ SaidSince(c, result)
    BY DEF OpaInv, OpaTypeOK, QueryInv, SaidSince
  <1>5. ASSUME NEW q \in Queries PROVE QueryInv(q)'
    BY <1>1, <1>4 DEF OpaInv, OpaTypeOK, QueryInv, SaidSince, Serve
  <1>6. QED
    BY <1>3, <1>5 DEF OpaInv

LEMMA CallKeeps == ASSUME OpaInv, NEW o \in Operations, Call(o) PROVE OpaInv'
  <1>1. OpaTypeOK'
    BY DEF OpaInv, OpaTypeOK, Call, Stage
  <1>2. ASSUME NEW q \in Queries PROVE QueryInv(q)'
    <2>1. CASE q[1] = o
      <3>1. stage[q] = "idle" /\ since[q] = 0 /\ wire[q] = "none" /\ verdict[q] = "none"
        BY <2>1, QueriesAreAsked DEF OpaInv, QueryInv, Call
      <3>2. QED
        BY <2>1, <3>1 DEF OpaInv, OpaTypeOK, QueryInv, Call
    <2>2. CASE q[1] # o
      BY <2>2 DEF OpaInv, QueryInv, SaidSince, Call
    <2>3. QED
      BY <2>1, <2>2
  <1>3. QED
    BY <1>1, <1>2 DEF OpaInv

LEMMA HeadersKeep == ASSUME OpaInv, NEW c \in Queries, Headers(c) PROVE OpaInv'
  <1>1. OpaTypeOK'
    BY DEF OpaInv, OpaTypeOK, Headers, Stage
  <1>2. ASSUME NEW q \in Queries PROVE QueryInv(q)'
    BY DEF OpaInv, OpaTypeOK, QueryInv, SaidSince, Headers
  <1>3. QED
    BY <1>1, <1>2 DEF OpaInv

LEMMA BodyKeeps == ASSUME OpaInv, NEW c \in Queries, Body(c) PROVE OpaInv'
  <1>1. CASE wire[c] \in Decisions
    <2>1. SaidSince(c, wire[c])
      BY <1>1 DEF OpaInv, QueryInv, Decisions
    <2>2. QED
      BY <1>1, <2>1, SettleKeeps DEF Body
  <1>2. CASE wire[c] \notin Decisions
    BY <1>2, FailKeeps DEF Body
  <1>3. QED
    BY <1>1, <1>2

LEMMA FallbackKeeps == ASSUME OpaInv, NEW c \in Queries, FallbackAnswers(c) PROVE OpaInv'
  <1>1. Fallbacks[fallback][c[2]] \in Decisions \cup {"rejected"}
    BY QueriesAreAsked, OpaAssumption DEF OpaInv, OpaTypeOK
  <1>2. QED
    BY <1>1, SettleKeeps DEF FallbackAnswers

LEMMA OpaNextInv == OpaInv /\ [OpaNext]_opaVars => OpaInv'
  <1> SUFFICES ASSUME OpaInv, [OpaNext]_opaVars PROVE OpaInv'
    OBVIOUS
  <1>1. CASE UNCHANGED opaVars
    BY <1>1 DEF opaVars, OpaInv, OpaTypeOK, QueryInv, SaidSince
  <1>2. CASE OpaNext
    BY <1>1, <1>2, ReplaceKeeps, CallKeeps, ServeKeeps, HeadersKeep, BodyKeeps, FailKeeps,
       FallbackKeeps
    DEF OpaNext, Done, QueryStep, Breaks, TimerFires
  <1>3. QED
    BY <1>1, <1>2

LEMMA AlwaysOpaInv == OpaSpec => []OpaInv
  BY OpaInitInv, OpaNextInv, PTL DEF OpaSpec
-----------------------------------------------------------------------------
(* An engine without a fallback opens a phase, or offers a tool, only when *)
(* rules in force during the operation say so.                             *)
THEOREM FailsClosedTheorem == OpaSpec => []FailsClosed
  <1>1. ASSUME OpaInv, fallback = NoFallback, NEW o \in Operations, NEW r \in Asks(o),
               verdict[<<o, r>>] \notin {"none", "denied"}
        PROVE  \E v \in since[<<o, r>>] .. version : verdict[<<o, r>>] = Rules[v][r]
    <2>1. <<o, r>> \in Queries /\ r \in Topics
      BY QueriesAreAsked DEF Asks, Topics
    <2>2. QueryInv(<<o, r>>) /\ Fallbacks[fallback][r] = "denied"
      BY <1>1, <2>1, OpaAssumption DEF OpaInv
    <2>3. QED
      BY <1>1, <2>2 DEF QueryInv, SaidSince
  <1>2. ASSUME OpaInv PROVE FailsClosed
    <2> SUFFICES ASSUME fallback = NoFallback, NEW o \in Operations, Called(o), Answered(o)
                 PROVE
                   /\ (o.kind = "consult" /\ Opens(o)) =>
                        \A r \in o.resources : \E v \in since[<<o, r>>] .. version :
                          Rules[v][r] \in {"approved", "narrowed", "unrecognised"}
                   /\ o.kind = "preview" =>
                        \A r \in o.resources : PreviewOf(o)[r] # "blocked" =>
                          r \notin Hidden /\ \E v \in since[<<o, r>>] .. version :
                                               Rules[v][r] \in {"approved", "narrowed", "escalated"}
      BY DEF FailsClosed
    <2>1. ASSUME o.kind = "consult", Opens(o), NEW r \in o.resources
          PROVE  \E v \in since[<<o, r>>] .. version :
                   Rules[v][r] \in {"approved", "narrowed", "unrecognised"}
      <3>1. r \in Asks(o) /\ <<o, r>> \in Queries
        BY <2>1, QueriesAreAsked DEF Asks
      <3>2. /\ verdict[<<o, r>>] \in Decisions \cup {"none", "rejected"}
            /\ verdict[<<o, r>>] \notin {"none", "rejected", "denied", "escalated"}
        BY <1>2, <2>1, <3>1 DEF Opens, Answered, Rejected, OpaInv, OpaTypeOK, QueryInv
      <3>3. QED
        BY <1>1, <1>2, <3>1, <3>2 DEF Decisions
    <2>2. ASSUME o.kind = "preview", NEW r \in o.resources, PreviewOf(o)[r] # "blocked"
          PROVE  r \notin Hidden /\ \E v \in since[<<o, r>>] .. version :
                                      Rules[v][r] \in {"approved", "narrowed", "escalated"}
      <3>1. r \in Asks(o) /\ verdict[<<o, r>>] \in {"approved", "narrowed", "escalated"}
        BY <2>2 DEF PreviewOf, Level, Asks
      <3>2. QED
        BY <1>1, <1>2, <2>2, <3>1 DEF Asks
    <2>3. QED
      BY <2>1, <2>2
  <1>3. QED
    BY <1>2, AlwaysOpaInv, PTL

(* Every query is answered at most once, by rules that were in force       *)
(* between the question and the answer, or by the substitute, and by the   *)
(* substitute alone once it has been turned to.                            *)
THEOREM OracleTheorem == OpaSpec => KeepsTheOracle
  <1>1. OpaInit => Oracle!OInit
    BY DEF OpaInit, Oracle!OInit
  <1> DEFINE Pending == {q \in Queries : stage[q] = "fallback"}
  <1>2. ASSUME OpaInv, NEW c \in Queries, stage[c] # "idle", stage[c] # "settled",
               NEW v \in Decisions \cup {"rejected"},
               \/ v = Fallbacks[fallback][c[2]]
               \/ v \in Decisions /\ SaidSince(c, v) /\ stage[c] # "fallback",
               Settle(c, v), UNCHANGED <<fallback, version, since, wire>>
        PROVE  Oracle!Reply(c)
    <2>1. since[c] # 0 /\ verdict[c] = "none" /\ since[c] \in Nat
      BY <1>2 DEF OpaInv, OpaTypeOK, QueryInv
    <2>2. verdict' = [verdict EXCEPT ![c] = v]
      BY <1>2 DEF Settle
    <2>3. \A w \in since[c] .. version : w \in Versions
      BY <1>2, <2>1 DEF OpaInv, OpaTypeOK
    <2>4. v \in Decisions /\ SaidSince(c, v) => Oracle!ByTheRules(c, v)
      BY <2>3 DEF SaidSince, Oracle!ByTheRules
    <2>5. Pending' = Pending \ {c}
      BY <1>2 DEF Settle, OpaInv, OpaTypeOK
    <2>6. QED
      BY <1>2, <2>1, <2>2, <2>4, <2>5 DEF Oracle!Reply
  <1>3. ASSUME OpaInv, NEW c \in Queries, stage[c] \in {"sent", "reading"},
               Fail(c), UNCHANGED <<fallback, version, since, wire>>
        PROVE  Oracle!Reply(c) \/ Oracle!GiveUp(c)
    <2>1. CASE fallback = NoFallback
      <3>1. "denied" = Fallbacks[fallback][c[2]]
        BY <2>1, QueriesAreAsked, OpaAssumption
      <3>2. QED
        BY <1>2, <1>3, <2>1, <3>1 DEF Fail, Decisions
    <2>2. CASE fallback # NoFallback
      <3>1. since[c] # 0 /\ verdict[c] = "none"
        BY <1>3 DEF OpaInv, QueryInv
      <3>2. Pending' = Pending \cup {c} /\ verdict' = verdict
        BY <1>3, <2>2 DEF Fail, OpaInv, OpaTypeOK
      <3>3. QED
        BY <1>3, <3>1, <3>2 DEF Oracle!GiveUp
    <2>3. QED
      BY <2>1, <2>2
  <1>4. ASSUME OpaInv, NEW o \in Operations, Call(o)
        PROVE  \E asked \in SUBSET Queries : Oracle!Question(asked)
    <2> DEFINE asked == {q \in Queries : q[1] = o}
    <2>1. \A q \in asked : since[q] = 0
      BY <1>4, QueriesAreAsked DEF Call, OpaInv, QueryInv
    <2>2. since' = [q \in Queries |-> IF q \in asked THEN version ELSE since[q]]
      BY <1>4 DEF Call
    <2>3. \A q \in asked : stage[q] = "idle"
      BY <1>4, QueriesAreAsked DEF Call
    <2>4. Pending' = Pending
      BY <1>4, <2>3 DEF Call
    <2>5. Oracle!Question(asked)
      BY <1>4, <2>1, <2>2, <2>4 DEF Oracle!Question, Call
    <2>6. QED
      BY <2>5
  <1>5. ASSUME OpaInv, NEW c \in Queries, Body(c) PROVE Oracle!Reply(c) \/ Oracle!GiveUp(c)
    <2>1. CASE wire[c] \in Decisions
      <3>1. SaidSince(c, wire[c]) /\ stage[c] = "reading"
        BY <1>5, <2>1 DEF OpaInv, QueryInv, Decisions, Body
      <3>2. QED
        BY <1>2, <1>5, <2>1, <3>1 DEF Body
    <2>2. CASE wire[c] \notin Decisions
      BY <1>3, <1>5, <2>2 DEF Body
    <2>3. QED
      BY <2>1, <2>2
  <1>6. ASSUME OpaInv, NEW c \in Queries, FallbackAnswers(c) PROVE Oracle!Reply(c)
    <2>1. Fallbacks[fallback][c[2]] \in Decisions \cup {"rejected"}
      BY <1>6, QueriesAreAsked, OpaAssumption DEF OpaInv, OpaTypeOK
    <2>2. QED
      BY <1>2, <1>6, <2>1 DEF FallbackAnswers
  <1>7. ASSUME OpaInv, NEW c \in Queries, Serve(c) \/ Headers(c) PROVE UNCHANGED Oracle!ovars
    <2>1. Pending' = Pending
      BY <1>7 DEF Serve, Headers, OpaInv, OpaTypeOK
    <2>2. QED
      BY <1>7, <2>1 DEF Serve, Headers, Oracle!ovars
  <1>8. Replace => Oracle!Replace
    BY DEF Replace, Oracle!Replace
  <1>9. (Done \/ UNCHANGED opaVars) => UNCHANGED Oracle!ovars
    BY DEF Done, opaVars, Oracle!ovars
  <1>10. OpaInv /\ [OpaNext]_opaVars => [Oracle!ONext]_(Oracle!ovars)
    BY <1>3, <1>4, <1>5, <1>6, <1>7, <1>8, <1>9
    DEF OpaNext, QueryStep, Breaks, TimerFires, Oracle!ONext
  <1>11. QED
    BY <1>1, <1>10, AlwaysOpaInv, PTL DEF OpaSpec, KeepsTheOracle, Oracle!OSpec
-----------------------------------------------------------------------------
(***************************************************************************)
(* Induction and recursion over the natural numbers.                       *)
(***************************************************************************)
LEMMA LeastElement ==
  ASSUME NEW S \in SUBSET Nat, S # {}
  PROVE  \E n \in S : \A m \in S : n <= m
  <1>1. PICK n \in S : \A m \in S : ~ (<<m, n>> \in OpToRel(<, Nat))
    BY NatLessThanWellFounded, WFMin
  <1>2. ASSUME NEW m \in S PROVE n <= m
    <2>1. <<m, n>>[1] = m /\ <<m, n>>[2] = n /\ <<m, n>> \in Nat \X Nat
      OBVIOUS
    <2>2. ~(m < n)
      BY <1>1, <2>1 DEF OpToRel
    <2>3. QED
      BY <2>2
  <1>3. QED
    BY <1>2

LEMMA InductionOnNat ==
  ASSUME NEW S, 0 \in S, \A n \in Nat : n \in S => n + 1 \in S
  PROVE  Nat \subseteq S
  <1>1. SUFFICES ASSUME Nat \ S # {} PROVE FALSE
    OBVIOUS
  <1>2. PICK n \in Nat \ S : \A m \in Nat \ S : n <= m
    BY <1>1, LeastElement
  <1>3. n # 0 /\ n - 1 \in Nat /\ n - 1 \in S
    BY <1>2
  <1>4. QED
    BY <1>2, <1>3

(* A loop over 1 .. N whose turns are functions of the state has a run.    *)
LEMMA LoopHasARun ==
  ASSUME NEW X, NEW base \in X, NEW N \in Nat, NEW turn \in [1 .. N -> [X -> X]]
  PROVE  \E f \in [0 .. N -> X] : /\ f[0] = base
                                  /\ \A k \in 1 .. N : f[k] = turn[k][f[k - 1]]
  <1> DEFINE Run(n, f) == /\ f \in [0 .. n -> X] /\ f[0] = base
                          /\ \A k \in 1 .. n : f[k] = turn[k][f[k - 1]]
             S == {n \in Nat : n <= N => \E f : Run(n, f)}
  <1>1. 0 \in S
    <2>1. Run(0, [k \in 0 .. 0 |-> base])
      OBVIOUS
    <2>2. QED
      BY <2>1
  <1>2. ASSUME NEW n \in Nat, n + 1 <= N, NEW f, Run(n, f)
        PROVE  \E g : Run(n + 1, g)
    <2> DEFINE g == [k \in 0 .. n + 1 |-> IF k <= n THEN f[k] ELSE turn[n + 1][f[n]]]
    <2>1. /\ f \in [0 .. n -> X] /\ f[0] = base
          /\ \A k \in 1 .. n : f[k] = turn[k][f[k - 1]]
      BY <1>2
    <2>2. f[n] \in X /\ turn[n + 1] \in [X -> X]
      BY <1>2, <2>1
    <2>3. turn[n + 1][f[n]] \in X
      BY <2>2
    <2>4. \A k \in 0 .. n : g[k] = f[k]
      OBVIOUS
    <2>5. g[n + 1] = turn[n + 1][f[n]]
      OBVIOUS
    <2>6. g \in [0 .. n + 1 -> X]
      BY <2>1, <2>3
    <2> HIDE DEF g
    <2>7. ASSUME NEW k \in 1 .. n + 1 PROVE g[k] = turn[k][g[k - 1]]
      <3>1. CASE k = n + 1
        BY <3>1, <2>4, <2>5
      <3>2. CASE k # n + 1
        <4>1. k \in 1 .. n /\ k \in 0 .. n /\ k - 1 \in 0 .. n
          BY <3>2
        <4>2. QED
          BY <2>1, <2>4, <4>1
      <3>3. QED
        BY <3>1, <3>2
    <2>8. Run(n + 1, g)
      BY <2>1, <2>4, <2>6, <2>7
    <2>9. QED
      BY <2>8
  <1>3. ASSUME NEW n \in Nat, n \in S PROVE n + 1 \in S
    <2> HIDE DEF Run
    <2>1. SUFFICES ASSUME n + 1 <= N PROVE \E g : Run(n + 1, g)
      OBVIOUS
    <2>2. PICK f : Run(n, f)
      BY <1>3, <2>1
    <2>3. QED
      BY <1>2, <2>1, <2>2
  <1>4. N \in S
    <2> HIDE DEF S
    <2>1. QED
      BY <1>1, <1>3, InductionOnNat
  <1>5. PICK f : Run(N, f)
    BY <1>4
  <1>6. QED
    BY <1>5

(***************************************************************************)
(* A finite set can be listed in any strict total order of it, and the     *)
(* list leaves nothing out.                                                *)
(***************************************************************************)
StrictOrder(S, R) ==
  /\ \A x \in S : <<x, x>> \notin R
  /\ \A x, y, z \in S : <<x, y>> \in R /\ <<y, z>> \in R => <<x, z>> \in R
  /\ \A x, y \in S : x # y => <<x, y>> \in R \/ <<y, x>> \in R

Lists(e, S, R) ==
  /\ e \in [1 .. Cardinality(S) -> S]
  /\ \A j, k \in 1 .. Cardinality(S) : j < k => <<e[j], e[k]>> \in R

LEMMA OrderHasAList ==
  ASSUME NEW S, IsFiniteSet(S), NEW R, StrictOrder(S, R)
  PROVE  \E e : Lists(e, S, R)
  <1> DEFINE N == Cardinality(S)
             Below(x) == {y \in S : <<y, x>> \in R}
             rank == [x \in S |-> Cardinality(Below(x)) + 1]
  <1>1. N \in Nat
    BY FS_CardinalityType
  <1>2. ASSUME NEW x \in S PROVE /\ IsFiniteSet(Below(x))
                                 /\ Cardinality(Below(x)) \in Nat
                                 /\ Cardinality(Below(x)) < N
    <2>1. Below(x) \in SUBSET S /\ x \notin Below(x)
      BY DEF StrictOrder
    <2> HIDE DEF Below
    <2>2. /\ IsFiniteSet(Below(x)) /\ Cardinality(Below(x)) <= N
          /\ N = Cardinality(Below(x)) => S = Below(x)
      BY <2>1, FS_Subset
    <2>3. Cardinality(Below(x)) \in Nat
      BY <2>2, FS_CardinalityType
    <2>4. QED
      BY <1>1, <2>1, <2>2, <2>3
  <1>3. ASSUME NEW x \in S, NEW y \in S, <<x, y>> \in R PROVE rank[x] < rank[y]
    <2>1. Below(x) \in SUBSET Below(y) /\ x \in Below(y) /\ x \notin Below(x)
      BY <1>3 DEF StrictOrder
    <2>2. /\ IsFiniteSet(Below(y))
          /\ Cardinality(Below(x)) \in Nat /\ Cardinality(Below(y)) \in Nat
      BY <1>2
    <2>3. rank[x] = Cardinality(Below(x)) + 1 /\ rank[y] = Cardinality(Below(y)) + 1
      OBVIOUS
    <2> HIDE DEF Below, rank
    <2>4. /\ Cardinality(Below(x)) <= Cardinality(Below(y))
          /\ Cardinality(Below(y)) = Cardinality(Below(x)) => Below(y) = Below(x)
      BY <2>1, <2>2, FS_Subset
    <2>5. QED
      BY <2>1, <2>2, <2>3, <2>4
  <1>4. rank \in [S -> 1 .. N]
    <2>1. ASSUME NEW x \in S PROVE Cardinality(Below(x)) + 1 \in 1 .. N
      <3> HIDE DEF N, Below
      <3>1. QED
        BY <1>1, <1>2 DEF N
    <2>2. QED
      BY <2>1
  <1> HIDE DEF N, rank
  <1>5. ASSUME NEW x \in S, NEW y \in S, rank[x] = rank[y] PROVE x = y
    <2>1. ~(<<x, y>> \in R) /\ ~(<<y, x>> \in R)
      BY <1>3, <1>4, <1>5
    <2>2. QED
      BY <2>1 DEF StrictOrder
  <1>6. rank \in Injection(S, 1 .. N)
    BY <1>4, <1>5 DEF Injection, IsInjective
  <1>7. IsFiniteSet(1 .. N) /\ Cardinality(1 .. N) = N
    BY <1>1, FS_Interval
  <1>8. rank \in Surjection(S, 1 .. N)
    BY <1>6, <1>7, FS_Injection DEF N
  <1>9. \A k \in 1 .. N : \E x \in S : rank[x] = k
    BY <1>8 DEF Surjection
  <1> DEFINE e == [k \in 1 .. N |-> CHOOSE x \in S : rank[x] = k]
  <1>10. \A k \in 1 .. N : e[k] \in S /\ rank[e[k]] = k
    BY <1>9
  <1>11. e \in [1 .. N -> S]
    BY <1>10
  <1> HIDE DEF e
  <1>12. ASSUME NEW j \in 1 .. N, NEW k \in 1 .. N, j < k PROVE <<e[j], e[k]>> \in R
    <2>1. e[j] # e[k] /\ ~(rank[e[k]] < rank[e[j]])
      BY <1>1, <1>10, <1>12
    <2>2. <<e[k], e[j]>> \notin R
      BY <1>3, <1>10, <2>1
    <2>3. QED
      BY <1>10, <2>1, <2>2 DEF StrictOrder
  <1>13. QED
    BY <1>11, <1>12 DEF Lists, N

LEMMA ListIsComplete ==
  ASSUME NEW S, IsFiniteSet(S), NEW R, StrictOrder(S, R), NEW e, Lists(e, S, R)
  PROVE  \A x \in S : \E k \in 1 .. Cardinality(S) : e[k] = x
  <1> DEFINE N == Cardinality(S)
  <1>1. N \in Nat /\ IsFiniteSet(1 .. N) /\ Cardinality(1 .. N) = N
    BY FS_CardinalityType, FS_Interval
  <1>2. e \in [1 .. N -> S]
    BY DEF Lists
  <1>3. ASSUME NEW j \in 1 .. N, NEW k \in 1 .. N, e[j] = e[k] PROVE j = k
    <2>1. ~(j < k) /\ ~(k < j)
      BY <1>3, <1>2 DEF Lists, StrictOrder
    <2>2. QED
      BY <1>1, <2>1
  <1> HIDE DEF N
  <1>4. e \in Injection(1 .. N, S)
    BY <1>2, <1>3 DEF Injection, IsInjective
  <1>5. e \in Surjection(1 .. N, S)
    BY <1>1, <1>4, FS_Injection DEF N
  <1>6. QED
    BY <1>5 DEF Surjection, N
-----------------------------------------------------------------------------
LEMMA Entries ==
  ASSUME NEW list \in Seq(PolicySet)
  PROVE  /\ Len(list) \in Nat /\ DOMAIN list = 1 .. Len(list)
         /\ \A n \in DOMAIN list :
              /\ list[n] \in PolicySet /\ list[n].priority \in Int
              /\ list[n].rules \in Seq(PolicyRule) /\ Len(list[n].rules) \in Nat
              /\ DOMAIN list[n].rules = 1 .. Len(list[n].rules)
              /\ \A k \in DOMAIN list[n].rules : list[n].rules[k] \in PolicyRule
  <1>1. Len(list) \in Nat /\ DOMAIN list = 1 .. Len(list)
    OBVIOUS
  <1>2. ASSUME NEW n \in DOMAIN list
        PROVE  list[n] \in PolicySet /\ list[n].priority \in Int /\ list[n].rules \in Seq(PolicyRule)
    <2>1. list[n] \in PolicySet
      BY <1>1
    <2>2. QED
      BY <2>1 DEF PolicySet
  <1>3. ASSUME NEW rules \in Seq(PolicyRule)
        PROVE  /\ Len(rules) \in Nat /\ DOMAIN rules = 1 .. Len(rules)
               /\ \A k \in DOMAIN rules : rules[k] \in PolicyRule
    OBVIOUS
  <1>4. QED
    BY <1>1, <1>2, <1>3

LEMMA PriorityIsAnOrder ==
  ASSUME NEW list \in Seq(PolicySet), NEW S \in SUBSET DOMAIN list
  PROVE  /\ IsFiniteSet(S)
         /\ StrictOrder(S, {p \in S \X S : Precedes(list, p[1], p[2])})
  <1> DEFINE R == {p \in S \X S : Precedes(list, p[1], p[2])}
  <1>1. DOMAIN list = 1 .. Len(list) /\ Len(list) \in Nat
    BY Entries
  <1>2. IsFiniteSet(S)
    <2>1. IsFiniteSet(1 .. Len(list))
      BY <1>1, FS_Interval
    <2>2. QED
      BY <1>1, <2>1, FS_Subset
  <1>3. \A x, y \in S : <<x, y>> \in R <=> Precedes(list, x, y)
    OBVIOUS
  <1>4. \A n \in S : n \in Nat /\ list[n].priority \in Int
    BY <1>1, Entries
  <1> HIDE DEF R
  <1>5. StrictOrder(S, R)
    BY <1>3, <1>4 DEF StrictOrder, Precedes
  <1>6. QED
    BY <1>2, <1>5 DEF R

LEMMA PriorityHasAList ==
  ASSUME NEW list \in Seq(PolicySet), NEW S \in SUBSET DOMAIN list
  PROVE  /\ Cardinality(S) \in Nat
         /\ \E e \in [1 .. Cardinality(S) -> S] :
              \A j, k \in 1 .. Cardinality(S) : j < k => Precedes(list, e[j], e[k])
         /\ \A e \in [1 .. Cardinality(S) -> S] :
              (\A j, k \in 1 .. Cardinality(S) : j < k => Precedes(list, e[j], e[k]))
                => \A x \in S : \E k \in 1 .. Cardinality(S) : e[k] = x
  <1> DEFINE R == {p \in S \X S : Precedes(list, p[1], p[2])}
  <1>1. IsFiniteSet(S) /\ StrictOrder(S, R)
    BY PriorityIsAnOrder
  <1>2. \A x, y \in S : <<x, y>> \in R <=> Precedes(list, x, y)
    OBVIOUS
  <1>3. Cardinality(S) \in Nat
    BY <1>1, FS_CardinalityType
  <1> HIDE DEF R
  <1>4. PICK f : Lists(f, S, R)
    BY <1>1, OrderHasAList
  <1>5. /\ f \in [1 .. Cardinality(S) -> S]
        /\ \A j, k \in 1 .. Cardinality(S) : j < k => Precedes(list, f[j], f[k])
    BY <1>2, <1>4 DEF Lists
  <1>6. ASSUME NEW e, e \in [1 .. Cardinality(S) -> S],
               \A j, k \in 1 .. Cardinality(S) : j < k => Precedes(list, e[j], e[k])
        PROVE  \A x \in S : \E k \in 1 .. Cardinality(S) : e[k] = x
    <2>1. Lists(e, S, R)
      BY <1>2, <1>6 DEF Lists
    <2>2. QED
      BY <1>1, <2>1, ListIsComplete
  <1>7. QED
    BY <1>3, <1>5, <1>6

LEMMA InPriority ==
  ASSUME NEW list \in Seq(PolicySet), NEW S \in SUBSET DOMAIN list
  PROVE  LET e == InOrder(S, LAMBDA m, n : Precedes(list, m, n))
         IN  /\ Cardinality(S) \in Nat
             /\ e \in [1 .. Cardinality(S) -> S]
             /\ \A j, k \in 1 .. Cardinality(S) : j < k => Precedes(list, e[j], e[k])
             /\ \A x \in S : \E k \in 1 .. Cardinality(S) : e[k] = x
  <1> DEFINE e == InOrder(S, LAMBDA m, n : Precedes(list, m, n))
  <1>1. /\ e \in [1 .. Cardinality(S) -> S]
        /\ \A j, k \in 1 .. Cardinality(S) : j < k => Precedes(list, e[j], e[k])
    BY PriorityHasAList DEF InOrder
  <1> HIDE DEF e
  <1>2. /\ Cardinality(S) \in Nat
        /\ \A x \in S : \E k \in 1 .. Cardinality(S) : e[k] = x
    BY <1>1, PriorityHasAList
  <1>3. QED
    BY <1>1, <1>2 DEF e

(* The rule that speaks for a policy is the first that matches.            *)
LEMMA SpokesmanMatches ==
  ASSUME policies \in Seq(PolicySet), NEW n \in DOMAIN policies, NEW request
  PROVE  /\ Spokesman(n, request) \in Nat
         /\ Spokesman(n, request) # 0 =>
              /\ Spokesman(n, request) \in DOMAIN policies[n].rules
              /\ RuleOf(n, request) \in PolicyRule
              /\ RuleMatches(RuleOf(n, request), request)
         /\ Spokesman(n, request) = 0 =>
              \A k \in DOMAIN policies[n].rules : ~RuleMatches(policies[n].rules[k], request)
  <1> DEFINE rules == policies[n].rules
             I == {k \in 1 .. Len(rules) : RuleMatches(rules[k], request)}
  <1>1. \A k \in DOMAIN rules : rules[k] \in PolicyRule
    BY Entries
  <1>2. DOMAIN rules = 1 .. Len(rules) /\ I \in SUBSET Nat /\ 0 \notin I
    BY Entries
  <1>3. Spokesman(n, request) = IF I # {} THEN Min(I) ELSE 0
    BY DEF Spokesman, SelectInSeq
  <1>4. I # {} => Min(I) \in I
    <2> HIDE DEF I
    <2>1. QED
      BY <1>2, LeastElement DEF Min
  <1> HIDE DEF I
  <1>5. CASE I = {}
    BY <1>2, <1>3, <1>5 DEF I
  <1>6. CASE I # {}
    <2>1. Spokesman(n, request) \in I
      BY <1>3, <1>4, <1>6
    <2>2. Spokesman(n, request) \in DOMAIN rules /\ RuleMatches(rules[Spokesman(n, request)], request)
      BY <1>2, <2>1 DEF I
    <2>3. rules[Spokesman(n, request)] \in PolicyRule
      BY <1>1, <2>2
    <2>4. QED
      BY <1>2, <2>1, <2>2, <2>3 DEF RuleOf
  <1>7. QED
    BY <1>5, <1>6

(* Two requests that the same rules match have the same spokesmen.         *)
LEMMA SameRulesSameSpokesman ==
  ASSUME NEW n, NEW r1, NEW r2,
         \A k \in 1 .. Len(policies[n].rules) :
           RuleMatches(policies[n].rules[k], r1) <=> RuleMatches(policies[n].rules[k], r2)
  PROVE  Spokesman(n, r1) = Spokesman(n, r2)
  <1>1. {k \in 1 .. Len(policies[n].rules) : RuleMatches(policies[n].rules[k], r1)}
          = {k \in 1 .. Len(policies[n].rules) : RuleMatches(policies[n].rules[k], r2)}
    OBVIOUS
  <1>2. QED
    BY <1>1 DEF Spokesman, SelectInSeq
-----------------------------------------------------------------------------
InForce == {n \in DOMAIN policies : InWindow(policies[n])}

Votes(n, action, request) == Spokesman(n, request) # 0 /\ RuleOf(n, request).action = action

LEMMA SortedIsInForce ==
  ASSUME policies \in Seq(PolicySet)
  PROVE  /\ Len(Sorted) \in Nat
         /\ Sorted \in [1 .. Len(Sorted) -> InForce]
         /\ \A j, k \in 1 .. Len(Sorted) : j < k => Precedes(policies, Sorted[j], Sorted[k])
         /\ \A n \in InForce : \E k \in 1 .. Len(Sorted) : Sorted[k] = n
  <1> DEFINE N == Cardinality(InForce)
  <1>1. InForce \in SUBSET DOMAIN policies
    BY DEF InForce
  <1>2. /\ N \in Nat
        /\ Sorted \in [1 .. N -> InForce]
        /\ \A j, k \in 1 .. N : j < k => Precedes(policies, Sorted[j], Sorted[k])
        /\ \A n \in InForce : \E k \in 1 .. N : Sorted[k] = n
    BY <1>1, InPriority DEF Sorted, InForce
  <1> HIDE DEF N
  <1>3. Len(Sorted) = N
    BY <1>2
  <1>4. QED
    BY <1>2, <1>3

(* The first k turns of the loop have found, of each action, the first of  *)
(* the policies looked at that votes for it, or none.                      *)
FirstOf(hit, action, request, k) ==
  \/ /\ hit = 0
     /\ \A j \in 1 .. k : ~Votes(Sorted[j], action, request)
  \/ \E j \in 1 .. k :
       /\ hit = Sorted[j] /\ Votes(Sorted[j], action, request)
       /\ \A i \in 1 .. j - 1 : ~Votes(Sorted[i], action, request)

LEMMA TurnOfTheLoop ==
  ASSUME policies \in Seq(PolicySet), NEW request, NEW k \in 1 .. Len(Sorted),
         NEW hits \in [Actions -> Nat],
         FirstOf(hits["deny"], "deny", request, k - 1),
         hits["deny"] = 0 =>
           \A action \in Actions : FirstOf(hits[action], action, request, k - 1),
         NEW next, next = Visit(hits, Sorted[k], request)
  PROVE  /\ next \in [Actions -> Nat]
         /\ FirstOf(next["deny"], "deny", request, k)
         /\ next["deny"] = 0 =>
              \A action \in Actions : FirstOf(next[action], action, request, k)
  <1> DEFINE n == Sorted[k]
  <1>1. k \in Nat /\ k - 1 \in Nat /\ n \in DOMAIN policies /\ n \in Nat /\ n # 0
    <2>1. n \in InForce /\ Len(Sorted) \in Nat
      BY SortedIsInForce
    <2>2. QED
      BY <2>1, Entries DEF InForce
  <1>2. Spokesman(n, request) # 0 => RuleOf(n, request).action \in Actions
    BY <1>1, SpokesmanMatches DEF PolicyRule
  <1>3. "deny" \in Actions
    BY DEF Actions
  <1> HIDE DEF n
  <1>4. CASE hits["deny"] # 0
    <2>1. next = hits
      BY <1>4 DEF Visit, n
    <2>2. QED
      BY <1>1, <1>4, <2>1 DEF FirstOf
  <1>5. CASE hits["deny"] = 0 /\ Spokesman(n, request) = 0
    <2>1. next = hits
      BY <1>5 DEF Visit, n
    <2>2. ASSUME NEW action \in Actions PROVE FirstOf(next[action], action, request, k)
      <3>1. FirstOf(hits[action], action, request, k - 1)
        BY <1>5
      <3>2. ~Votes(Sorted[k], action, request)
        BY <1>5 DEF Votes, n
      <3>3. QED
        BY <1>1, <2>1, <3>1, <3>2 DEF FirstOf
    <2>3. QED
      BY <1>3, <2>1, <2>2
  <1>6. CASE hits["deny"] = 0 /\ Spokesman(n, request) # 0
    <2> DEFINE voted == RuleOf(n, request).action
    <2>1. next = [hits EXCEPT ![voted] = IF hits[voted] = 0 THEN n ELSE hits[voted]]
      BY <1>6 DEF Visit, n
    <2>2. voted \in Actions
      BY <1>2, <1>6
    <2>3. \A action \in Actions : Votes(Sorted[k], action, request) <=> action = voted
      BY <1>6 DEF Votes, n
    <2> HIDE DEF voted
    <2>4. next \in [Actions -> Nat]
      BY <1>1, <2>1, <2>2
    <2>5. ASSUME NEW action \in Actions PROVE FirstOf(next[action], action, request, k)
      <3>1. FirstOf(hits[action], action, request, k - 1)
        BY <1>6
      <3>2. CASE action # voted
        <4>1. next[action] = hits[action] /\ ~Votes(Sorted[k], action, request)
          BY <2>1, <2>3, <3>2
        <4>2. QED
          BY <1>1, <3>1, <4>1 DEF FirstOf
      <3>3. CASE action = voted /\ hits[action] = 0
        <4>1. next[action] = Sorted[k] /\ Votes(Sorted[k], action, request)
          BY <2>1, <2>3, <3>3 DEF n
        <4>2. \A j \in 1 .. k - 1 : ~Votes(Sorted[j], action, request)
          BY <3>1, <3>3, SortedIsInForce, Entries DEF FirstOf, InForce
        <4>3. QED
          BY <1>1, <4>1, <4>2 DEF FirstOf
      <3>4. CASE action = voted /\ hits[action] # 0
        <4>1. next[action] = hits[action]
          BY <2>1, <3>4
        <4>2. QED
          BY <1>1, <3>1, <3>4, <4>1 DEF FirstOf
      <3>5. QED
        BY <3>2, <3>3, <3>4
    <2>6. QED
      BY <1>3, <2>4, <2>5
  <1>7. QED
    BY <1>4, <1>5, <1>6

LEMMA HitsAreFirst ==
  ASSUME policies \in Seq(PolicySet), NEW request
  PROVE  /\ Hits(request) \in [Actions -> Nat]
         /\ FirstOf(Hits(request)["deny"], "deny", request, Len(Sorted))
         /\ Hits(request)["deny"] = 0 =>
              \A action \in Actions : FirstOf(Hits(request)[action], action, request, Len(Sorted))
  <1> DEFINE N == Len(Sorted)
             X == [Actions -> Nat]
             turn == [n \in DOMAIN policies |-> [hits \in X |-> Visit(hits, n, request)]]
             F(v) == [k \in 0 .. N |-> IF k = 0 THEN NoHits ELSE turn[Sorted[k]][v[k - 1]]]
             visited == CHOOSE v : v = F(v)
             turns == [k \in 1 .. N |-> [hits \in X |-> turn[Sorted[k]][hits]]]
  <1>1. N \in Nat /\ NoHits \in X
    BY SortedIsInForce DEF NoHits
  <1>2. ASSUME NEW k \in 1 .. N, NEW hits \in X
        PROVE  /\ turn[Sorted[k]][hits] = Visit(hits, Sorted[k], request)
               /\ turn[Sorted[k]][hits] \in X
    <2>1. Sorted[k] \in DOMAIN policies /\ Sorted[k] \in Nat
      BY SortedIsInForce, Entries DEF InForce
    <2>2. Visit(hits, Sorted[k], request) \in X
      BY <2>1 DEF Visit
    <2>3. turn[Sorted[k]][hits] = Visit(hits, Sorted[k], request)
      BY <2>1
    <2>4. QED
      BY <2>2, <2>3
  <1>3. Hits(request) = visited[N]
    BY DEF Hits, N
  <1> HIDE DEF N, X, turn
  <1>4. /\ turns \in [1 .. N -> [X -> X]]
        /\ \A k \in 1 .. N : \A hits \in X : turns[k][hits] = turn[Sorted[k]][hits]
    BY <1>2
  <1> HIDE DEF turns
  <1>5. PICK f \in [0 .. N -> X] : f[0] = NoHits /\ \A k \in 1 .. N : f[k] = turns[k][f[k - 1]]
    <2>1. turns \in [1 .. N -> [X -> X]]
      BY <1>4
    <2>2. QED
      BY <1>1, <2>1, LoopHasARun
  <1>6. f = F(f)
    <2>1. ASSUME NEW k \in 1 .. N PROVE f[k] = turn[Sorted[k]][f[k - 1]]
      <3>1. f[k - 1] \in X
        BY <1>1, <1>5
      <3>2. QED
        BY <1>4, <1>5, <3>1
    <2>2. \A k \in 0 .. N : f[k] = IF k = 0 THEN NoHits ELSE turn[Sorted[k]][f[k - 1]]
      BY <1>1, <1>5, <2>1
    <2>3. QED
      BY <1>5, <2>2
  <1>7. visited = F(visited)
    BY <1>6
  <1> HIDE DEF visited
  <1>8. /\ visited[0] = NoHits
        /\ \A k \in 1 .. N : visited[k] = turn[Sorted[k]][visited[k - 1]]
    BY <1>1, <1>7
  <1> DEFINE Holds(k) == /\ visited[k] \in [Actions -> Nat]
                         /\ FirstOf(visited[k]["deny"], "deny", request, k)
                         /\ visited[k]["deny"] = 0 =>
                              \A action \in Actions : FirstOf(visited[k][action], action, request, k)
             K == {k \in Nat : k <= N => Holds(k)}
  <1>9. 0 \in K
    BY <1>8 DEF NoHits, FirstOf, Actions
  <1>10. ASSUME NEW k \in Nat, k \in K PROVE k + 1 \in K
    <2>1. SUFFICES ASSUME k + 1 <= N PROVE Holds(k + 1)
      OBVIOUS
    <2>2. k + 1 \in 1 .. N /\ (k + 1) - 1 = k /\ Holds(k)
      BY <1>1, <1>10, <2>1
    <2>3. visited[k + 1] = Visit(visited[k], Sorted[k + 1], request)
      BY <1>2, <1>8, <2>2 DEF X
    <2>4. QED
      BY <2>2, <2>3, TurnOfTheLoop DEF N
  <1>11. N \in K
    <2> HIDE DEF K
    <2>1. QED
      BY <1>1, <1>9, <1>10, InductionOnNat
  <1>12. QED
    BY <1>1, <1>3, <1>11 DEF N
-----------------------------------------------------------------------------
LEMMA VotingIsVotes ==
  ASSUME NEW request, NEW action
  PROVE  Voting(request, action) = {n \in InForce : Votes(n, action, request)}
  BY DEF Voting, InForce, Votes

IsFirst(n, request, action) ==
  /\ n \in Voting(request, action)
  /\ \A m \in Voting(request, action) \ {n} : Precedes(policies, n, m)

NoVoters(request, actions) == \A action \in actions : Voting(request, action) = {}

LEMMA FirstOfAllIsFirst ==
  ASSUME policies \in Seq(PolicySet), NEW request, NEW action, NEW hit,
         FirstOf(hit, action, request, Len(Sorted))
  PROVE  IF hit = 0 THEN Voting(request, action) = {} ELSE IsFirst(hit, request, action)
  <1> DEFINE N == Len(Sorted)
  <1>1. /\ N \in Nat
        /\ \A k \in 1 .. N : Sorted[k] \in InForce /\ Sorted[k] # 0
        /\ \A j, k \in 1 .. N : j < k => Precedes(policies, Sorted[j], Sorted[k])
        /\ \A n \in InForce : \E k \in 1 .. N : Sorted[k] = n
    BY SortedIsInForce, Entries DEF InForce
  <1> HIDE DEF N
  <1>2. CASE hit = 0
    <2>1. \A j \in 1 .. N : ~Votes(Sorted[j], action, request)
      BY <1>1, <1>2 DEF FirstOf, N
    <2>2. QED
      BY <1>1, <1>2, <2>1, VotingIsVotes
  <1>3. CASE hit # 0
    <2>1. PICK j \in 1 .. N : /\ hit = Sorted[j] /\ Votes(Sorted[j], action, request)
                             /\ \A i \in 1 .. j - 1 : ~Votes(Sorted[i], action, request)
      BY <1>3 DEF FirstOf, N
    <2>2. hit \in Voting(request, action)
      BY <1>1, <2>1, VotingIsVotes
    <2>3. ASSUME NEW m \in Voting(request, action), m # hit
          PROVE  Precedes(policies, hit, m)
      <3>1. m \in InForce /\ Votes(m, action, request)
        BY <2>3, VotingIsVotes
      <3>2. PICK k \in 1 .. N : Sorted[k] = m
        BY <1>1, <3>1
      <3>3. ~(k < j) /\ k # j
        BY <1>1, <2>1, <2>3, <3>1, <3>2
      <3>4. j < k
        BY <1>1, <3>3
      <3>5. QED
        BY <1>1, <2>1, <3>2, <3>4
    <2>4. QED
      BY <1>3, <2>2, <2>3 DEF IsFirst
  <1>4. QED
    BY <1>2, <1>3

(* What the engine decides of a request, by who votes for what.            *)
Follows(decision, request) ==
  \/ decision.status = "denied" /\ IsFirst(decision.by, request, "deny")
  \/ /\ decision.status = "narrowed" /\ NoVoters(request, {"deny"})
     /\ IsFirst(decision.by, request, "narrow")
  \/ /\ decision.status = "escalated" /\ NoVoters(request, {"deny", "narrow"})
     /\ IsFirst(decision.by, request, "require_approval")
  \/ /\ decision.status = "approved" /\ NoVoters(request, {"deny", "narrow", "require_approval"})
     /\ IsFirst(decision.by, request, "allow")
  \/ /\ decision.status = "denied" /\ decision.by = 0
     /\ NoVoters(request, {"deny", "narrow", "require_approval", "allow"})

LEMMA EvaluationFollows ==
  ASSUME policies \in Seq(PolicySet), NEW request
  PROVE  Follows(Evaluate(request), request)
  <1> DEFINE hits == Hits(request)
             First(action) ==
               IF hits[action] = 0 THEN Voting(request, action) = {}
               ELSE IsFirst(hits[action], request, action)
  <1>1. First("deny")
    BY HitsAreFirst, FirstOfAllIsFirst
  <1>2. hits["deny"] = 0 => First("narrow") /\ First("require_approval") /\ First("allow")
    BY HitsAreFirst, FirstOfAllIsFirst DEF Actions
  <1>3. /\ hits["deny"] # 0 => Evaluate(request) = Decision("denied", hits["deny"])
        /\ (hits["deny"] = 0 /\ hits["narrow"] # 0)
             => Evaluate(request) = Decision("narrowed", hits["narrow"])
        /\ (hits["deny"] = 0 /\ hits["narrow"] = 0 /\ hits["require_approval"] # 0)
             => Evaluate(request) = Decision("escalated", hits["require_approval"])
        /\ (hits["deny"] = 0 /\ hits["narrow"] = 0 /\ hits["require_approval"] = 0)
             => Evaluate(request) = IF hits["allow"] # 0 THEN Decision("approved", hits["allow"])
                                   ELSE Decision("denied", 0)
    BY DEF Evaluate
  <1> HIDE DEF hits
  <1>4. \A status, n : Decision(status, n).status = status /\ Decision(status, n).by = n
    BY DEF Decision
  <1>5. CASE hits["deny"] # 0
    BY <1>1, <1>3, <1>4, <1>5 DEF Follows
  <1>6. CASE hits["deny"] = 0 /\ hits["narrow"] # 0
    BY <1>1, <1>2, <1>3, <1>4, <1>6 DEF Follows, NoVoters
  <1>7. CASE hits["deny"] = 0 /\ hits["narrow"] = 0 /\ hits["require_approval"] # 0
    BY <1>1, <1>2, <1>3, <1>4, <1>7 DEF Follows, NoVoters
  <1>8. CASE hits["deny"] = 0 /\ hits["narrow"] = 0 /\ hits["require_approval"] = 0
    BY <1>1, <1>2, <1>3, <1>4, <1>8 DEF Follows, NoVoters
  <1>9. QED
    BY <1>5, <1>6, <1>7, <1>8

LEMMA DecisionsAreReference ==
  ASSUME policies \in Seq(PolicySet)
  PROVE  DecisionIsReference
  <1> SUFFICES ASSUME NEW request \in Request PROVE Follows(Evaluate(request), request)
    BY DEF DecisionIsReference, Follows, IsFirst, NoVoters
  <1>1. QED
    BY EvaluationFollows

LEMMA PhasesFollow ==
  ASSUME policies \in Seq(PolicySet), listed = policies
  PROVE  PhasesFollowTheRulesThatNameThem
  <1> SUFFICES
        ASSUME NEW phase \in Resources
        PROVE  LET request == [resource |-> phase, real |-> FALSE]
                   Names(rule) == rule.pattern \in {"phase:*", phase}
               IN  /\ (\E n \in Voting(request, "deny") : Names(RuleOf(n, request)))
                        => ConsultPhase(phase) = "denied"
                   /\ ConsultPhase(phase) = "denied"
                        => \E n \in DOMAIN policies : \E k \in DOMAIN policies[n].rules :
                             Names(policies[n].rules[k])
    BY DEF PhasesFollowTheRulesThatNameThem
  <1> DEFINE request == [resource |-> phase, real |-> FALSE]
             Names(rule) == rule.pattern \in {"phase:*", phase}
  <1>1. ConsultPhase(phase) = "denied" =>
          \E n \in DOMAIN policies : \E k \in DOMAIN policies[n].rules :
            Names(policies[n].rules[k])
    BY DEF ConsultPhase, HasApplicablePhasePolicy
  <1>2. ASSUME NEW n \in Voting(request, "deny"), Names(RuleOf(n, request))
        PROVE  ConsultPhase(phase) = "denied"
    <2>1. n \in DOMAIN policies /\ Spokesman(n, request) # 0
      BY DEF Voting
    <2>2. HasApplicablePhasePolicy(phase)
      BY <1>2, <2>1, SpokesmanMatches DEF HasApplicablePhasePolicy, RuleOf
    <2>3. Evaluate(request).status = "denied"
      BY EvaluationFollows DEF Follows, NoVoters
    <2>4. QED
      BY <2>2, <2>3 DEF ConsultPhase, Refused
  <1>3. QED
    BY <1>1, <1>2
-----------------------------------------------------------------------------
(* A requested scope that a rule has narrowed holds a call to the rule.    *)
LEMMA NarrowedCallsStayWithin ==
  ASSUME NEW rule \in PolicyRule, NEW a \in Arguments,
         ValidateScopeConstraints(a, ApplyNarrowing(RequestedConstraints(a), rule.narrowing))
  PROVE  Within(a, rule.narrowing)
  <1> DEFINE n == rule.narrowing
             c == ApplyNarrowing(RequestedConstraints(a), n)
  <1>1. n.max \in {NoLimit} \cup Nat
    BY DEF PolicyRule
  <1>2. /\ a.max \in Nat /\ a.limit \in Nat
        /\ "max_results" \notin a.keys => a.max = 0
        /\ "limit" \notin a.keys => a.limit = 0
    BY EngineAssumption DEF Arguments
  <1>3. /\ n.allowed # NoList => c.allowed = n.allowed
        /\ n.excluded # NoList => c.excluded = n.excluded
        /\ n.max # NoLimit => c.max = n.max
    BY DEF ApplyNarrowing
  <1>4. /\ c.allowed # NoList => a.keys \subseteq c.allowed
        /\ c.excluded # NoList => a.keys \cap c.excluded = {}
        /\ c.max # NoLimit => /\ "max_results" \in a.keys => a.max <= c.max
                              /\ "limit" \in a.keys => a.limit <= c.max
    BY DEF ValidateScopeConstraints
  <1> HIDE DEF n, c
  <1>5. n.allowed # NoList => a.keys \subseteq n.allowed
    BY <1>3, <1>4
  <1>6. n.excluded # NoList => a.keys \cap n.excluded = {}
    BY <1>3, <1>4
  <1>7. n.max # NoLimit => a.max <= n.max /\ a.limit <= n.max
    BY <1>1, <1>2, <1>3, <1>4
  <1>8. QED
    BY <1>5, <1>6, <1>7 DEF Within, n

LEMMA NarrowedByARule ==
  ASSUME policies \in Seq(PolicySet), NEW request, Evaluate(request).status = "narrowed"
  PROVE  RuleOf(Evaluate(request).by, request) \in PolicyRule
  <1>1. Evaluate(request).by \in Voting(request, "narrow")
    BY EvaluationFollows DEF Follows, IsFirst
  <1>2. QED
    BY <1>1, SpokesmanMatches DEF Voting

LEMMA CallsStayWithin ==
  ASSUME policies \in Seq(PolicySet)
  PROVE  ExecutedWithinNarrowing
  <1> SUFFICES
        ASSUME NEW resource \in Resources, NEW a \in Arguments,
               Evaluate([resource |-> resource, real |-> TRUE]).status = "narrowed",
               ValidateScopeConstraints(a,
                 GrantedConstraints(Evaluate([resource |-> resource, real |-> TRUE]),
                                    [resource |-> resource, real |-> TRUE], a))
        PROVE  Within(a, RuleOf(Evaluate([resource |-> resource, real |-> TRUE]).by,
                                [resource |-> resource, real |-> TRUE]).narrowing)
    BY DEF ExecutedWithinNarrowing
  <1> DEFINE request == [resource |-> resource, real |-> TRUE]
             rule == RuleOf(Evaluate(request).by, request)
  <1>1. rule \in PolicyRule
    BY NarrowedByARule
  <1>2. ValidateScopeConstraints(a, ApplyNarrowing(RequestedConstraints(a), rule.narrowing))
    BY DEF GrantedConstraints
  <1> HIDE DEF rule
  <1>3. Within(a, rule.narrowing)
    BY <1>1, <1>2, NarrowedCallsStayWithin
  <1>4. QED
    BY <1>3 DEF rule
-----------------------------------------------------------------------------
(* The engine and its evaluator hold the same policies.                    *)
ListsInv == policies \in Seq(PolicySet) /\ listed = policies

LEMMA AgeHasAList ==
  ASSUME NEW list \in Seq(PolicySet), NEW S \in SUBSET DOMAIN list
  PROVE  /\ Cardinality(S) \in Nat /\ Cardinality(S) <= Len(list)
         /\ \E e \in [1 .. Cardinality(S) -> S] :
              \A j, k \in 1 .. Cardinality(S) : j < k => e[j] < e[k]
  <1> DEFINE R == {p \in S \X S : p[1] < p[2]}
  <1>1. Len(list) \in Nat /\ DOMAIN list = 1 .. Len(list)
    BY Entries
  <1>2. IsFiniteSet(1 .. Len(list)) /\ Cardinality(1 .. Len(list)) = Len(list)
    <2>1. \A n \in Nat : IsFiniteSet(1 .. n) /\ Cardinality(1 .. n) = n
      BY FS_Interval
    <2>2. QED
      BY <1>1, <2>1
  <1>3. IsFiniteSet(S) /\ Cardinality(S) <= Len(list)
    BY <1>1, <1>2, FS_Subset
  <1>4. Cardinality(S) \in Nat
    BY <1>3, FS_CardinalityType
  <1>5. \A x, y \in S : <<x, y>> \in R <=> x < y
    OBVIOUS
  <1> HIDE DEF R
  <1>6. StrictOrder(S, R)
    BY <1>1, <1>5 DEF StrictOrder
  <1>7. PICK e : Lists(e, S, R)
    BY <1>3, <1>6, OrderHasAList
  <1>8. QED
    BY <1>3, <1>4, <1>5, <1>7 DEF Lists

LEMMA WithoutIsShorter ==
  ASSUME NEW list \in Seq(PolicySet), NEW id
  PROVE  Without(list, id) \in Seq(PolicySet) /\ Len(Without(list, id)) <= Len(list)
  <1> DEFINE S == {n \in DOMAIN list : list[n].id # id}
             N == Cardinality(S)
             kept == InOrder(S, LAMBDA m, n : m < n)
  <1>1. S \in SUBSET DOMAIN list
    OBVIOUS
  <1> HIDE DEF S
  <1>2. N \in Nat /\ N <= Len(list) /\ kept \in [1 .. N -> S]
    BY <1>1, AgeHasAList DEF InOrder
  <1>3. Without(list, id) = [k \in DOMAIN kept |-> list[kept[k]]]
    BY DEF Without, S
  <1> HIDE DEF N, kept
  <1>4. Without(list, id) = [k \in 1 .. N |-> list[kept[k]]]
    BY <1>2, <1>3
  <1>5. \A k \in 1 .. N : list[kept[k]] \in PolicySet
    BY <1>1, <1>2, Entries
  <1>6. QED
    BY <1>2, <1>4, <1>5, Entries

LEMMA EngineKeepsTheLists ==
  ASSUME ListsInv, [Next]_vars
  PROVE  ListsInv'
  <1>1. CASE AddPolicy
    <2>1. PICK p \in Catalogue : listed' = Append(listed, p) /\ policies' = Append(policies, p)
      BY <1>1 DEF AddPolicy
    <2>2. p \in PolicySet
      BY EngineAssumption
    <2>3. QED
      BY <2>1, <2>2 DEF ListsInv
  <1>2. CASE RemovePolicy
    <2>1. PICK n \in DOMAIN policies : /\ policies' = Without(policies, policies[n].id)
                                      /\ listed' = Without(listed, policies[n].id)
      BY <1>2 DEF RemovePolicy
    <2>2. QED
      BY <2>1, WithoutIsShorter DEF ListsInv
  <1>3. CASE Tick \/ UNCHANGED vars
    BY <1>3 DEF Tick, vars, ListsInv
  <1>4. QED
    BY <1>1, <1>2, <1>3 DEF Next

LEMMA ManifestStepsAreEngineSteps == [ManifestNext]_manifestVars => [Next]_vars
  BY DEF ManifestNext, manifestVars, Heartbeat, Add, TakeAway, Next, vars

LEMMA InitListsInv == ManifestInit => ListsInv
  BY ManifestAssumption DEF ManifestInit, ListsInv

LEMMA AlwaysListsInv == ManifestSpec => []ListsInv
  <1>1. ListsInv /\ [ManifestNext]_manifestVars => ListsInv'
    BY ManifestStepsAreEngineSteps, EngineKeepsTheLists
  <1>2. QED
    BY InitListsInv, <1>1, PTL DEF ManifestSpec

(* For any policies, however added and removed, and at any time: what the  *)
(* evaluator decides of a request, and whether the engine opens a phase,   *)
(* is settled by which policies in force vote for which action             *)
(* (policy-evaluator.ts:175-294, policy-engine.ts:157-178).                *)
THEOREM AnswersTheorem == ManifestSpec => []AnswersAreReference
  <1>1. ListsInv => AnswersAreReference
    BY DecisionsAreReference, PhasesFollow DEF ListsInv, AnswersAreReference
  <1>2. QED
    BY AlwaysListsInv, <1>1, PTL

(* Whatever the arguments are and whatever the rules narrow: a call that   *)
(* the registry lets through under a narrowed scope is within the          *)
(* narrowing (applyNarrowing, validateScopeConstraints).                   *)
THEOREM NarrowingTheorem == ManifestSpec => []ExecutedWithinNarrowing
  <1>1. ListsInv => ExecutedWithinNarrowing
    BY CallsStayWithin DEF ListsInv
  <1>2. QED
    BY AlwaysListsInv, <1>1, PTL
-----------------------------------------------------------------------------
LEMMA AdditionsKeepVoters ==
  ASSUME ListsInv, [Next]_vars, now' = now, Len(policies') > Len(policies),
         NEW CONSTANT request, NEW CONSTANT action
  PROVE  Voting(request, action) \subseteq Voting(request, action)'
  <1>1. CASE AddPolicy
    <2>1. PICK p \in Catalogue : policies' = Append(policies, p)
      BY <1>1 DEF AddPolicy
    <2>2. /\ DOMAIN policies \subseteq DOMAIN policies'
          /\ \A n \in DOMAIN policies : policies'[n] = policies[n]
      BY <2>1, Entries DEF ListsInv
    <2>3. ASSUME NEW n \in DOMAIN policies
          PROVE  /\ InWindow(policies[n])' <=> InWindow(policies[n])
                 /\ Spokesman(n, request)' = Spokesman(n, request)
                 /\ RuleOf(n, request)' = RuleOf(n, request)
      <3>1. InWindow(policies[n])' <=> InWindow(policies[n])
        BY <2>2 DEF InWindow
      <3>2. Spokesman(n, request)' = Spokesman(n, request)
        BY <2>2 DEF Spokesman, SelectInSeq, RuleMatches, InWindow
      <3>3. QED
        BY <2>2, <3>1, <3>2 DEF RuleOf
    <2>4. QED
      BY <2>2, <2>3 DEF Voting
  <1>2. CASE RemovePolicy
    <2>1. Len(policies') <= Len(policies)
      BY <1>2, WithoutIsShorter DEF RemovePolicy, ListsInv
    <2>2. Len(policies) \in Nat /\ Len(policies') \in Nat
      BY EngineKeepsTheLists DEF ListsInv
    <2>3. QED
      BY <2>1, <2>2
  <1>3. CASE Tick \/ UNCHANGED vars
    BY <1>3, Entries DEF Tick, vars, ListsInv
  <1>4. QED
    BY <1>1, <1>2, <1>3 DEF Next

(* Adding any policy leaves what a rule has denied denied, and what one    *)
(* has narrowed narrowed or denied (addPolicy, PolicyEvaluator.evaluate).  *)
THEOREM AdditionsTheorem == ManifestSpec => AdditionsNeverUnrestrict
  <1> DEFINE Step == (now' = now /\ Len(policies') > Len(policies)) =>
                       \A request \in Request :
                         LET before == Evaluate(request)
                             after  == Evaluate(request)'
                         IN  /\ (before.status = "denied" /\ before.by # 0) => after.status = "denied"
                             /\ before.status = "narrowed" => after.status \in {"narrowed", "denied"}
  <1>1. ListsInv => \A request \in Request : Follows(Evaluate(request), request)
    BY EvaluationFollows DEF ListsInv
  <1>2. ListsInv' => (\A request \in Request : Follows(Evaluate(request), request))'
    BY <1>1, PTL
  <1>3. ListsInv /\ [ManifestNext]_manifestVars => Step \/ UNCHANGED vars
    <2> SUFFICES ASSUME ListsInv, [ManifestNext]_manifestVars, now' = now,
                        Len(policies') > Len(policies), NEW request \in Request
                 PROVE  /\ (Evaluate(request).status = "denied" /\ Evaluate(request).by # 0)
                             => Evaluate(request)'.status = "denied"
                        /\ Evaluate(request).status = "narrowed"
                             => Evaluate(request)'.status \in {"narrowed", "denied"}
      OBVIOUS
    <2>1. [Next]_vars
      BY ManifestStepsAreEngineSteps
    <2>2. /\ Voting(request, "deny") \subseteq Voting(request, "deny")'
          /\ Voting(request, "narrow") \subseteq Voting(request, "narrow")'
      BY <2>1, AdditionsKeepVoters
    <2>3. Follows(Evaluate(request), request)
      BY <1>1
    <2>4. Follows(Evaluate(request), request)'
      BY <1>2, <2>1, EngineKeepsTheLists
    <2>5. QED
      BY <2>2, <2>3, <2>4 DEF Follows, IsFirst, NoVoters
  <1>4. QED
    BY <1>3, AlwaysListsInv, PTL DEF ManifestSpec, AdditionsNeverUnrestrict
-----------------------------------------------------------------------------
WhyHidden(entry, tool) ==
  \/ entry.why = "sandbox" /\ ~AllowedForPreview(tool)
  \/ entry.why = "default"
  \/ entry.why = "rule" /\ Voting([resource |-> tool, real |-> FALSE], "deny") # {}

(* The manifest shown is the one that would be compiled now, as long as no *)
(* policy was added; and what hid a tool then hides it still.              *)
ShownInv ==
  Current => /\ ~added => shown = BuildManifest
             /\ setup.previews =>
                  \A tool \in Tools : shown[tool].level = "blocked" => WhyHidden(shown[tool], tool)

LEMMA FirstIsUnique ==
  ASSUME policies \in Seq(PolicySet), NEW request, NEW action,
         NEW m, NEW n, IsFirst(m, request, action), IsFirst(n, request, action)
  PROVE  m = n
  <1>1. m \in DOMAIN policies /\ n \in DOMAIN policies
    BY DEF IsFirst, Voting
  <1>2. m \in Nat /\ n \in Nat /\ policies[m].priority \in Int /\ policies[n].priority \in Int
    BY <1>1, Entries
  <1>3. m # n => Precedes(policies, m, n) /\ Precedes(policies, n, m)
    BY DEF IsFirst
  <1>4. QED
    BY <1>2, <1>3 DEF Precedes

(* The policies' votes settle the decision.                                *)
LEMMA SameVotesSameDecision ==
  ASSUME policies \in Seq(PolicySet), NEW r1, NEW r2,
         \A action : Voting(r1, action) = Voting(r2, action),
         NEW d1, NEW d2, Follows(d1, r1), Follows(d2, r2)
  PROVE  d1.status = d2.status /\ d1.by = d2.by
  <1>1. \A n, action : IsFirst(n, r1, action) <=> IsFirst(n, r2, action)
    BY DEF IsFirst
  <1>2. \A actions : NoVoters(r1, actions) <=> NoVoters(r2, actions)
    BY DEF NoVoters
  <1>3. Follows(d2, r1)
    BY <1>1, <1>2 DEF Follows
  <1>4. \A action, n : IsFirst(n, r1, action) => Voting(r1, action) # {}
    BY DEF IsFirst
  <1>5. d1.status = d2.status
    BY <1>3, <1>4 DEF Follows, NoVoters
  <1>6. d1.by = d2.by
    BY <1>3, <1>4, <1>5, FirstIsUnique DEF Follows, NoVoters
  <1>7. QED
    BY <1>5, <1>6

LEMMA VotesStay ==
  ASSUME UNCHANGED <<policies, now>>, NEW CONSTANT request
  PROVE  /\ \A n : Spokesman(n, request)' = Spokesman(n, request)
         /\ \A n : RuleOf(n, request)' = RuleOf(n, request)
         /\ \A action : Voting(request, action)' = Voting(request, action)
  <1>1. \A n : Spokesman(n, request)' = Spokesman(n, request)
    BY DEF Spokesman, SelectInSeq, RuleMatches, InWindow
  <1>2. \A n : RuleOf(n, request)' = RuleOf(n, request)
    BY <1>1 DEF RuleOf
  <1>3. \A action : Voting(request, action)' = Voting(request, action)
    BY <1>1, <1>2 DEF Voting, InWindow
  <1>4. QED
    BY <1>1, <1>2, <1>3

LEMMA FollowsLater == ListsInv' => (\A request : Follows(Evaluate(request), request))'
  <1>1. ListsInv => \A request : Follows(Evaluate(request), request)
    BY EvaluationFollows DEF ListsInv
  <1>2. QED
    BY <1>1, PTL

LEMMA DecisionStays ==
  ASSUME ListsInv, UNCHANGED <<listed, policies, now>>, NEW CONSTANT request
  PROVE  /\ Evaluate(request).status' = Evaluate(request).status
         /\ Evaluate(request).by' = Evaluate(request).by
  <1>1. Follows(Evaluate(request), request)
    BY EvaluationFollows DEF ListsInv
  <1>2. ListsInv'
    BY DEF ListsInv
  <1>3. Follows(Evaluate(request), request)'
    BY <1>2, FollowsLater
  <1>4. \A action : Voting(request, action)' = Voting(request, action)
    BY VotesStay
  <1>5. \A n, action : IsFirst(n, request, action)' <=> IsFirst(n, request, action)
    BY <1>4 DEF IsFirst, Precedes
  <1>6. \A actions : NoVoters(request, actions)' <=> NoVoters(request, actions)
    BY <1>4 DEF NoVoters
  <1> DEFINE later == Evaluate(request)'
  <1>7. Follows(later, request)
    BY <1>3, <1>5, <1>6 DEF Follows
  <1> HIDE DEF later
  <1>8. later.status = Evaluate(request).status /\ later.by = Evaluate(request).by
    BY <1>1, <1>7, SameVotesSameDecision DEF ListsInv
  <1>9. QED
    BY <1>8 DEF later
-----------------------------------------------------------------------------
QuestionOf(tool) == [resource |-> tool, real |-> FALSE]
CallOf(tool) == [resource |-> tool, real |-> TRUE]

(* What a preview says, by the decision it was given.                      *)
Says(entry, level, why, constraints) ==
  /\ entry.level = level /\ entry.why = why /\ entry.constraints = constraints
  /\ \A c : /\ [entry EXCEPT !.constraints = c].level = level
            /\ [entry EXCEPT !.constraints = c].why = why
            /\ [entry EXCEPT !.constraints = c].constraints = c

LEMMA EntrySays ==
  ASSUME NEW level, NEW why, NEW constraints
  PROVE  Says(Entry(level, why, constraints), level, why, constraints)
  BY DEF Says, Entry

FollowsPreview(entry, d, tool) ==
  /\ ~AllowedForPreview(tool) => Says(entry, "blocked", "sandbox", NoConstraints)
  /\ AllowedForPreview(tool) =>
       /\ d.status = "approved" => Says(entry, "pre_authorized", "", NoConstraints)
       /\ d.status = "narrowed" =>
            Says(entry, "requires_delegation", "narrowed",
                 ApplyNarrowing(NoConstraints, RuleOf(d.by, QuestionOf(tool)).narrowing))
       /\ d.status = "escalated" => Says(entry, "requires_delegation", "", NoConstraints)
       /\ d.status = "denied" =>
            Says(entry, "blocked", IF d.by = 0 THEN "default" ELSE "rule", NoConstraints)

LEMMA PreviewOfDecision ==
  ASSUME NEW tool
  PROVE  FollowsPreview(Preview(tool), Evaluate(QuestionOf(tool)), tool)
  BY EntrySays DEF Preview, QuestionOf, FollowsPreview

LEMMA StatusIsKnown ==
  ASSUME policies \in Seq(PolicySet), NEW request
  PROVE  Evaluate(request).status \in {"approved", "narrowed", "escalated", "denied"}
  BY EvaluationFollows DEF Follows

LEMMA PreviewStays ==
  ASSUME ListsInv, UNCHANGED <<listed, policies, now, setup>>, NEW CONSTANT tool
  PROVE  Preview(tool)' = Preview(tool)
  <1> DEFINE d == Evaluate(QuestionOf(tool))
             r == RuleOf(Evaluate(QuestionOf(tool)).by, QuestionOf(tool))
  <1>1. d.status' = d.status /\ d.by' = d.by
    BY DecisionStays DEF QuestionOf
  <1>2. \A n : RuleOf(n, QuestionOf(tool))' = RuleOf(n, QuestionOf(tool))
    BY VotesStay DEF QuestionOf
  <1>3. r' = r
    BY <1>1, <1>2
  <1>4. AllowedForPreview(tool)' <=> AllowedForPreview(tool)
    BY DEF AllowedForPreview, sandbox
  <1>5. QED
    BY <1>1, <1>3, <1>4 DEF Preview, QuestionOf

LEMMA ManifestStays ==
  ASSUME ListsInv, UNCHANGED <<listed, policies, now, setup>>
  PROVE  BuildManifest' = BuildManifest
  <1>1. \A tool \in Tools : Preview(tool)' = Preview(tool)
    BY PreviewStays
  <1>2. \A tool \in Tools : OwnReading(tool)' = OwnReading(tool)
    BY DEF OwnReading, Admitted, AllowedForPreview, sandbox
  <1>3. QED
    BY <1>1, <1>2 DEF BuildManifest

(* The line of a tool in a manifest compiled with previews is the preview, *)
(* up to constraints collected where it gives none.                        *)
LEMMA LineIsPreview ==
  ASSUME setup.previews, NEW tool \in Tools, NEW level, NEW why, NEW constraints,
         Says(Preview(tool), level, why, constraints)
  PROVE  LET entry == BuildManifest[tool]
         IN  /\ entry.level = level /\ entry.why = why
             /\ why = "narrowed" => entry.constraints = constraints
  BY DEF BuildManifest, Says

LEMMA LineOfDecision ==
  ASSUME ListsInv, setup.previews, NEW tool \in Tools,
         NEW line, line = BuildManifest[tool], NEW d, d = Evaluate(QuestionOf(tool))
  PROVE  /\ line.level = "blocked" =>
              \/ line.why = "sandbox" /\ ~AllowedForPreview(tool)
              \/ line.why = "default" /\ d.status = "denied" /\ d.by = 0
              \/ line.why = "rule" /\ d.status = "denied" /\ d.by # 0
         /\ line.level = "pre_authorized" => d.status = "approved"
         /\ line.level = "requires_delegation" =>
              AllowedForPreview(tool) /\ d.status \in {"narrowed", "escalated"}
  <1>1. d.status \in {"approved", "narrowed", "escalated", "denied"}
    BY StatusIsKnown DEF ListsInv
  <1>2. FollowsPreview(Preview(tool), d, tool)
    BY PreviewOfDecision
  <1>3. CASE ~AllowedForPreview(tool)
    <2>1. line.level = "blocked" /\ line.why = "sandbox"
      BY <1>2, <1>3, LineIsPreview DEF FollowsPreview
    <2>2. QED
      BY <1>3, <2>1
  <1>4. CASE AllowedForPreview(tool) /\ d.status = "approved"
    <2>1. line.level = "pre_authorized"
      BY <1>2, <1>4, LineIsPreview DEF FollowsPreview
    <2>2. QED
      BY <1>4, <2>1
  <1>5. CASE AllowedForPreview(tool) /\ d.status \in {"narrowed", "escalated"}
    <2>1. line.level = "requires_delegation"
      BY <1>2, <1>5, LineIsPreview DEF FollowsPreview
    <2>2. QED
      BY <1>5, <2>1
  <1>6. CASE AllowedForPreview(tool) /\ d.status = "denied"
    <2>1. line.level = "blocked" /\ line.why = IF d.by = 0 THEN "default" ELSE "rule"
      BY <1>2, <1>6, LineIsPreview DEF FollowsPreview
    <2>2. QED
      BY <1>6, <2>1
  <1>7. QED
    BY <1>1, <1>3, <1>4, <1>5, <1>6

LEMMA HiddenForAReason ==
  ASSUME ListsInv, setup.previews, NEW tool \in Tools, BuildManifest[tool].level = "blocked"
  PROVE  WhyHidden(BuildManifest[tool], tool)
  <1> DEFINE d == Evaluate(QuestionOf(tool))
  <1>1. Follows(d, QuestionOf(tool))
    BY EvaluationFollows DEF ListsInv
  <1>2. \/ BuildManifest[tool].why = "sandbox" /\ ~AllowedForPreview(tool)
        \/ BuildManifest[tool].why = "default"
        \/ BuildManifest[tool].why = "rule" /\ d.status = "denied" /\ d.by # 0
    BY LineOfDecision
  <1> HIDE DEF d
  <1>3. (d.status = "denied" /\ d.by # 0) => Voting(QuestionOf(tool), "deny") # {}
    BY <1>1 DEF Follows, IsFirst
  <1>4. QED
    BY <1>2, <1>3 DEF WhyHidden, QuestionOf

LEMMA InitShownInv == ManifestInit => ShownInv
  BY DEF ManifestInit, ShownInv, Current

LEMMA NextShownInv ==
  ASSUME ListsInv, ShownInv, [ManifestNext]_manifestVars
  PROVE  ShownInv'
  <1>1. CASE Heartbeat
    <2>1. UNCHANGED <<listed, policies, now, setup>> /\ shown' = BuildManifest
      BY <1>1 DEF Heartbeat, vars
    <2>2. shown' = BuildManifest'
      BY <2>1, ManifestStays
    <2>3. ASSUME setup.previews, NEW tool \in Tools, shown'[tool].level = "blocked"
          PROVE  WhyHidden(shown[tool], tool)'
      <3>1. WhyHidden(shown'[tool], tool)
        BY <2>1, <2>3, HiddenForAReason
      <3>2. \A action : Voting(QuestionOf(tool), action)' = Voting(QuestionOf(tool), action)
        BY <2>1, VotesStay DEF QuestionOf
      <3>3. QED
        BY <2>1, <3>1, <3>2 DEF WhyHidden, QuestionOf, AllowedForPreview, sandbox
    <2>4. QED
      BY <2>1, <2>2, <2>3 DEF ShownInv
  <1>2. CASE Add
    <2>1. AddPolicy /\ added' = TRUE /\ UNCHANGED <<setup, shown, now>>
      BY <1>2 DEF Add, AddPolicy
    <2>2. Len(policies') > Len(policies)
      BY <2>1 DEF AddPolicy, ListsInv
    <2>3. ASSUME Current, setup.previews, NEW tool \in Tools, shown[tool].level = "blocked"
          PROVE  WhyHidden(shown[tool], tool)'
      <3>1. WhyHidden(shown[tool], tool)
        BY <2>3 DEF ShownInv
      <3>2. Voting(QuestionOf(tool), "deny") \subseteq Voting(QuestionOf(tool), "deny")'
        BY <2>1, <2>2, AdditionsKeepVoters DEF Next, QuestionOf
      <3>3. QED
        BY <2>1, <3>1, <3>2 DEF WhyHidden, QuestionOf, AllowedForPreview, sandbox
    <2>4. QED
      BY <2>1, <2>3 DEF ShownInv, Current
  <1>3. CASE TakeAway
    BY <1>3 DEF TakeAway, ShownInv, Current
  <1>4. CASE UNCHANGED manifestVars
    <2>1. UNCHANGED <<listed, policies, now, setup, shown, added>>
      BY <1>4 DEF manifestVars
    <2>2. BuildManifest' = BuildManifest
      BY <2>1, ManifestStays
    <2>3. ASSUME NEW tool \in Tools PROVE WhyHidden(shown[tool], tool) => WhyHidden(shown[tool], tool)'
      <3>1. \A action : Voting(QuestionOf(tool), action)' = Voting(QuestionOf(tool), action)
        BY <2>1, VotesStay DEF QuestionOf
      <3>2. QED
        BY <2>1, <3>1 DEF WhyHidden, QuestionOf, AllowedForPreview, sandbox
    <2>4. QED
      BY <2>1, <2>2, <2>3 DEF ShownInv, Current
  <1>5. QED
    BY <1>1, <1>2, <1>3, <1>4 DEF ManifestNext

LEMMA AlwaysManifestInv == ManifestSpec => [](ListsInv /\ ShownInv)
  <1>1. ManifestInit => ListsInv /\ ShownInv
    BY InitListsInv, InitShownInv
  <1>2. ListsInv /\ ShownInv /\ [ManifestNext]_manifestVars => (ListsInv /\ ShownInv)'
    BY ManifestStepsAreEngineSteps, EngineKeepsTheLists, NextShownInv
  <1>3. QED
    BY <1>1, <1>2, PTL DEF ManifestSpec
-----------------------------------------------------------------------------
(* To a tool without conditional rules a call and a question are the same. *)
LEMMA CalledAsAsked ==
  ASSUME policies \in Seq(PolicySet), NEW tool, Unconditional(tool)
  PROVE  /\ \A n \in DOMAIN policies : Spokesman(n, CallOf(tool)) = Spokesman(n, QuestionOf(tool))
         /\ \A n \in DOMAIN policies : RuleOf(n, CallOf(tool)) = RuleOf(n, QuestionOf(tool))
         /\ \A action : Voting(CallOf(tool), action) = Voting(QuestionOf(tool), action)
  <1>1. ASSUME NEW n \in DOMAIN policies
        PROVE  Spokesman(n, CallOf(tool)) = Spokesman(n, QuestionOf(tool))
    <2>1. DOMAIN policies[n].rules = 1 .. Len(policies[n].rules)
      BY Entries
    <2>2. ASSUME NEW k \in 1 .. Len(policies[n].rules)
          PROVE  RuleMatches(policies[n].rules[k], CallOf(tool))
                   <=> RuleMatches(policies[n].rules[k], QuestionOf(tool))
      <3>1. tool \in Covers[policies[n].rules[k].pattern] => policies[n].rules[k].needs = "nothing"
        BY <2>1 DEF Unconditional
      <3>2. QED
        BY <3>1 DEF RuleMatches, CallOf, QuestionOf
    <2>3. QED
      BY <2>2, SameRulesSameSpokesman
  <1>2. \A n \in DOMAIN policies : RuleOf(n, CallOf(tool)) = RuleOf(n, QuestionOf(tool))
    BY <1>1 DEF RuleOf
  <1>3. \A action : Voting(CallOf(tool), action) = Voting(QuestionOf(tool), action)
    BY <1>1, <1>2 DEF Voting
  <1>4. QED
    BY <1>1, <1>2, <1>3

LEMMA NarrowingOfNothing ==
  ASSUME NEW rule \in PolicyRule
  PROVE  ApplyNarrowing(NoConstraints, rule.narrowing) = rule.narrowing
  <1>1. PICK allowed, excluded, max :
          rule.narrowing = [allowed |-> allowed, excluded |-> excluded, max |-> max]
    BY DEF PolicyRule
  <1>2. QED
    BY <1>1 DEF ApplyNarrowing, NoConstraints

LEMMA ShownIsEnforced ==
  ASSUME ListsInv, ShownInv
  PROVE  ManifestIsEnforced
  <1> SUFFICES
        ASSUME Current, setup.previews, NEW tool \in Tools, Unconditional(tool)
        PROVE  LET entry    == shown[tool]
                   decision == Evaluate(CallOf(tool))
               IN  /\ (/\ entry.level = "blocked"
                       /\ entry.why = "default" => ~added
                       /\ entry.why = "sandbox" => sandbox.allowed # {})
                        => Executed(tool) = {}
                   /\ (entry.level = "pre_authorized" /\ ~added) => decision.status = "approved"
                   /\ (entry.level = "requires_delegation" /\ ~added) =>
                        /\ decision.status \in {"narrowed", "escalated"}
                        /\ \A a \in Executed(tool) : Within(a, entry.constraints)
    BY DEF ManifestIsEnforced, CallOf
  <1> DEFINE entry == shown[tool]
             asked == Evaluate(QuestionOf(tool))
             called == Evaluate(CallOf(tool))
             rule == RuleOf(called.by, CallOf(tool))
  <1>1. policies \in Seq(PolicySet)
    BY DEF ListsInv
  <1>2. /\ Follows(asked, QuestionOf(tool)) /\ Follows(called, CallOf(tool))
        /\ asked.status \in {"approved", "narrowed", "escalated", "denied"}
    BY <1>1, EvaluationFollows, StatusIsKnown
  <1>3. \A action : Voting(CallOf(tool), action) = Voting(QuestionOf(tool), action)
    BY <1>1, CalledAsAsked
  <1>4. called.status = asked.status /\ called.by = asked.by
    BY <1>1, <1>2, <1>3, SameVotesSameDecision
  <1>5. ~added => entry = BuildManifest[tool]
    BY DEF ShownInv
  <1>6. FollowsPreview(Preview(tool), asked, tool)
    BY PreviewOfDecision
  <1>7. called.status = "denied" => Executed(tool) = {}
    BY DEF Executed, Refused, CallOf
  <1>8. ~Admitted(tool) => Executed(tool) = {}
    BY DEF Executed
  <1>9. called.status = "narrowed" =>
          /\ rule = RuleOf(asked.by, QuestionOf(tool)) /\ rule \in PolicyRule
          /\ \A a \in Executed(tool) : Within(a, rule.narrowing)
    <2>1. SUFFICES ASSUME called.status = "narrowed"
                   PROVE  /\ rule = RuleOf(asked.by, QuestionOf(tool)) /\ rule \in PolicyRule
                          /\ \A a \in Executed(tool) : Within(a, rule.narrowing)
      OBVIOUS
    <2>2. called.by \in DOMAIN policies
      BY <1>2, <2>1 DEF Follows, IsFirst, Voting
    <2>3. rule = RuleOf(asked.by, QuestionOf(tool))
      BY <1>1, <1>4, <2>2, CalledAsAsked
    <2>4. rule \in PolicyRule
      BY <1>1, <2>1, NarrowedByARule
    <2>5. ASSUME NEW a \in Executed(tool) PROVE Within(a, rule.narrowing)
      <3>1. /\ a \in Arguments
            /\ ValidateScopeConstraints(a, ApplyNarrowing(RequestedConstraints(a), rule.narrowing))
        BY <2>1 DEF Executed, GrantedConstraints, CallOf
      <3> HIDE DEF rule
      <3>2. QED
        BY <2>4, <3>1, NarrowedCallsStayWithin
    <2>6. QED
      BY <2>3, <2>4, <2>5
  <1> HIDE DEF asked, called, rule
  <1>10. ASSUME entry.level = "blocked", entry.why = "default" => ~added,
                entry.why = "sandbox" => sandbox.allowed # {}
         PROVE  Executed(tool) = {}
    <2>1. WhyHidden(entry, tool)
      BY <1>10 DEF ShownInv
    <2>2. CASE entry.why = "sandbox" /\ ~AllowedForPreview(tool)
      BY <1>8, <1>10, <2>2 DEF AllowedForPreview, Admitted
    <2>3. CASE entry.why = "default"
      <3>1. BuildManifest[tool].level = "blocked" /\ BuildManifest[tool].why = "default"
        BY <1>5, <1>10, <2>3
      <3>2. asked.status = "denied"
        BY <3>1, LineOfDecision DEF asked
      <3>3. QED
        BY <1>4, <1>7, <3>2
    <2>4. CASE Voting(QuestionOf(tool), "deny") # {}
      <3>1. called.status = "denied"
        BY <1>2, <1>3, <2>4 DEF Follows, NoVoters
      <3>2. QED
        BY <1>7, <3>1
    <2>5. QED
      BY <2>1, <2>2, <2>3, <2>4 DEF WhyHidden, QuestionOf
  <1>11. ASSUME ~added, entry.level = "pre_authorized" PROVE called.status = "approved"
    <2>1. BuildManifest[tool].level = "pre_authorized"
      BY <1>5, <1>11
    <2>2. asked.status = "approved"
      BY <2>1, LineOfDecision DEF asked
    <2>3. QED
      BY <1>4, <2>2
  <1>12. ASSUME ~added, entry.level = "requires_delegation"
         PROVE  /\ called.status \in {"narrowed", "escalated"}
                /\ \A a \in Executed(tool) : Within(a, entry.constraints)
    <2>1. BuildManifest[tool].level = "requires_delegation"
      BY <1>5, <1>12
    <2>2. asked.status \in {"narrowed", "escalated"} /\ AllowedForPreview(tool)
      BY <2>1, LineOfDecision DEF asked
    <2>3. ASSUME called.status = "narrowed"
          PROVE  entry.constraints = rule.narrowing
      <3>1. ApplyNarrowing(NoConstraints, RuleOf(asked.by, QuestionOf(tool)).narrowing) = rule.narrowing
        BY <1>9, <2>3, NarrowingOfNothing
      <3>2. Says(Preview(tool), "requires_delegation", "narrowed", rule.narrowing)
        BY <1>4, <1>6, <2>2, <2>3, <3>1 DEF FollowsPreview
      <3>3. BuildManifest[tool].constraints = rule.narrowing
        BY <2>3, <3>2, LineIsPreview
      <3>4. QED
        BY <1>5, <1>12, <3>3
    <2>4. called.status = "escalated" => Executed(tool) = {}
      BY DEF Executed, Refused, CallOf, called
    <2>5. QED
      BY <1>4, <1>9, <2>2, <2>3, <2>4
  <1>13. QED
    BY <1>10, <1>11, <1>12 DEF called, rule

(* What a manifest compiled from previews says of a tool is what happens   *)
(* to a call made on it, for any tools, sandboxes, rules and windows, and  *)
(* for hidden tools also after policies were added (buildManifest,         *)
(* InProcessPolicyEngine.preview, ToolRegistry.execute).                   *)
THEOREM ManifestTheorem == ManifestSpec => []ManifestIsEnforced
  <1>1. ListsInv /\ ShownInv => ManifestIsEnforced
    BY ShownIsEnforced
  <1>2. QED
    BY AlwaysManifestInv, <1>1, PTL
-----------------------------------------------------------------------------
ClockInv == now \in 0 .. MaxTime /\ setup \in Setups

LEMMA AlwaysClockInv == ManifestSpec => []ClockInv
  <1>1. ManifestInit => ClockInv
    BY EngineAssumption DEF ManifestInit, ClockInv
  <1>2. ClockInv /\ [ManifestNext]_manifestVars => ClockInv'
    BY EngineAssumption
    DEF ClockInv, ManifestNext, manifestVars, Heartbeat, Add, TakeAway, AddPolicy, RemovePolicy,
        Tick, vars
  <1>3. QED
    BY <1>1, <1>2, PTL DEF ManifestSpec

LEMMA ListOfASet ==
  ASSUME NEW S, IsFiniteSet(S)
  PROVE  /\ \A k \in DOMAIN SetToSeq(S) : SetToSeq(S)[k] \in S
         /\ \A x \in S : \E k \in DOMAIN SetToSeq(S) : SetToSeq(S)[k] = x
  <1> DEFINE N == Cardinality(S)
             f == SetToSeq(S)
  <1>1. N \in Nat /\ ExistsBijection(1 .. N, S)
    BY FS_CardinalityType
  <1>2. IsFiniteSet(1 .. N) /\ Cardinality(1 .. N) = N
    <2>1. \A n \in Nat : IsFiniteSet(1 .. n) /\ Cardinality(1 .. n) = n
      BY FS_Interval
    <2>2. QED
      BY <1>1, <2>1
  <1>3. \E g \in [1 .. N -> S] : IsInjective(g)
    BY <1>1 DEF ExistsBijection, Bijection, Injection
  <1>4. f \in [1 .. N -> S] /\ IsInjective(f)
    BY <1>3 DEF SetToSeq
  <1> HIDE DEF N, f
  <1>5. f \in Injection(1 .. N, S)
    BY <1>4 DEF Injection
  <1>6. f \in Surjection(1 .. N, S)
    BY <1>1, <1>2, <1>5, FS_CardinalityType, FS_Injection DEF N
  <1>7. QED
    BY <1>4, <1>6 DEF Surjection, f

(* A policy made of a sandbox: always in force, one rule for each pattern. *)
MadeOf(policy, action, patterns) ==
  /\ policy.from = 0 /\ policy.until = MaxTime + 1
  /\ \A k \in DOMAIN policy.rules : \E p \in patterns : policy.rules[k] = Always(action, p)
  /\ \A p \in patterns : \E k \in DOMAIN policy.rules : policy.rules[k] = Always(action, p)

LEMMA SandboxPolicyMade ==
  ASSUME NEW patterns, IsFiniteSet(patterns), NEW id, NEW priority, NEW action
  PROVE  \/ patterns = {} /\ SandboxPolicy(id, priority, action, patterns) = <<>>
         \/ \E policy : /\ SandboxPolicy(id, priority, action, patterns) = <<policy>>
                        /\ MadeOf(policy, action, patterns)
  <1> SUFFICES ASSUME patterns # {}
               PROVE  \E policy : /\ SandboxPolicy(id, priority, action, patterns) = <<policy>>
                                  /\ MadeOf(policy, action, patterns)
    BY DEF SandboxPolicy
  <1> DEFINE S == {Always(action, p) : p \in patterns}
             f == [p \in patterns |-> Always(action, p)]
             policy == [id |-> id, priority |-> priority, from |-> 0, until |-> MaxTime + 1,
                        rules |-> SetToSeq(S)]
  <1>1. f \in Surjection(patterns, S)
    BY DEF Surjection
  <1>2. IsFiniteSet(S)
    BY <1>1, FS_Surjection
  <1>3. SandboxPolicy(id, priority, action, patterns) = <<policy>>
    BY DEF SandboxPolicy
  <1>4. /\ \A k \in DOMAIN SetToSeq(S) : SetToSeq(S)[k] \in S
        /\ \A x \in S : \E k \in DOMAIN SetToSeq(S) : SetToSeq(S)[k] = x
    BY <1>2, ListOfASet
  <1>5. MadeOf(policy, action, patterns)
    BY <1>4 DEF MadeOf
  <1>6. QED
    BY <1>3, <1>5

Offered(box) == IF "*" \in box.allowed THEN {"tool:*"} ELSE box.allowed

LEMMA SandboxPoliciesMade ==
  ASSUME NEW box, IsFiniteSet(box.allowed), IsFiniteSet(box.blocked),
         NEW list, list = BuildSandboxPolicySets(box)
  PROVE  /\ \A n \in DOMAIN list : \/ MadeOf(list[n], "deny", box.blocked)
                                   \/ MadeOf(list[n], "allow", Offered(box))
         /\ box.blocked # {} => \E n \in DOMAIN list : MadeOf(list[n], "deny", box.blocked)
         /\ Offered(box) # {} => \E n \in DOMAIN list : MadeOf(list[n], "allow", Offered(box))
  <1> DEFINE denies == SandboxPolicy("sandbox-deny", 1, "deny", box.blocked)
             allows == SandboxPolicy("sandbox-allow", 100, "allow", Offered(box))
  <1>1. list = denies \o allows
    BY DEF BuildSandboxPolicySets, Offered
  <1>2. IsFiniteSet(Offered(box))
    BY FS_Singleton DEF Offered
  <1>3. \/ box.blocked = {} /\ denies = <<>>
        \/ \E policy : denies = <<policy>> /\ MadeOf(policy, "deny", box.blocked)
    BY SandboxPolicyMade
  <1>4. \/ Offered(box) = {} /\ allows = <<>>
        \/ \E policy : allows = <<policy>> /\ MadeOf(policy, "allow", Offered(box))
    BY <1>2, SandboxPolicyMade
  <1> HIDE DEF denies, allows
  <1>5. CASE box.blocked = {} /\ denies = <<>> /\ Offered(box) = {} /\ allows = <<>>
    <2>1. list = <<>>
      BY <1>1, <1>5
    <2>2. QED
      BY <1>5, <2>1
  <1>6. ASSUME box.blocked = {}, denies = <<>>,
               NEW p, allows = <<p>>, MadeOf(p, "allow", Offered(box))
        PROVE  list = <<p>>
    BY <1>1, <1>6
  <1>7. ASSUME NEW p, denies = <<p>>, MadeOf(p, "deny", box.blocked),
               Offered(box) = {}, allows = <<>>
        PROVE  list = <<p>>
    BY <1>1, <1>7
  <1>8. ASSUME NEW p, denies = <<p>>, NEW q, allows = <<q>>
        PROVE  DOMAIN list = 1 .. 2 /\ list[1] = p /\ list[2] = q
    <2>1. <<p>> \in Seq({p, q}) /\ <<q>> \in Seq({p, q}) /\ Len(<<p>>) = 1 /\ Len(<<q>>) = 1
      OBVIOUS
    <2>2. list = <<p>> \o <<q>>
      BY <1>1, <1>8
    <2>3. Len(list) = 2 /\ DOMAIN list = 1 .. 2
      BY <2>1, <2>2
    <2>4. list[1] = p
      BY <2>1, <2>2
    <2>5. list[2] = q
      BY <2>1, <2>2
    <2>6. QED
      BY <2>3, <2>4, <2>5
  <1>9. CASE \E p : denies = <<p>> /\ MadeOf(p, "deny", box.blocked)
    <2>1. PICK p : denies = <<p>> /\ MadeOf(p, "deny", box.blocked)
      BY <1>9
    <2>2. CASE Offered(box) = {} /\ allows = <<>>
      <3>1. list = <<p>>
        BY <1>7, <2>1, <2>2
      <3>2. QED
        BY <2>1, <2>2, <3>1
    <2>3. CASE \E q : allows = <<q>> /\ MadeOf(q, "allow", Offered(box))
      <3>1. PICK q : allows = <<q>> /\ MadeOf(q, "allow", Offered(box))
        BY <2>3
      <3>2. DOMAIN list = 1 .. 2 /\ list[1] = p /\ list[2] = q
        BY <1>8, <2>1, <3>1
      <3>3. 1 \in DOMAIN list /\ 2 \in DOMAIN list /\ \A n \in DOMAIN list : n = 1 \/ n = 2
        BY <3>2
      <3>4. QED
        BY <2>1, <3>1, <3>2, <3>3
    <2>4. QED
      BY <1>4, <2>2, <2>3
  <1>10. CASE box.blocked = {} /\ denies = <<>>
    <2>1. CASE \E q : allows = <<q>> /\ MadeOf(q, "allow", Offered(box))
      <3>1. PICK q : allows = <<q>> /\ MadeOf(q, "allow", Offered(box))
        BY <2>1
      <3>2. list = <<q>>
        BY <1>6, <1>10, <3>1
      <3>3. QED
        BY <1>10, <3>1, <3>2
    <2>2. QED
      BY <1>4, <1>5, <1>10, <2>1
  <1>11. QED
    BY <1>3, <1>9, <1>10
-----------------------------------------------------------------------------
(* A policy made of a sandbox is always in force, and speaks for whatever  *)
(* one of its patterns covers.                                             *)
LEMMA MadeSpeaks ==
  ASSUME policies \in Seq(PolicySet), ClockInv, NEW n \in DOMAIN policies,
         NEW action, NEW patterns, MadeOf(policies[n], action, patterns), NEW request
  PROVE  /\ InWindow(policies[n])
         /\ Spokesman(n, request) # 0 <=> \E p \in patterns : request.resource \in Covers[p]
         /\ Spokesman(n, request) # 0 => RuleOf(n, request).action = action
  <1>1. now \in Int /\ 0 <= now /\ now < MaxTime + 1
    BY EngineAssumption DEF ClockInv
  <1>2. \A p : RuleMatches(Always(action, p), request) <=> request.resource \in Covers[p]
    BY <1>1 DEF RuleMatches, Always, InWindow
  <1>3. InWindow(policies[n])
    BY <1>1 DEF InWindow, MadeOf
  <1>4. ASSUME Spokesman(n, request) # 0
        PROVE  /\ \E p \in patterns : request.resource \in Covers[p]
               /\ RuleOf(n, request).action = action
    <2>1. /\ Spokesman(n, request) \in DOMAIN policies[n].rules
          /\ RuleMatches(RuleOf(n, request), request)
      BY <1>4, SpokesmanMatches
    <2>2. PICK p \in patterns : RuleOf(n, request) = Always(action, p)
      BY <2>1 DEF MadeOf, RuleOf
    <2>3. request.resource \in Covers[p]
      BY <1>2, <2>1, <2>2
    <2>4. Always(action, p).action = action
      BY DEF Always
    <2>5. QED
      BY <2>2, <2>3, <2>4
  <1>5. ASSUME NEW p \in patterns, request.resource \in Covers[p]
        PROVE  Spokesman(n, request) # 0
    <2>1. PICK k \in DOMAIN policies[n].rules : policies[n].rules[k] = Always(action, p)
      BY DEF MadeOf
    <2>2. RuleMatches(policies[n].rules[k], request)
      BY <1>2, <1>5, <2>1
    <2>3. QED
      BY <2>2, SpokesmanMatches
  <1>6. QED
    BY <1>3, <1>4, <1>5

LEMMA SandboxNames ==
  ASSUME setup \in Setups, NEW tool \in Tools
  PROVE  /\ IsFiniteSet(sandbox.allowed) /\ IsFiniteSet(sandbox.blocked)
         /\ (\E p \in sandbox.blocked : tool \in Covers[p]) <=> tool \in sandbox.blocked
         /\ (\E p \in Offered(sandbox) : tool \in Covers[p])
              <=> sandbox.allowed \cap {"*", tool} # {}
  <1>1. /\ IsFiniteSet(sandbox.allowed) /\ IsFiniteSet(sandbox.blocked)
        /\ \A name \in sandbox.blocked : Covers[name] = {name} \cap Resources
        /\ \A name \in sandbox.allowed \ {"*"} : Covers[name] = {name} \cap Resources
    BY ManifestAssumption DEF sandbox
  <1>2. tool \in Resources /\ tool \in Covers["tool:*"]
    BY ManifestAssumption
  <1>3. CASE "*" \in sandbox.allowed
    BY <1>1, <1>2, <1>3 DEF Offered
  <1>4. CASE "*" \notin sandbox.allowed
    BY <1>1, <1>2, <1>4 DEF Offered
  <1>5. QED
    BY <1>3, <1>4

SandboxIsPolicy == policies = setup.policies /\ setup.policies = BuildSandboxPolicySets(sandbox)

LEMMA SandboxVotes ==
  ASSUME ListsInv, ClockInv, SandboxIsPolicy, NEW tool \in Tools,
         NEW request, request.resource = tool
  PROVE  /\ Voting(request, "deny") # {} <=> tool \in sandbox.blocked
         /\ Voting(request, "allow") # {} <=> sandbox.allowed \cap {"*", tool} # {}
         /\ NoVoters(request, {"narrow", "require_approval"})
  <1> DEFINE box == sandbox
  <1>1. policies \in Seq(PolicySet)
    BY DEF ListsInv
  <1>2. setup \in Setups
    BY DEF ClockInv
  <1>3. /\ \A n \in DOMAIN policies : \/ MadeOf(policies[n], "deny", box.blocked)
                                      \/ MadeOf(policies[n], "allow", Offered(box))
        /\ box.blocked # {} => \E n \in DOMAIN policies : MadeOf(policies[n], "deny", box.blocked)
        /\ Offered(box) # {} => \E n \in DOMAIN policies : MadeOf(policies[n], "allow", Offered(box))
    <2>1. policies = BuildSandboxPolicySets(box)
      BY DEF SandboxIsPolicy
    <2>2. IsFiniteSet(box.allowed) /\ IsFiniteSet(box.blocked)
      BY <1>2, SandboxNames
    <2> HIDE DEF box
    <2>3. QED
      BY <2>1, <2>2, SandboxPoliciesMade
  <1>4. /\ (\E p \in box.blocked : tool \in Covers[p]) <=> tool \in box.blocked
        /\ (\E p \in Offered(box) : tool \in Covers[p]) <=> box.allowed \cap {"*", tool} # {}
    BY <1>2, SandboxNames
  <1> HIDE DEF box
  <1>5. ASSUME NEW n \in DOMAIN policies, NEW action, NEW patterns,
               MadeOf(policies[n], action, patterns)
        PROVE  /\ (\E p \in patterns : tool \in Covers[p]) => n \in Voting(request, action)
               /\ \A other : n \in Voting(request, other) =>
                    other = action /\ \E p \in patterns : tool \in Covers[p]
    BY <1>1, <1>5, MadeSpeaks DEF Voting
  <1>6. "deny" # "allow" /\ "narrow" \notin {"deny", "allow"}
          /\ "require_approval" \notin {"deny", "allow"}
    OBVIOUS
  <1>7. Voting(request, "deny") # {} <=> tool \in box.blocked
    <2>1. ASSUME NEW n \in Voting(request, "deny") PROVE tool \in box.blocked
      <3>1. n \in DOMAIN policies
        BY DEF Voting
      <3>2. QED
        BY <1>3, <1>4, <1>5, <1>6, <3>1
    <2>2. ASSUME tool \in box.blocked PROVE Voting(request, "deny") # {}
      BY <1>3, <1>4, <1>5, <2>2
    <2>3. QED
      BY <2>1, <2>2
  <1>8. Voting(request, "allow") # {} <=> box.allowed \cap {"*", tool} # {}
    <2>1. ASSUME NEW n \in Voting(request, "allow") PROVE \E p \in Offered(box) : tool \in Covers[p]
      <3>1. n \in DOMAIN policies
        BY DEF Voting
      <3>2. QED
        BY <1>3, <1>5, <1>6, <3>1
    <2>2. ASSUME \E p \in Offered(box) : tool \in Covers[p] PROVE Voting(request, "allow") # {}
      BY <1>3, <1>5, <2>2
    <2>3. QED
      BY <1>4, <2>1, <2>2
  <1>9. NoVoters(request, {"narrow", "require_approval"})
    <2>1. ASSUME NEW action \in {"narrow", "require_approval"}, NEW n \in Voting(request, action)
          PROVE  FALSE
      <3>1. n \in DOMAIN policies
        BY DEF Voting
      <3>2. QED
        BY <1>3, <1>5, <1>6, <3>1
    <2>2. QED
      BY <2>1 DEF NoVoters
  <1>10. QED
    BY <1>7, <1>8, <1>9 DEF box

LEMMA SandboxDecides ==
  ASSUME ListsInv, ClockInv, SandboxIsPolicy, NEW tool \in Tools,
         NEW request, request.resource = tool
  PROVE  Evaluate(request).status = IF AllowedForPreview(tool) THEN "approved" ELSE "denied"
  <1>1. Follows(Evaluate(request), request)
    BY EvaluationFollows DEF ListsInv
  <1>2. /\ Voting(request, "deny") # {} <=> tool \in sandbox.blocked
        /\ Voting(request, "allow") # {} <=> sandbox.allowed \cap {"*", tool} # {}
        /\ Voting(request, "narrow") = {} /\ Voting(request, "require_approval") = {}
    BY SandboxVotes DEF NoVoters
  <1>3. QED
    BY <1>1, <1>2 DEF Follows, IsFirst, NoVoters, AllowedForPreview

LEMMA SandboxExecutes ==
  ASSUME ListsInv, ClockInv, SandboxIsPolicy, NEW tool \in Tools
  PROVE  Executed(tool) # {} <=> AllowedForPreview(tool)
  <1>1. Evaluate(CallOf(tool)).status = IF AllowedForPreview(tool) THEN "approved" ELSE "denied"
    BY SandboxDecides DEF CallOf
  <1>2. ~AllowedForPreview(tool) => Executed(tool) = {}
    BY <1>1 DEF Executed, Refused, CallOf
  <1>3. ASSUME AllowedForPreview(tool) PROVE Executed(tool) # {}
    <2> DEFINE a == [keys |-> {}, max |-> 0, limit |-> 0]
    <2>1. a \in Arguments
      BY EngineAssumption DEF Arguments
    <2>2. Admitted(tool)
      BY <1>3 DEF AllowedForPreview, Admitted
    <2>3. ValidateScopeConstraints(a, RequestedConstraints(a))
      BY DEF ValidateScopeConstraints, RequestedConstraints, NoLimit, NoList
    <2>4. a \in Executed(tool)
      BY <1>1, <1>3, <2>1, <2>2, <2>3 DEF Executed, Refused, GrantedConstraints, CallOf
    <2>5. QED
      BY <2>4
  <1>4. QED
    BY <1>2, <1>3
-----------------------------------------------------------------------------
(* The rules the manifest takes to be about a tool are rules of the list.  *)
LEMMA RulesAboutAreRules ==
  ASSUME NEW list \in Seq(PolicySet), NEW tool, RulesAbout(tool, list) # <<>>
  PROVE  \E n \in DOMAIN list : \E k \in DOMAIN list[n].rules :
           /\ list[n].rules[k].pattern \in {tool, "tool:*"}
           /\ RulesAbout(tool, list)[1] = list[n].rules[k]
  <1> DEFINE row == [n \in DOMAIN list |-> {n} \X DOMAIN list[n].rules]
             rows == {{n} \X DOMAIN list[n].rules : n \in DOMAIN list}
             about == {p \in UNION rows : list[p[1]].rules[p[2]].pattern \in {tool, "tool:*"}}
             R == {r \in about \X about :
                     \/ r[1][1] = r[2][1] /\ r[1][2] < r[2][2]
                     \/ r[1][1] # r[2][1] /\ Precedes(list, r[1][1], r[2][1])}
             N == Cardinality(about)
             order == InOrder(about, LAMBDA p, q : \/ p[1] = q[1] /\ p[2] < q[2]
                                                   \/ p[1] # q[1] /\ Precedes(list, p[1], q[1]))
  <1>1. DOMAIN list = 1 .. Len(list) /\ Len(list) \in Nat
    BY Entries
  <1>2. \A n \in Nat : IsFiniteSet(1 .. n)
    BY FS_Interval
  <1>3. IsFiniteSet(rows)
    <2>1. row \in Surjection(DOMAIN list, rows)
      BY DEF Surjection
    <2>2. IsFiniteSet(DOMAIN list)
      BY <1>1, <1>2
    <2> HIDE DEF row, rows
    <2>3. QED
      BY <2>1, <2>2, FS_Surjection
  <1>4. \A T \in rows : IsFiniteSet(T)
    <2>1. ASSUME NEW n \in DOMAIN list PROVE IsFiniteSet({n} \X DOMAIN list[n].rules)
      <3>1. IsFiniteSet({n}) /\ IsFiniteSet(DOMAIN list[n].rules)
        <4>1. IsFiniteSet({n})
          BY FS_Singleton
        <4>2. DOMAIN list[n].rules = 1 .. Len(list[n].rules) /\ Len(list[n].rules) \in Nat
          BY Entries
        <4>3. QED
          BY <1>2, <4>1, <4>2
      <3>2. QED
        BY <3>1, FS_Product
    <2>2. QED
      BY <2>1
  <1>5. IsFiniteSet(about)
    <2>1. about \in SUBSET UNION rows
      OBVIOUS
    <2> HIDE DEF about, rows
    <2>2. QED
      BY <1>3, <1>4, <2>1, FS_UNION, FS_Subset
  <1>6. \A p \in about : /\ p[1] \in DOMAIN list /\ p[2] \in DOMAIN list[p[1]].rules
                         /\ list[p[1]].rules[p[2]].pattern \in {tool, "tool:*"}
                         /\ p = <<p[1], p[2]>>
    OBVIOUS
  <1>7. \A p, q \in about : <<p, q>> \in R <=> \/ p[1] = q[1] /\ p[2] < q[2]
                                               \/ p[1] # q[1] /\ Precedes(list, p[1], q[1])
    OBVIOUS
  <1>8. RulesAbout(tool, list) = [k \in DOMAIN order |-> list[order[k][1]].rules[order[k][2]]]
    BY DEF RulesAbout
  <1>9. order = CHOOSE e \in [1 .. N -> about] :
                  \A j, k \in 1 .. N : j < k => \/ e[j][1] = e[k][1] /\ e[j][2] < e[k][2]
                                                \/ e[j][1] # e[k][1] /\ Precedes(list, e[j][1], e[k][1])
    BY DEF InOrder
  <1> HIDE DEF about, R, order
  <1>10. \A p \in about : p[1] \in Nat /\ p[2] \in Nat /\ list[p[1]].priority \in Int
    BY <1>1, <1>6, Entries
  <1>11. StrictOrder(about, R)
    <2>1. \A p \in about : <<p, p>> \notin R
      BY <1>7, <1>10
    <2>2. ASSUME NEW p \in about, NEW q \in about, NEW r \in about, <<p, q>> \in R, <<q, r>> \in R
          PROVE  <<p, r>> \in R
      <3>1. /\ \A m, n \in DOMAIN list : Precedes(list, m, n) => m # n
            /\ \A m, n, o \in DOMAIN list :
                 Precedes(list, m, n) /\ Precedes(list, n, o) => Precedes(list, m, o)
        <4>1. \A n \in DOMAIN list : n \in Nat /\ list[n].priority \in Int
          BY <1>1, Entries
        <4>2. QED
          BY <4>1 DEF Precedes
      <3>2. p[1] \in DOMAIN list /\ q[1] \in DOMAIN list /\ r[1] \in DOMAIN list
        BY <1>6
      <3>3. p[2] \in Nat /\ q[2] \in Nat /\ r[2] \in Nat
        BY <1>10
      <3>4. /\ \/ p[1] = q[1] /\ p[2] < q[2]
               \/ p[1] # q[1] /\ Precedes(list, p[1], q[1])
            /\ \/ q[1] = r[1] /\ q[2] < r[2]
               \/ q[1] # r[1] /\ Precedes(list, q[1], r[1])
        BY <1>7, <2>2
      <3>5. \/ p[1] = r[1] /\ p[2] < r[2]
            \/ p[1] # r[1] /\ Precedes(list, p[1], r[1])
        <4>1. CASE p[1] = q[1]
          BY <3>3, <3>4, <4>1
        <4>2. CASE p[1] # q[1] /\ q[1] = r[1]
          BY <3>4, <4>2
        <4>3. CASE p[1] # q[1] /\ q[1] # r[1]
          <5>1. Precedes(list, p[1], r[1])
            BY <3>1, <3>2, <3>4, <4>3
          <5>2. QED
            BY <3>1, <3>2, <5>1
        <4>4. QED
          BY <4>1, <4>2, <4>3
      <3>6. QED
        BY <1>7, <3>5
    <2>3. ASSUME NEW p \in about, NEW q \in about, p # q
          PROVE  <<p, q>> \in R \/ <<q, p>> \in R
      <3>1. p[1] # q[1] \/ p[2] # q[2]
        BY <1>6, <2>3
      <3>2. QED
        BY <1>7, <1>10, <3>1 DEF Precedes
    <2>4. QED
      BY <2>1, <2>2, <2>3 DEF StrictOrder
  <1>12. PICK e : Lists(e, about, R)
    BY <1>5, <1>11, OrderHasAList
  <1>13. /\ e \in [1 .. N -> about]
         /\ \A j, k \in 1 .. N : j < k => \/ e[j][1] = e[k][1] /\ e[j][2] < e[k][2]
                                          \/ e[j][1] # e[k][1] /\ Precedes(list, e[j][1], e[k][1])
    BY <1>7, <1>12 DEF Lists
  <1>14. order \in [1 .. N -> about]
    BY <1>9, <1>13
  <1>15. N \in Nat
    BY <1>5, FS_CardinalityType
  <1> HIDE DEF N
  <1>16. N # 0
    <2>1. SUFFICES ASSUME N = 0 PROVE FALSE
      OBVIOUS
    <2>2. DOMAIN order = {}
      BY <1>14, <2>1
    <2>3. RulesAbout(tool, list) = <<>>
      BY <1>8, <2>2
    <2>4. QED
      BY <2>3
  <1>17. order[1] \in about /\ 1 \in DOMAIN order
    BY <1>14, <1>15, <1>16
  <1>18. RulesAbout(tool, list)[1] = list[order[1][1]].rules[order[1][2]]
    BY <1>8, <1>17
  <1>19. QED
    BY <1>6, <1>17, <1>18

LEMMA OwnReadingOfSandbox ==
  ASSUME ListsInv, ClockInv, SandboxIsPolicy, NEW tool \in Tools
  PROVE  OwnReading(tool).level =
           IF ~Admitted(tool) THEN "blocked"
           ELSE IF AllowedForPreview(tool) THEN "pre_authorized" ELSE "requires_delegation"
  <1> DEFINE rules == RulesAbout(tool, setup.policies)
  <1>1. ASSUME Admitted(tool), rules # <<>> PROVE rules[1].action = "allow"
    <2>1. policies \in Seq(PolicySet) /\ policies = setup.policies /\ setup \in Setups
      BY DEF ListsInv, ClockInv, SandboxIsPolicy
    <2>2. PICK n \in DOMAIN policies : \E k \in DOMAIN policies[n].rules :
            /\ policies[n].rules[k].pattern \in {tool, "tool:*"}
            /\ rules[1] = policies[n].rules[k]
      <3> HIDE DEF rules
      <3>1. RulesAbout(tool, policies) # <<>> /\ rules = RulesAbout(tool, policies)
        BY <1>1, <2>1 DEF rules
      <3>2. policies \in Seq(PolicySet)
        BY <2>1
      <3>3. QED
        BY <3>1, <3>2, RulesAboutAreRules
    <2>3. PICK k \in DOMAIN policies[n].rules :
            policies[n].rules[k].pattern \in {tool, "tool:*"} /\ rules[1] = policies[n].rules[k]
      BY <2>2
    <2> HIDE DEF rules
    <2>4. MadeOf(policies[n], "deny", sandbox.blocked) \/ MadeOf(policies[n], "allow", Offered(sandbox))
      <3>1. IsFiniteSet(sandbox.allowed) /\ IsFiniteSet(sandbox.blocked)
        BY <2>1, SandboxNames
      <3>2. policies = BuildSandboxPolicySets(sandbox)
        BY DEF SandboxIsPolicy
      <3>3. QED
        BY <3>1, <3>2, SandboxPoliciesMade
    <2>5. \A action, p : Always(action, p).action = action /\ Always(action, p).pattern = p
      BY DEF Always
    <2>6. CASE MadeOf(policies[n], "deny", sandbox.blocked)
      <3>1. PICK p \in sandbox.blocked : policies[n].rules[k] = Always("deny", p)
        BY <2>6 DEF MadeOf
      <3>2. p \in {tool, "tool:*"}
        BY <2>3, <2>5, <3>1
      <3>3. Covers[p] = {p} \cap Resources
        BY <2>1, ManifestAssumption DEF sandbox
      <3>4. tool \in Resources /\ tool \in Covers["tool:*"]
        BY ManifestAssumption
      <3>5. p = tool
        BY <3>2, <3>3, <3>4
      <3>6. QED
        BY <1>1, <3>5 DEF Admitted
    <2>7. CASE MadeOf(policies[n], "allow", Offered(sandbox))
      BY <2>3, <2>5, <2>7 DEF MadeOf
    <2>8. QED
      BY <2>4, <2>6, <2>7
  <1> HIDE DEF rules
  <1>2. \A level, why, c : Entry(level, why, c).level = level
    BY DEF Entry
  <1>3. CASE ~Admitted(tool)
    BY <1>2, <1>3 DEF OwnReading
  <1>4. CASE Admitted(tool) /\ AllowedForPreview(tool)
    <2>1. rules = <<>> \/ rules[1].action = "allow"
      BY <1>1, <1>4
    <2>2. ~(rules # <<>> /\ rules[1].action \in {"deny"})
      BY <2>1
    <2>3. OwnReading(tool) = Entry("pre_authorized", "", NoConstraints)
      BY <1>4, <2>1, <2>2 DEF OwnReading, rules
    <2>4. QED
      BY <1>2, <1>4, <2>3
  <1>5. CASE Admitted(tool) /\ ~AllowedForPreview(tool)
    <2>1. ~(rules # <<>> /\ rules[1].action \in {"deny"})
      BY <1>1, <1>5
    <2>2. OwnReading(tool) = Entry("requires_delegation", "", NoConstraints)
      BY <1>5, <2>1 DEF OwnReading, rules
    <2>3. QED
      BY <1>2, <1>5, <2>2
  <1>6. QED
    BY <1>3, <1>4, <1>5

LEMMA LineKeepsTheLevel ==
  ASSUME NEW tool \in Tools
  PROVE  BuildManifest[tool].level =
           IF setup.previews THEN Preview(tool).level ELSE OwnReading(tool).level
  <1> DEFINE entry == IF setup.previews THEN Preview(tool) ELSE OwnReading(tool)
  <1>1. \E level, why, c : entry = Entry(level, why, c)
    BY DEF Preview, OwnReading
  <1>2. \A c : [entry EXCEPT !.constraints = c].level = entry.level
    BY <1>1 DEF Entry
  <1> HIDE DEF entry
  <1>3. BuildManifest[tool].level = entry.level
    BY <1>2 DEF BuildManifest, entry
  <1>4. QED
    BY <1>3 DEF entry

LEMMA ReadingsAgree ==
  ASSUME ListsInv, ShownInv, ClockInv
  PROVE  SandboxReadingsAgree
  <1> SUFFICES ASSUME Current, ~added, SandboxIsPolicy, NEW tool \in Tools
               PROVE  LET executed == Executed(tool) # {}
                      IN  \/ executed /\ shown[tool].level = "pre_authorized"
                          \/ ~executed /\ shown[tool].level = "blocked"
                          \/ /\ ~executed /\ shown[tool].level = "requires_delegation"
                             /\ ~setup.previews /\ sandbox.allowed = {}
    BY DEF SandboxReadingsAgree, SandboxIsPolicy
  <1>1. Executed(tool) # {} <=> AllowedForPreview(tool)
    BY SandboxExecutes
  <1>2. shown[tool].level = IF setup.previews THEN Preview(tool).level ELSE OwnReading(tool).level
    BY LineKeepsTheLevel DEF ShownInv
  <1>3. Preview(tool).level = IF AllowedForPreview(tool) THEN "pre_authorized" ELSE "blocked"
    <2>1. Evaluate(QuestionOf(tool)).status = IF AllowedForPreview(tool) THEN "approved" ELSE "denied"
      BY SandboxDecides DEF QuestionOf
    <2>2. FollowsPreview(Preview(tool), Evaluate(QuestionOf(tool)), tool)
      BY PreviewOfDecision
    <2>3. QED
      BY <2>1, <2>2 DEF FollowsPreview, Says
  <1>4. OwnReading(tool).level =
           IF ~Admitted(tool) THEN "blocked"
           ELSE IF AllowedForPreview(tool) THEN "pre_authorized" ELSE "requires_delegation"
    BY OwnReadingOfSandbox
  <1>5. /\ AllowedForPreview(tool) => Admitted(tool)
        /\ (Admitted(tool) /\ ~AllowedForPreview(tool)) => sandbox.allowed = {}
    BY DEF AllowedForPreview, Admitted
  <1>6. CASE setup.previews
    BY <1>1, <1>2, <1>3, <1>6
  <1>7. CASE ~setup.previews
    BY <1>1, <1>2, <1>4, <1>5, <1>7
  <1>8. QED
    BY <1>6, <1>7

(* For any sandbox that names tools: under the policies made of it, the    *)
(* preview, the manifest's own reading, the policies and the registry      *)
(* offer and execute the same tools (buildSandboxPolicySets, isBlocked,    *)
(* isToolAllowedBySandbox, isAllowed).                                     *)
THEOREM SandboxTheorem == ManifestSpec => []SandboxReadingsAgree
  <1>1. ListsInv /\ ShownInv /\ ClockInv => SandboxReadingsAgree
    BY ReadingsAgree
  <1>2. QED
    BY AlwaysManifestInv, AlwaysClockInv, <1>1, PTL
=============================================================================
