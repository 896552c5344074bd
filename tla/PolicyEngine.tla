----------------------------- MODULE PolicyEngine -----------------------------
(***************************************************************************)
(* InProcessPolicyEngine (governance/policy-engine.ts) over                *)
(* PolicyEvaluator (governance/policy-evaluator.ts): policies are added    *)
(* and removed while time opens and closes their windows, and at every     *)
(* moment a request for a resource has a decision.  A granted scope goes   *)
(* to the tool registry, which holds the arguments of the call against it  *)
(* (core/tool-registry.ts).                                                *)
(*                                                                         *)
(* A policy is a record [id, priority, from, until, rules], a rule         *)
(* [action, pattern, from, until, needs, narrowing].  Windows are          *)
(* half-open.  Subjects are left out: a rule whose subject is not the      *)
(* requester is not there.  A rule may need a value that only the          *)
(* arguments of a call contain, or one that only the context contains      *)
(* which phases and previews are asked about with.                         *)
(***************************************************************************)
EXTENDS Integers, FiniteSets, SequencesExt

CONSTANTS Resources,    \* the tools and phases asked about
          Covers,       \* Covers[pattern]: the resources a pattern matches
          Catalogue,    \* the policies that may be added
          Keys,         \* names of the arguments of a call
          MaxPolicies,  \* bound on the policies in force
          MaxResults,   \* bound on numeric arguments
          MaxTime       \* bound on the clock

Actions == {"deny", "narrow", "require_approval", "allow"}

NoLimit == -1
NoList == {"*"}

PolicyRule ==
  [action : Actions, pattern : DOMAIN Covers, from : Int, until : Int,
   needs : {"nothing", "argument", "context"},
   narrowing : [allowed : {NoList} \cup SUBSET Keys, excluded : {NoList} \cup SUBSET Keys,
                max : {NoLimit} \cup Nat]]

PolicySet == [id : STRING, priority : Int, from : Int, until : Int, rules : Seq(PolicyRule)]

ASSUME EngineAssumption == /\ \A pattern \in DOMAIN Covers : Covers[pattern] \subseteq Resources
                           /\ Catalogue \subseteq PolicySet
                           /\ {MaxPolicies, MaxResults, MaxTime} \subseteq Nat

VARIABLES listed,       \* the engine's own list, asked which phases are named
          policies,     \* the evaluator's, in the order they were added
          now           \* the wall clock

vars == <<listed, policies, now>>

(* Arguments: which keys are given, and the two numbers among them.  (Keys *)
(* named like a list of fields would restrict their own call further.)     *)
Arguments == {a \in [keys : SUBSET Keys, max : 0 .. MaxResults, limit : 0 .. MaxResults] :
                /\ "max_results" \notin a.keys => a.max = 0
                /\ "limit" \notin a.keys => a.limit = 0}

Request == [resource : Resources, real : BOOLEAN]
-----------------------------------------------------------------------------
InWindow(x) == x.from <= now /\ now < x.until

RuleMatches(rule, request) ==
  /\ request.resource \in Covers[rule.pattern]
  /\ InWindow(rule)
  /\ rule.needs \in {"nothing", IF request.real THEN "argument" ELSE "context"}

(* The first rule that matches speaks for its policy; 0 if none does.      *)
Spokesman(n, request) == SelectInSeq(policies[n].rules, LAMBDA r : RuleMatches(r, request))

RuleOf(n, request) == policies[n].rules[Spokesman(n, request)]

(* The elements of S in an order of them.                                  *)
InOrder(S, Before(_, _)) ==
  CHOOSE e \in [1 .. Cardinality(S) -> S] :
    \A j, k \in 1 .. Cardinality(S) : j < k => Before(e[j], e[k])

(* Array.sort is stable: equal priorities stay in the order of addition.   *)
Precedes(list, m, n) ==
  \/ list[m].priority < list[n].priority
  \/ list[m].priority = list[n].priority /\ m < n

Sorted == InOrder({n \in DOMAIN policies : InWindow(policies[n])},
                  LAMBDA m, n : Precedes(policies, m, n))

NoHits == [action \in Actions |-> 0]

(* One turn of the loop: nothing is looked at behind a deny.               *)
Visit(hits, n, request) ==
  IF hits["deny"] # 0 \/ Spokesman(n, request) = 0 THEN hits
  ELSE LET action == RuleOf(n, request).action
       IN  [hits EXCEPT ![action] = IF @ = 0 THEN n ELSE @]

Hits(request) ==
  LET sorted == Sorted
      turn == [n \in DOMAIN policies |-> [hits \in [Actions -> Nat] |-> Visit(hits, n, request)]]
      visited[k \in 0 .. Len(sorted)] ==
        IF k = 0 THEN NoHits ELSE turn[sorted[k]][visited[k - 1]]
  IN  visited[Len(sorted)]

Decision(status, n) == [status |-> status, by |-> n]

(* Mutant: an escalation is answered before a narrowing.                   *)
EvaluateEscalationFirst(request) ==
  LET hits == Hits(request)
  IN  CASE hits["deny"] # 0                          -> Decision("denied", hits["deny"])
        [] hits["deny"] = 0 /\ hits["require_approval"] # 0
                                                  -> Decision("escalated", hits["require_approval"])
        [] hits["deny"] = 0 /\ hits["require_approval"] = 0 /\ hits["narrow"] # 0
                                                  -> Decision("narrowed", hits["narrow"])
        [] OTHER -> IF hits["allow"] # 0 THEN Decision("approved", hits["allow"])
                    ELSE Decision("denied", 0)

Evaluate(request) ==
  LET hits == Hits(request)
  IN  CASE hits["deny"] # 0                          -> Decision("denied", hits["deny"])
        [] hits["deny"] = 0 /\ hits["narrow"] # 0       -> Decision("narrowed", hits["narrow"])
        [] hits["deny"] = 0 /\ hits["narrow"] = 0 /\ hits["require_approval"] # 0
                                                  -> Decision("escalated", hits["require_approval"])
        [] OTHER -> IF hits["allow"] # 0 THEN Decision("approved", hits["allow"])
                    ELSE Decision("denied", 0)

Refused(decision) == decision.status \in {"denied", "escalated"}

(* Does some rule name the phase, or every phase?  Its window, and the     *)
(* other patterns that would match the phase, are not looked at.           *)
HasApplicablePhasePolicy(phase) ==
  \E n \in DOMAIN listed : \E k \in DOMAIN listed[n].rules :
    listed[n].rules[k].pattern \in {"phase:*", phase}

ConsultPhase(phase) ==
  IF ~HasApplicablePhasePolicy(phase) THEN "allowed"
  ELSE IF Refused(Evaluate([resource |-> phase, real |-> FALSE])) THEN "denied" ELSE "allowed"
-----------------------------------------------------------------------------
(* The constraints of a requested scope are the arguments of the call.     *)
RequestedConstraints(a) ==
  [allowed |-> NoList, excluded |-> NoList,
   max |-> IF "max_results" \in a.keys THEN a.max ELSE NoLimit]

(* Mutant: the requested constraints are spread over the narrowing.        *)
NarrowedUnderneath(c, n) ==
  [allowed  |-> IF c.allowed  # NoList  THEN c.allowed  ELSE n.allowed,
   excluded |-> IF c.excluded # NoList  THEN c.excluded ELSE n.excluded,
   max      |-> IF c.max      # NoLimit THEN c.max      ELSE n.max]

ApplyNarrowing(c, n) ==
  [allowed  |-> IF n.allowed  # NoList  THEN n.allowed  ELSE c.allowed,
   excluded |-> IF n.excluded # NoList  THEN n.excluded ELSE c.excluded,
   max      |-> IF n.max      # NoLimit THEN n.max      ELSE c.max]

GrantedConstraints(decision, request, a) ==
  IF decision.status = "narrowed"
  THEN ApplyNarrowing(RequestedConstraints(a), RuleOf(decision.by, request).narrowing)
  ELSE RequestedConstraints(a)

(* What the registry asks of the arguments before it starts the handler.   *)
ValidateScopeConstraints(a, c) ==
  /\ c.allowed  # NoList => a.keys \subseteq c.allowed
  /\ c.excluded # NoList => a.keys \cap c.excluded = {}
  /\ c.max # NoLimit => /\ "max_results" \in a.keys => a.max <= c.max
                        /\ "limit" \in a.keys => a.limit <= c.max
-----------------------------------------------------------------------------
Init == listed = <<>> /\ policies = <<>> /\ now = 0

AddPolicy ==
  /\ Len(policies) < MaxPolicies
  /\ \E p \in Catalogue : listed' = Append(listed, p) /\ policies' = Append(policies, p)
  /\ UNCHANGED now

Without(list, id) ==
  LET kept == InOrder({n \in DOMAIN list : list[n].id # id}, LAMBDA m, n : m < n)
  IN  [k \in DOMAIN kept |-> list[kept[k]]]

(* Every policy of that id is filtered out, of both lists.                 *)
RemovePolicy ==
  /\ \E n \in DOMAIN policies : /\ policies' = Without(policies, policies[n].id)
                                /\ listed' = Without(listed, policies[n].id)
  /\ UNCHANGED now

Tick == now < MaxTime /\ now' = now + 1 /\ UNCHANGED <<listed, policies>>

Next == AddPolicy \/ RemovePolicy \/ Tick

Spec == Init /\ [][Next]_vars
-----------------------------------------------------------------------------
(* Policies in force whose spokesman takes an action.                      *)
Voting(request, action) ==
  {n \in DOMAIN policies : /\ InWindow(policies[n])
                           /\ Spokesman(n, request) # 0
                           /\ RuleOf(n, request).action = action}

(* A decision does not depend on the order of the policies: one deny among *)
(* them denies, else one narrowing narrows, else one escalation escalates, *)
(* else one allow approves, else it is denied.  The order only decides     *)
(* which of them is named: the first by priority, then by age.             *)
DecisionIsReference ==
  \A request \in Request :
    LET decision == Evaluate(request)
        First(action) == /\ decision.by \in Voting(request, action)
                         /\ \A n \in Voting(request, action) \ {decision.by} :
                              Precedes(policies, decision.by, n)
        None(actions) == \A action \in actions : Voting(request, action) = {}
    IN  \/ decision.status = "denied" /\ First("deny")
        \/ decision.status = "narrowed" /\ None({"deny"}) /\ First("narrow")
        \/ /\ decision.status = "escalated" /\ None({"deny", "narrow"})
           /\ First("require_approval")
        \/ /\ decision.status = "approved" /\ None({"deny", "narrow", "require_approval"})
           /\ First("allow")
        \/ /\ decision.status = "denied" /\ decision.by = 0
           /\ None({"deny", "narrow", "require_approval", "allow"})

(* A phase is closed by a policy in force whose spokesman, naming it,      *)
(* denies it, and is open as long as no policy names it, in force or not.  *)
PhasesFollowTheRulesThatNameThem ==
  \A phase \in Resources :
    LET request == [resource |-> phase, real |-> FALSE]
        Names(rule) == rule.pattern \in {"phase:*", phase}
    IN  /\ (\E n \in Voting(request, "deny") : Names(RuleOf(n, request)))
             => ConsultPhase(phase) = "denied"
        /\ ConsultPhase(phase) = "denied"
             => \E n \in DOMAIN policies : \E k \in DOMAIN policies[n].rules :
                  Names(policies[n].rules[k])

(* What the engine answers, from its two lists, is what these say          *)
(* (policy-evaluator.ts:175-294, policy-engine.ts:157-178).                *)
AnswersAreReference == DecisionIsReference /\ PhasesFollowTheRulesThatNameThem

Within(a, narrowing) ==
  /\ a.keys \subseteq narrowing.allowed \/ narrowing.allowed = NoList
  /\ a.keys \cap narrowing.excluded = {} \/ narrowing.excluded = NoList
  /\ narrowing.max # NoLimit => a.max <= narrowing.max /\ a.limit <= narrowing.max

(* A call the registry lets through under a narrowed scope is within the   *)
(* narrowing, whatever the model wrote in the arguments that became the    *)
(* requested constraints (applyNarrowing, validateScopeConstraints).       *)
ExecutedWithinNarrowing ==
  \A resource \in Resources :
    LET request  == [resource |-> resource, real |-> TRUE]
        decision == Evaluate(request)
    IN  decision.status = "narrowed" =>
          \A a \in Arguments :
            ValidateScopeConstraints(a, GrantedConstraints(decision, request, a))
              => Within(a, RuleOf(decision.by, request).narrowing)

(* What a rule has denied stays denied, and what one has narrowed stays    *)
(* narrowed or is denied, while policies are only added.  (Which narrowing *)
(* applies may change, and an escalation may give way to a narrowing.)     *)
AdditionsNeverUnrestrict ==
  [][(now' = now /\ Len(policies') > Len(policies)) =>
       \A request \in Request :
         LET before == Evaluate(request)
             after  == Evaluate(request)'
         IN  /\ (before.status = "denied" /\ before.by # 0) => after.status = "denied"
             /\ before.status = "narrowed" => after.status \in {"narrowed", "denied"}]_vars
=============================================================================
