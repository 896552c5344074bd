-------------------------- MODULE CapabilityManifest --------------------------
(***************************************************************************)
(* What the model is shown of its tools.  Before every model call the      *)
(* pipelines compile a manifest (governance/manifest-builder.ts) from the  *)
(* policy engine's preview of each tool, or from a reading of its own when *)
(* the engine has no preview; the tools it does not list are not offered   *)
(* to the model.  The sandbox is read four times, by four functions: the   *)
(* preview, the manifest, the registry that executes the call, and the     *)
(* policies a pipeline defaults to (governance/sandbox-policies.ts).       *)
(***************************************************************************)
EXTENDS PolicyEngine

CONSTANTS Tools,      \* the registered tools, by the names of their resources
          Setups      \* how a run may be configured: [sandbox, policies, previews],
                      \* with a bound "room" on the policies then in force

(* The lists of a sandbox name tools.  A name that ends in "*" is left out *)
(* (but for the wildcard in the allowlist): to the policies made of the    *)
(* sandbox it is a prefix, to its other readers a name.                    *)
ASSUME ManifestAssumption ==
  /\ Tools \subseteq Resources
  /\ "tool:*" \in DOMAIN Covers /\ Tools \subseteq Covers["tool:*"]
  /\ \A s \in Setups :
       /\ s.policies \in Seq(PolicySet)
       /\ IsFiniteSet(s.sandbox.allowed) /\ IsFiniteSet(s.sandbox.blocked)
       /\ \A name \in s.sandbox.blocked \cup (s.sandbox.allowed \ {"*"}) :
            name \in DOMAIN Covers /\ Covers[name] = {name} \cap Resources

VARIABLES setup,      \* the configuration of the run
          shown,      \* the manifest last compiled, while nothing was taken away since
          added       \* policies have been added since

manifestVars == <<listed, policies, now, setup, shown, added>>

sandbox == setup.sandbox

Outdated == <<>>
Current == shown # Outdated
NoConstraints == [allowed |-> NoList, excluded |-> NoList, max |-> NoLimit]

(* A tool's line in the manifest.  "why" is the reason given for its level.*)
Entry(level, why, constraints) == [level |-> level, why |-> why, constraints |-> constraints]
-----------------------------------------------------------------------------
(* Mutant: the wildcard is taken for a name.                               *)
AdmittedByName(tool) ==
  /\ tool \notin sandbox.blocked
  /\ sandbox.allowed # {} => tool \in sandbox.allowed

(* The manifest's isBlocked and the registry's isAllowed: an empty list    *)
(* allows every tool.                                                      *)
Admitted(tool) ==
  /\ tool \notin sandbox.blocked
  /\ sandbox.allowed # {} => sandbox.allowed \cap {"*", tool} # {}

(* The preview's isToolAllowedBySandbox: an empty list allows none.        *)
AllowedForPreview(tool) ==
  /\ tool \notin sandbox.blocked
  /\ sandbox.allowed \cap {"*", tool} # {}

Always(action, pattern) ==
  [action |-> action, pattern |-> pattern, from |-> 0, until |-> MaxTime + 1,
   needs |-> "nothing", narrowing |-> NoConstraints]

SandboxPolicy(id, priority, action, patterns) ==
  IF patterns = {} THEN <<>>
  ELSE <<[id |-> id, priority |-> priority, from |-> 0, until |-> MaxTime + 1,
          rules |-> SetToSeq({Always(action, p) : p \in patterns})]>>

(* The policies of a run that is given none.                               *)
BuildSandboxPolicySets(box) ==
  SandboxPolicy("sandbox-deny", 1, "deny", box.blocked)
    \o SandboxPolicy("sandbox-allow", 100, "allow",
                     IF "*" \in box.allowed THEN {"tool:*"} ELSE box.allowed)
-----------------------------------------------------------------------------
(* The engine's preview: the tool is put to the evaluator as a request     *)
(* without the arguments of a call.                                        *)
Preview(tool) ==
  LET request  == [resource |-> tool, real |-> FALSE]
      decision == Evaluate(request)
  IN  CASE ~AllowedForPreview(tool) -> Entry("blocked", "sandbox", NoConstraints)
        [] AllowedForPreview(tool) /\ decision.status = "approved"
             -> Entry("pre_authorized", "", NoConstraints)
        [] AllowedForPreview(tool) /\ decision.status = "narrowed"
             -> Entry("requires_delegation", "narrowed",
                      ApplyNarrowing(NoConstraints, RuleOf(decision.by, request).narrowing))
        [] AllowedForPreview(tool) /\ decision.status = "escalated"
             -> Entry("requires_delegation", "", NoConstraints)
        [] OTHER -> Entry("blocked", IF decision.by = 0 THEN "default" ELSE "rule", NoConstraints)

(* The rules of a list of policies the manifest takes to be about a        *)
(* tool, in the order of priority: their windows, and what else they may   *)
(* need, are not looked at.                                                *)
RulesAbout(tool, list) ==
  LET about == {p \in UNION {{n} \X DOMAIN list[n].rules : n \in DOMAIN list} :
                  list[p[1]].rules[p[2]].pattern \in {tool, "tool:*"}}
      order == InOrder(about, LAMBDA p, q : \/ p[1] = q[1] /\ p[2] < q[2]
                                            \/ p[1] # q[1] /\ Precedes(list, p[1], q[1]))
  IN  [k \in DOMAIN order |-> list[order[k][1]].rules[order[k][2]]]

(* determineAccessLevel: the first rule about the tool decides.            *)
OwnReading(tool) ==
  LET rules == RulesAbout(tool, setup.policies)
      Hit(actions) == rules # <<>> /\ rules[1].action \in actions
  IN  CASE ~Admitted(tool) \/ Hit({"deny"}) -> Entry("blocked", "", NoConstraints)
        [] Admitted(tool) /\ AllowedForPreview(tool) /\ (rules = <<>> \/ Hit({"allow"}))
             -> Entry("pre_authorized", "", NoConstraints)
        [] OTHER -> Entry("requires_delegation", "", NoConstraints)

(* collectConstraints: of each kind, that of the last narrowing rule.      *)
CollectedConstraints(tool, list) ==
  FoldLeft(LAMBDA c, rule : IF rule.action = "narrow" THEN ApplyNarrowing(c, rule.narrowing) ELSE c,
           NoConstraints, RulesAbout(tool, list))

(* Mutant: the builder's own reading comes before the engine's.            *)
BuildManifestFromOwnReading ==
  [tool \in Tools |-> OwnReading(tool)]

(* buildManifest: the engine's word if it gives one; constraints it does   *)
(* not give are collected from the configured policies.  It gives those of *)
(* a narrowing even if that sets none: the phase the pipelines ask in is   *)
(* among them (governed-pipeline.ts:170).                                  *)
BuildManifest ==
  [tool \in Tools |->
     LET entry == IF setup.previews THEN Preview(tool) ELSE OwnReading(tool)
     IN  IF entry.level = "blocked" \/ entry.why = "narrowed" THEN entry
         ELSE [entry EXCEPT !.constraints = CollectedConstraints(tool, setup.policies)]]
-----------------------------------------------------------------------------
ManifestInit ==
  /\ setup \in Setups
  /\ listed = setup.policies /\ policies = setup.policies
  /\ now = 0
  /\ shown = Outdated /\ added = FALSE

(* manifestHeartbeat, before a model call.                                 *)
Heartbeat ==
  /\ shown' = BuildManifest /\ added' = FALSE
  /\ UNCHANGED <<vars, setup>>

Add ==
  /\ Len(policies) < setup.room
  /\ AddPolicy
  /\ added' = TRUE
  /\ UNCHANGED <<setup, shown>>

(* What is shown afterwards says nothing any more of what is enforced.     *)
TakeAway == (RemovePolicy \/ Tick) /\ shown' = Outdated /\ added' = FALSE /\ UNCHANGED setup

ManifestNext == Heartbeat \/ Add \/ TakeAway

ManifestSpec == ManifestInit /\ [][ManifestNext]_manifestVars
-----------------------------------------------------------------------------
(* The calls of a tool that are delegated, and pass the registry's checks. *)
Executed(tool) ==
  LET request  == [resource |-> tool, real |-> TRUE]
      decision == Evaluate(request)
  IN  {a \in Arguments :
         /\ ~Refused(decision)
         /\ Admitted(tool)
         /\ ValidateScopeConstraints(a, GrantedConstraints(decision, request, a))}

(* No rule about the tool tells a call of it from a question about it.     *)
Unconditional(tool) ==
  \A n \in DOMAIN policies : \A k \in DOMAIN policies[n].rules :
    LET rule == policies[n].rules[k]
    IN  tool \in Covers[rule.pattern] => rule.needs = "nothing"

(* "the model always sees the current truth" (governed-pipeline.ts:123).   *)
(* What a manifest compiled from the engine's preview says of a tool is    *)
(* what happens to a call made on it: a hidden tool is not executed, not   *)
(* even when policies were added since, unless it was hidden for want of a *)
(* rule or by an empty allowlist; a pre-authorized tool is approved; and   *)
(* any other is executed within the constraints shown, if at all.          *)
ManifestIsEnforced ==
  (Current /\ setup.previews) =>
    \A tool \in {t \in Tools : Unconditional(t)} :
      LET request  == [resource |-> tool, real |-> TRUE]
          entry    == shown[tool]
          decision == Evaluate(request)
      IN  /\ (/\ entry.level = "blocked"
              /\ entry.why = "default" => ~added
              /\ entry.why = "sandbox" => sandbox.allowed # {})
               => Executed(tool) = {}
          /\ (entry.level = "pre_authorized" /\ ~added) => decision.status = "approved"
          /\ (entry.level = "requires_delegation" /\ ~added) =>
               /\ decision.status \in {"narrowed", "escalated"}
               /\ \A a \in Executed(tool) : Within(a, entry.constraints)

(* The readings of one sandbox agree: a run under the policies made of its *)
(* sandbox shows a tool, as pre-authorized, exactly when a call of it is   *)
(* executed, whether or not the engine has a preview.  (With an empty list *)
(* the manifest's own reading offers what the policies then deny.)         *)
SandboxReadingsAgree ==
  (Current /\ ~added /\ policies = setup.policies
      /\ setup.policies = BuildSandboxPolicySets(sandbox)) =>
    \A tool \in Tools :
      LET executed == Executed(tool) # {}
      IN  \/ executed /\ shown[tool].level = "pre_authorized"
          \/ ~executed /\ shown[tool].level = "blocked"
          \/ /\ ~executed /\ shown[tool].level = "requires_delegation"
             /\ ~setup.previews /\ sandbox.allowed = {}
=============================================================================
