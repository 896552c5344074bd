------------------------- MODULE MCCapabilityManifest -------------------------
(* An instance of CapabilityManifest for TLC: a tool, a phase, policies    *)
(* that meet in priority, window, pattern and action, and sandboxes that   *)
(* name the tool, every tool, another tool or none.                        *)
EXTENDS CapabilityManifest

Read == "tool:read"
MCTools == {Read}
MCResources == {Read, "phase:plan"}
MCCovers == [pattern \in {Read, "tool:shell", "phase:plan", "tool:*", "phase:*", "*"} |->
               CASE pattern \in {Read, "tool:*"}          -> {Read}
                 [] pattern \in {"phase:plan", "phase:*"} -> {"phase:plan"}
                 [] pattern = "tool:shell"                -> {}
                 [] pattern = "*"                         -> MCResources]
MCKeys == {"query", "max_results", "limit"}

Narrowing(allowed, excluded, max) == [allowed |-> allowed, excluded |-> excluded, max |-> max]

Policy(id, priority, rules) ==
  [id |-> id, priority |-> priority, from |-> 0, until |-> MaxTime + 1, rules |-> rules]

Narrow == Policy("narrow", 1, <<[Always("narrow", Read) EXCEPT
                                      !.narrowing = Narrowing(NoList, {"query"}, 1)]>>)
Limit == Policy("limit", 2, <<[Always("narrow", "*") EXCEPT
                                    !.narrowing = Narrowing({"limit", "max_results"}, NoList, NoLimit)]>>)
Trim == Policy("trim", 1, <<Always("narrow", Read)>>)
Mixed == Policy("mixed", 2, <<Always("allow", "phase:plan"), Always("deny", "phase:*"),
                                 Always("allow", Read), Always("deny", "tool:*")>>)

MCCatalogue ==
  {Policy("allow", 2, <<Always("allow", "tool:*")>>),
   Narrow, Limit, Mixed,
   Policy("approval", 1, <<Always("require_approval", "tool:*")>>),
   [Policy("late", 1, <<Always("deny", "phase:*")>>) EXCEPT !.from = 1],
   [Policy("early", 2, <<Always("deny", "*")>>) EXCEPT !.until = 1],
   Policy("conditional", 1, <<[Always("deny", "tool:*") EXCEPT !.needs = "argument"],
                                 [Always("allow", "phase:plan") EXCEPT !.until = 2]>>)}

Sandbox(allowed, blocked) == [allowed |-> allowed, blocked |-> blocked]

(* The catalogue is gone through under the default sandbox; under the      *)
(* others a policy is added to the run's own.                              *)
Setup(box, list, previews, room) ==
  [sandbox |-> box, policies |-> list, previews |-> previews, room |-> room]

MCSetups ==
  {Setup(Sandbox({"*"}, {}), <<>>, TRUE, 3), Setup(Sandbox({}, {}), <<Mixed>>, TRUE, 2)}
  \cup {Setup(Sandbox({"*"}, {}), <<Limit, Narrow>>, p, 2) : p \in BOOLEAN}
  \cup {Setup(Sandbox({"*"}, {}), <<Trim, Narrow>>, TRUE, 2)}
  \cup {Setup(box, BuildSandboxPolicySets(box), p, 2) :
          box \in {Sandbox(allowed, blocked) :
                     allowed \in {{}, {"*"}, {Read}, {"tool:shell"}}, blocked \in {{}, {Read}}},
          p \in BOOLEAN}
=============================================================================
