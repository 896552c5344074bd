----------------------------- MODULE MCOpaEngine -----------------------------
(* Instances of OpaEngine for TLC: a consultation and a preview of three   *)
(* tools overlap while the rules are replaced once.                        *)
EXTENDS OpaEngine

Read == "tool:read"
Write == "tool:write"
Plan == "phase:plan"
Hide == "tool:hidden"

MCOperations ==
  {[id |-> 1, kind |-> "consult", resources |-> {Plan}],
   [id |-> 2, kind |-> "preview", resources |-> {Read, Write, Hide}]}

Decide(read, write, plan, hide) ==
  [r \in {Read, Write, Plan, Hide} |->
     CASE r = Read -> read [] r = Write -> write [] r = Plan -> plan [] r = Hide -> hide]

MCRules == <<Decide("approved", "unrecognised", "undefined", "approved"),
             Decide("denied", "narrowed", "unrecognised", "approved")>>
MCHidden == {Hide}

(* No fallback; an in-process engine without rules for phases, which       *)
(* denies them; and an engine that rejects.                                *)
MCFallbacks ==
  [f \in {"none", "in_process", "broken"} |->
     CASE f = "none"       -> Decide("denied", "denied", "denied", "denied")
       [] f = "in_process" -> Decide("escalated", "approved", "denied", "approved")
       [] f = "broken"     -> Decide("approved", "rejected", "rejected", "rejected")]
=============================================================================
