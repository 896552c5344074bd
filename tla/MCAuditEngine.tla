---------------------------- MODULE MCAuditEngine ----------------------------
(* Instances of AuditEngine for TLC: a governed run of few steps next to a *)
(* chat run of more, which share the step counter.                         *)
EXTENDS AuditEngine

MCRuns == {"governed", "chat"}
MCMaxSteps == [r \in MCRuns |-> IF r = "governed" THEN 2 ELSE 4]
=============================================================================
