---------------------------- MODULE MCToolRegistry ----------------------------
(* Instances of ToolRegistry for TLC: three registrations of one name.     *)
EXTENDS ToolRegistry

CONSTANTS k1, k2, a, b, c

MCCalls == {k1, k2}
MCArgs == {a, b, c}

(* The second contract is narrower than the first, the third does not      *)
(* compile.  Of what the second admits, one is in the granted scope.       *)
MCAccepts == <<{a, b, c}, {b, c}, {a, b, c}>>
MCBroken == {3}
MCScope == {a, b}

MCAuthorities == Authority
MCCategories == {"not_found"}
=============================================================================
