------------------------- MODULE MCPermissionManager -------------------------
(* Instances of PermissionManager for TLC.                                 *)
EXTENDS PermissionManager, TLC

Symmetry == Permutations(Ids)
=============================================================================
