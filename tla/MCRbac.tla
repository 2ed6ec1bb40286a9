-------------------------------- MODULE MCRbac --------------------------------
(***************************************************************************)
(* Rbac for TLC.                                                           *)
(***************************************************************************)
EXTENDS Rbac, TLC

Symmetry == Permutations(Reqs)

=============================================================================
