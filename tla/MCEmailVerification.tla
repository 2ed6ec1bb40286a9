------------------------- MODULE MCEmailVerification -------------------------
(***************************************************************************)
(* EmailVerification for TLC.                                              *)
(***************************************************************************)
EXTENDS EmailVerification, TLC

Symmetry == Permutations(Reqs) \cup Permutations(Addresses)

=============================================================================
