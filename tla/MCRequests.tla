------------------------------ MODULE MCRequests ------------------------------
(***************************************************************************)
(* Requests for TLC.                                                       *)
(***************************************************************************)
EXTENDS Requests, TLC

=============================================================================
