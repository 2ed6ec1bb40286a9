--------------------------- MODULE MCAuthSessions ---------------------------
(***************************************************************************)
(* AuthSessions for TLC: the values of the constants that a configuration  *)
(* file cannot write, and the symmetry of the runs without liveness.       *)
(***************************************************************************)
EXTENDS SessionRefinement, TLC

\* The history "ended" guards no action and none of the properties of the
\* concurrent run reads it: states that differ in it alone are one state there.
WithoutEnded == <<now, sessions, tokens, access, delivered, blackJti,
                  blackSession, faults, req, cutOff>>

Symmetry == Permutations(Reqs)

=============================================================================
