---------------------------- MODULE MCCredentials ----------------------------
(***************************************************************************)
(* Credentials for TLC: the views and the symmetry of its runs.            *)
(***************************************************************************)
EXTENDS Credentials, TLC

\* The history "guesses" guards no action and, its type apart, no property of the
\* concurrent run reads it; without it the run is finite although failed logins may
\* lose count.
WithoutGuesses == <<now, password, failed, lockedUntil, tokens, mailed, sessions,
                    faults, req, uses, cleared>>

Symmetry == Permutations(Reqs)

=============================================================================
