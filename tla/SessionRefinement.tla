-------------------------- MODULE SessionRefinement --------------------------
(***************************************************************************)
(* AuthSessions implements SessionLifecycle as long as requests come one   *)
(* at a time and none is aborted.                                          *)
(***************************************************************************)
EXTENDS AuthSessions

\* Two numbers that are no grant.
NotYet == 0
Lost == MaxGrants + 1

\* While a refresh has stored the new token and not yet retired the old one both are
\* live; the old one is current until then.  Tokens are numbered in the order in
\* which they are handed out.
Current(s) ==
    IF TokensOf({s}) = {} THEN NotYet
    ELSE IF LiveTokens(s) = {} THEN Lost
    ELSE CHOOSE t \in LiveTokens(s) : \A u \in LiveTokens(s) : t <= u

Lifecycle == INSTANCE SessionLifecycle WITH
    Sessions <- SessionIds,
    Grants <- GrantIds,
    owner <- [s \in SessionIds |-> sessions[s].user],
    closed <- {s \in SessionIds : sessions[s].revoked},
    current <- [s \in SessionIds |-> Current(s)],
    signed <- [s \in SessionIds |-> {g \in GrantIds : IsAccess(g) /\ access[g].session = s}]

\* Whatever the order of logins, refreshes, reuse, logouts with any cookie and
\* revocations: a session has one working refresh token, the rotation of the last, and
\* signs for it alone; a token once replaced or lost, and a session once revoked, never
\* hand out anything again (auth.service.ts:116-176, 183-233, sessions.service.ts:28-72).
ImplementsLifecycle == Lifecycle!Spec

=============================================================================
