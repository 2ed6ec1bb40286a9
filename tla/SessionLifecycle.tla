--------------------------- MODULE SessionLifecycle ---------------------------
(***************************************************************************)
(* What a session promises its owner: it is opened once, it has at most    *)
(* one refresh token at a time, each use of which replaces it, it signs    *)
(* access tokens for that token only, and once closed it does none of this *)
(* again.  AuthSessions, serving one request at a time, implements this.   *)
(***************************************************************************)
EXTENDS FiniteSets

CONSTANTS
    Sessions,  \* sessions
    Grants,    \* what one login or refresh hands out
    Users,     \* their owners
    NoUser,    \* the owner of a session not opened yet
    NotYet,    \* the current token of a session that has had none
    Lost       \* the current token of one whose token was revoked for good

VARIABLES
    owner,    \* who opened the session
    closed,   \* the sessions that were revoked
    current,  \* the refresh token that works: the only one
    signed    \* the grants whose access token the session has signed

lifecycle == <<owner, closed, current, signed>>

Open(s) == owner[s] # NoUser /\ s \notin closed

Init ==
    /\ owner = [s \in Sessions |-> NoUser]
    /\ closed = {}
    /\ current = [s \in Sessions |-> NotYet]
    /\ signed = [s \in Sessions |-> {}]

OpenSession(s, u) ==
    /\ owner[s] = NoUser
    /\ owner' = [owner EXCEPT ![s] = u]
    /\ UNCHANGED <<closed, current, signed>>

\* An access token for the current token, or for the first one before it is stored.
Sign(s, g) ==
    /\ Open(s)
    /\ current[s] \in {NotYet, g}
    /\ \A t \in Sessions : g \notin signed[t]
    /\ signed' = [signed EXCEPT ![s] = @ \cup {g}]
    /\ UNCHANGED <<owner, closed, current>>

\* The first token comes with its access token.
Issue(s, g) ==
    /\ Open(s)
    /\ current[s] = NotYet
    /\ signed[s] = {g}
    /\ current' = [current EXCEPT ![s] = g]
    /\ UNCHANGED <<owner, closed, signed>>

\* The current token is exchanged for one nobody has had.
Rotate(s, g) ==
    /\ Open(s)
    /\ current[s] \in signed[s]
    /\ \A t \in Sessions : g \notin signed[t] \cup {current[t]}
    /\ current' = [current EXCEPT ![s] = g]
    /\ UNCHANGED <<owner, closed, signed>>

\* Logout or reuse of a token, on their way to closing a session, which in the case
\* of logout may be another one.
Lose(s) ==
    /\ current[s] \in Grants
    /\ current' = [current EXCEPT ![s] = Lost]
    /\ UNCHANGED <<owner, closed, signed>>

\* Closing one session leaves its token, which is of no use any more.
Close(s) ==
    /\ Open(s)
    /\ closed' = closed \cup {s}
    /\ UNCHANGED <<owner, current, signed>>

\* Revocation closes several sessions of a user, and revokes their tokens.
CloseAll(S, u) ==
    /\ \A s \in S : Open(s) /\ owner[s] = u
    /\ closed' = closed \cup S
    /\ current' = [s \in Sessions |-> IF s \in S THEN Lost ELSE current[s]]
    /\ UNCHANGED <<owner, signed>>

Next ==
    \/ \E s \in Sessions, u \in Users : OpenSession(s, u)
    \/ \E s \in Sessions, g \in Grants : Sign(s, g) \/ Issue(s, g) \/ Rotate(s, g)
    \/ \E s \in Sessions : Lose(s) \/ Close(s)
    \/ \E S \in SUBSET Sessions, u \in Users : CloseAll(S, u)

Spec == Init /\ [][Next]_lifecycle

=============================================================================
