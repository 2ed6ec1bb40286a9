---------------------------- MODULE AuthSessions ----------------------------
(***************************************************************************)
(* Sessions, rotated refresh tokens and stateless access tokens: what      *)
(* AuthService (login, refresh, logout), SessionsService (revocation),     *)
(* TokenBlacklistService and JwtStrategy do together.                      *)
(*                                                                         *)
(* The Postgres rows and the Redis keys are shared; every request runs in  *)
(* a slot of Reqs and takes one step per awaited query that changes or     *)
(* decides something, so two requests interleave wherever the code awaits. *)
(*                                                                         *)
(* A "grant" is what one login or one refresh hands out: a refresh token   *)
(* (a row of refresh_tokens) and an access token (a JWT with a jti), both  *)
(* named by the same identifier.  A row exists iff it has an owner.        *)
(*                                                                         *)
(* Left out: devices, IP addresses and user agents, lastActiveAt, domain   *)
(* events; roles and permissions inside the JWT; the credentials a login   *)
(* checks.  A request that is refused and writes nothing is not a step,    *)
(* unless it was already under way.                                        *)
(***************************************************************************)
EXTENDS Naturals, FiniteSets

CONSTANTS
    Reqs,         \* slots: how many requests may be in flight at once
    Users,        \* rows of users; no operation of the program deletes one
    NoUser,       \* the owner of a row that does not exist
    MaxSessions,  \* bound: how many sessions a behaviour may create
    MaxGrants,    \* bound: how many logins and refreshes it may serve
    MaxTime,      \* bound: the clock stops here
    AccessTtl,    \* jwt.accessExpiresIn, in ticks
    RefreshTtl,   \* jwt.refreshExpiresIn, in ticks
    MaxFaults     \* bound: how many requests die half way, or how often
                  \* Redis restarts without its keys, between them

ASSUME UsersAssumption == NoUser \notin Users
ASSUME BoundsAssumption == /\ MaxSessions \in Nat
                           /\ MaxGrants \in Nat
                           /\ MaxTime \in Nat
                           /\ MaxFaults \in Nat
ASSUME TtlAssumption == AccessTtl \in Nat \ {0} /\ RefreshTtl \in Nat

SessionIds == 1 .. MaxSessions
GrantIds == 1 .. MaxGrants

\* What a column or a slot that may be empty holds.
SessionRefs == SessionIds \cup {0}
GrantRefs == GrantIds \cup {0}

VARIABLES
    now,           \* the clock all processes share
    sessions,      \* table sessions: owner, isRevoked, expiresAt
    tokens,        \* table refresh_tokens: owner, session, family, revokedAt
                   \* (as a flag), replacedByTokenHash, expiresAt
    access,        \* the JWTs signed so far: sub, sessionId, exp
    delivered,     \* grants a client received
    blackJti,      \* Redis auth:blacklist:jti:*, the time each key expires
    blackSession,  \* Redis auth:blacklist:session:*, likewise
    faults,        \* how many faults happened
    req,           \* what each slot is doing
    cutOff,        \* history: access tokens the program has blacklisted
    ended          \* history: per session, which revocations were completed

db == <<sessions, tokens>>
redis == <<blackJti, blackSession>>
history == <<cutOff, ended>>
vars == <<now, sessions, tokens, access, delivered, blackJti, blackSession,
          faults, req, cutOff, ended>>

-----------------------------------------------------------------------------
(* Rows, requests and their types.                                         *)

NoSession == [user |-> NoUser, revoked |-> FALSE, expiresAt |-> 0]

NoToken == [user |-> NoUser, session |-> 0, family |-> 0, revoked |-> FALSE,
            replacedBy |-> 0, expiresAt |-> 0]

NoAccess == [user |-> NoUser, session |-> 0, exp |-> 0]

\* A slot with no request.  "grant" is the grant being issued, or the one
\* whose access token the request authenticated with; "token" the refresh
\* token presented; "todo" the sessions being revoked; "late" whether the
\* session was revoked already when the refresh token was looked up.
Idle == [pc |-> "idle", user |-> NoUser, session |-> 0, token |-> 0,
         grant |-> 0, todo |-> {}, late |-> FALSE]

PCs == {"idle",
        "sign", "store",                                \* login
        "check", "insert", "retire", "touch", "reissue", \* refresh
        "family", "reuse",                              \* refresh, reused
        "verify", "authed", "logout", "blacklist",      \* access token, logout
        "revoke", "cutoff"}                             \* DELETE /sessions

Endings == {"cookie", "logout", "reuse", "revoke"}

SessionRow == [user : Users \cup {NoUser}, revoked : BOOLEAN, expiresAt : Nat]

TokenRow == [user : Users \cup {NoUser}, session : SessionRefs,
             family : GrantRefs, revoked : BOOLEAN, replacedBy : GrantRefs,
             expiresAt : Nat]

AccessRow == [user : Users \cup {NoUser}, session : SessionRefs, exp : Nat]

Slot == [pc : PCs, user : Users \cup {NoUser}, session : SessionRefs,
         token : GrantRefs, grant : GrantRefs, todo : SUBSET SessionIds,
         late : BOOLEAN]

\* Types, and how far ahead of the clock an expiry time can be.
TypeOK ==
    /\ now \in 0 .. MaxTime
    /\ sessions \in [SessionIds -> SessionRow]
    /\ tokens \in [GrantIds -> TokenRow]
    /\ access \in [GrantIds -> AccessRow]
    /\ delivered \subseteq GrantIds
    /\ blackJti \in [GrantIds -> Nat]
    /\ blackSession \in [SessionIds -> Nat]
    /\ faults \in 0 .. MaxFaults
    /\ req \in [Reqs -> Slot]
    /\ cutOff \subseteq GrantIds
    /\ ended \in [SessionIds -> SUBSET Endings]
    /\ \A s \in SessionIds : /\ sessions[s].expiresAt <= now + RefreshTtl
                             /\ blackSession[s] <= now + AccessTtl
    /\ \A g \in GrantIds : /\ tokens[g].expiresAt <= now + RefreshTtl
                           /\ access[g].exp <= now + AccessTtl
                           /\ blackJti[g] <= now + AccessTtl

IsSession(s) == sessions[s].user # NoUser
IsToken(g) == tokens[g].user # NoUser
IsAccess(g) == access[g].user # NoUser

\* Identifiers are random UUIDs and carry no information: the next one is the
\* lowest that no row and no request in flight has.
UsedSessions == {s \in SessionIds : IsSession(s)}
UsedGrants == {g \in GrantIds : \/ IsToken(g)
                                \/ IsAccess(g)
                                \/ \E r \in Reqs : req[r].grant = g}
Lowest(i, ids) == i \in ids /\ \A j \in ids : i <= j

-----------------------------------------------------------------------------
(* What the code reads and computes.                                       *)

AccessExpiry == now + AccessTtl

RefreshExpiry == now + RefreshTtl

\* The PX of the session key: blacklistSession(id, getAccessTokenTtlMs()).
CutOffExpiryRefreshTtl == now + RefreshTtl
CutOffExpiryOneShort == now + AccessTtl - 1
CutOffExpiry == now + AccessTtl

\* passport-jwt refuses an expired token; validate() one whose jti or session
\* has a key in Redis.
Unexpired(g) == IsAccess(g) /\ now < access[g].exp
Blacklisted(g) == now < blackJti[g] \/ now < blackSession[access[g].session]
Accepts(g) == Unexpired(g) /\ ~Blacklisted(g)

\* refresh(): an unrevoked token is refused only once its expiry has passed.
Expired(t) == tokens[t].expiresAt < now

\* refresh(): the session of an accepted token must not be revoked.
SessionRefusesNobody(s) == FALSE
SessionRefuses(s) == sessions[s].revoked

\* The family a rotated token is created in: that of the token presented.
FamilyOfItsOwn(t, g) == g
RotatedFamily(t, g) == tokens[t].family

\* revokeRefreshToken(existing.id, new hash), whatever the row says by now.
RetiredOnlyLinked(row, g) == [row EXCEPT !.replacedBy = g]
Retired(row, g) == [row EXCEPT !.revoked = TRUE, !.replacedBy = g]

\* touchSession(id, expiresAt).
TouchedWholeRow(row, t) == [row EXCEPT !.revoked = FALSE, !.expiresAt = t]
TouchedActivityOnly(row, t) == row
Touched(row, t) == [row EXCEPT !.expiresAt = t]

\* SessionsService.revokeSession: 404 and 403.
MayRevokeAny(u, s) == IsSession(s) /\ ~sessions[s].revoked
MayRevoke(u, s) == /\ IsSession(s)
                   /\ ~sessions[s].revoked
                   /\ sessions[s].user = u

\* SessionsRepository.revokeAllExcept; e = 0 when no session is excepted.
ActiveExcept(u, e) == {s \in SessionIds : /\ sessions[s].user = u
                                          /\ ~sessions[s].revoked
                                          /\ s # e}

\* SessionsRepository.findActiveByUser: what GET /sessions shows.
Listed(s) == IsSession(s) /\ ~sessions[s].revoked /\ sessions[s].expiresAt > now

RevokeTokens(G) ==
    tokens' = [g \in GrantIds |-> IF g \in G
                                  THEN [tokens[g] EXCEPT !.revoked = TRUE]
                                  ELSE tokens[g]]

\* updateMany where familyId (and revokedAt null).
FamilyOf(t) == {g \in GrantIds : IsToken(g) /\ tokens[g].family = tokens[t].family}

\* updateMany where sessionId in (and revokedAt null).
TokensOf(S) == {g \in GrantIds : IsToken(g) /\ tokens[g].session \in S}

\* update sessions set isRevoked, by id.
RevokeSession(s) == sessions' = [sessions EXCEPT ![s].revoked = TRUE]

Signed(g, u, s) ==
    access' = [access EXCEPT ![g] = [user |-> u, session |-> s,
                                     exp |-> AccessExpiry]]

At(r, pc) == req[r].pc = pc
Goto(r, pc) == req' = [req EXCEPT ![r].pc = pc]
Done(r) == req' = [req EXCEPT ![r] = Idle]

-----------------------------------------------------------------------------
Init ==
    /\ now = 0
    /\ sessions = [s \in SessionIds |-> NoSession]
    /\ tokens = [g \in GrantIds |-> NoToken]
    /\ access = [g \in GrantIds |-> NoAccess]
    /\ delivered = {}
    /\ blackJti = [g \in GrantIds |-> 0]
    /\ blackSession = [s \in SessionIds |-> 0]
    /\ faults = 0
    /\ req = [r \in Reqs |-> Idle]
    /\ cutOff = {}
    /\ ended = [s \in SessionIds |-> {}]

-----------------------------------------------------------------------------
(* AuthService.login and register, from the point where the credentials are *)
(* accepted: issueSession.                                                  *)

\* createSession, with the expiry of the refresh token generated before it.
Login(r, u) ==
    /\ At(r, "idle")
    /\ \E s \in SessionIds, g \in GrantIds :
         /\ Lowest(s, SessionIds \ UsedSessions)
         /\ Lowest(g, GrantIds \ UsedGrants)
         /\ sessions' = [sessions EXCEPT ![s] = [user |-> u, revoked |-> FALSE,
                                                 expiresAt |-> RefreshExpiry]]
         /\ req' = [req EXCEPT ![r] = [Idle EXCEPT !.pc = "sign", !.user = u,
                                                   !.session = s, !.grant = g]]
    /\ UNCHANGED <<now, faults, tokens, access, delivered, redis, history>>

\* signAccessTokenForUser.
SignFirst(r) ==
    /\ At(r, "sign")
    /\ Signed(req[r].grant, req[r].user, req[r].session)
    /\ Goto(r, "store")
    /\ UNCHANGED <<now, faults, db, delivered, redis, history>>

\* createRefreshToken in a new family; then the answer.  The refresh token was
\* generated before the session and has the same expiry.
StoreFirst(r) ==
    /\ At(r, "store")
    /\ LET g == req[r].grant IN
         /\ tokens' = [tokens EXCEPT ![g] =
                         [user |-> req[r].user, session |-> req[r].session,
                          family |-> g, revoked |-> FALSE, replacedBy |-> 0,
                          expiresAt |-> sessions[req[r].session].expiresAt]]
         /\ delivered' = delivered \cup {g}
    /\ Done(r)
    /\ UNCHANGED <<now, faults, sessions, access, redis, history>>

-----------------------------------------------------------------------------
(* AuthService.refresh.                                                     *)

\* findRefreshTokenByHash, for a token that may be rotated.
BeginRefresh(r, t) ==
    /\ At(r, "idle")
    /\ t \in delivered
    /\ ~tokens[t].revoked
    /\ ~Expired(t)
    /\ \E g \in GrantIds :
         /\ Lowest(g, GrantIds \ UsedGrants)
         /\ req' = [req EXCEPT ![r] =
                      [Idle EXCEPT !.pc = "check", !.user = tokens[t].user,
                                   !.session = tokens[t].session, !.token = t,
                                   !.grant = g,
                                   !.late = sessions[tokens[t].session].revoked]]
    /\ UNCHANGED <<now, faults, db, access, delivered, redis, history>>

\* findRefreshTokenByHash, for a token that was revoked: reuse.
DetectReuse(r, t) ==
    /\ At(r, "idle")
    /\ t \in delivered
    /\ tokens[t].revoked
    /\ req' = [req EXCEPT ![r] = [Idle EXCEPT !.pc = "family",
                                              !.user = tokens[t].user,
                                              !.session = tokens[t].session,
                                              !.token = t]]
    /\ UNCHANGED <<now, faults, db, access, delivered, redis, history>>

\* findSessionById, and 401 when it is revoked.
CheckSession(r) ==
    /\ At(r, "check")
    /\ IF SessionRefuses(req[r].session) THEN Done(r) ELSE Goto(r, "insert")
    /\ UNCHANGED <<now, faults, db, access, delivered, redis, history>>

\* generateRefreshToken and createRefreshToken, in the same family.
InsertRotated(r) ==
    /\ At(r, "insert")
    /\ LET g == req[r].grant IN
         tokens' = [tokens EXCEPT ![g] =
                      [user |-> req[r].user, session |-> req[r].session,
                       family |-> RotatedFamily(req[r].token, g),
                       revoked |-> FALSE, replacedBy |-> 0,
                       expiresAt |-> RefreshExpiry]]
    /\ Goto(r, "retire")
    /\ UNCHANGED <<now, faults, sessions, access, delivered, redis, history>>

RetireOld(r) ==
    /\ At(r, "retire")
    /\ tokens' = [tokens EXCEPT ![req[r].token] = Retired(@, req[r].grant)]
    /\ Goto(r, "touch")
    /\ UNCHANGED <<now, faults, sessions, access, delivered, redis, history>>

TouchSession(r) ==
    /\ At(r, "touch")
    /\ sessions' = [sessions EXCEPT ![req[r].session] =
                      Touched(@, tokens[req[r].grant].expiresAt)]
    /\ Goto(r, "reissue")
    /\ UNCHANGED <<now, faults, tokens, access, delivered, redis, history>>

\* signAccessTokenForUser; then the answer.
SignRotated(r) ==
    /\ At(r, "reissue")
    /\ Signed(req[r].grant, req[r].user, req[r].session)
    /\ delivered' = delivered \cup {req[r].grant}
    /\ Done(r)
    /\ UNCHANGED <<now, faults, db, redis, history>>

\* revokeRefreshTokenFamily, then revokeSession; no key is written to Redis.
ReuseRevokesFamilyOnly == "idle"
AfterReusedFamily == "reuse"

RevokeReusedFamily(r) ==
    /\ At(r, "family")
    /\ RevokeTokens(FamilyOf(req[r].token))
    /\ Goto(r, AfterReusedFamily)
    /\ UNCHANGED <<now, faults, sessions, access, delivered, redis, history>>

RevokeReusedSession(r) ==
    /\ At(r, "reuse")
    /\ RevokeSession(req[r].session)
    /\ ended' = [ended EXCEPT ![req[r].session] = @ \cup {"reuse"}]
    /\ Done(r)
    /\ UNCHANGED <<now, faults, tokens, access, delivered, redis, cutOff>>

-----------------------------------------------------------------------------
(* Requests with an access token: JwtStrategy lets them in once, and what   *)
(* happens to the token later no longer matters to them.                    *)

\* The signature and exp, checked by passport-jwt before it calls validate().
Verify(r, g) ==
    /\ At(r, "idle")
    /\ g \in delivered
    /\ Unexpired(g)
    /\ req' = [req EXCEPT ![r] = [Idle EXCEPT !.pc = "verify", !.grant = g,
                                              !.user = access[g].user,
                                              !.session = access[g].session]]
    /\ UNCHANGED <<now, faults, db, access, delivered, redis, history>>

\* validate: the keys of the jti and of the session, looked up together.
Validate(r) ==
    /\ At(r, "verify")
    /\ IF Blacklisted(req[r].grant) THEN Done(r) ELSE Goto(r, "authed")
    /\ UNCHANGED <<now, faults, db, access, delivered, redis, history>>

\* An endpoint that writes none of this state, or one that answers 404 or 403.
Answer(r) ==
    /\ At(r, "authed")
    /\ Done(r)
    /\ UNCHANGED <<now, faults, db, access, delivered, redis, history>>

\* AuthService.logout with a cookie: the family of whatever refresh token the
\* cookie holds, which need not be one of the session being logged out.
LogoutFamily(r, t) ==
    /\ At(r, "authed")
    /\ t \in delivered
    /\ RevokeTokens(FamilyOf(t))
    /\ ended' = [ended EXCEPT ![tokens[t].session] = @ \cup {"cookie"}]
    /\ Goto(r, "logout")
    /\ UNCHANGED <<now, faults, sessions, access, delivered, redis, cutOff>>

\* revokeSession: the next step of logout, or its first when there is no cookie.
LogoutSession(r) ==
    /\ req[r].pc \in {"authed", "logout"}
    /\ RevokeSession(req[r].session)
    /\ Goto(r, "blacklist")
    /\ UNCHANGED <<now, faults, tokens, access, delivered, redis, history>>

\* blacklist(jti, remaining ttl), which a token without remaining life skips.
LogoutBlacklist(r) ==
    /\ At(r, "blacklist")
    /\ LET g == req[r].grant IN
         /\ blackJti' = IF access[g].exp > now
                        THEN [blackJti EXCEPT ![g] = access[g].exp]
                        ELSE blackJti
         /\ cutOff' = cutOff \cup {g}
    /\ ended' = [ended EXCEPT ![req[r].session] = @ \cup {"logout"}]
    /\ Done(r)
    /\ UNCHANGED <<now, faults, db, access, delivered, blackSession>>

-----------------------------------------------------------------------------
(* SessionsService: revoke one session, all others, or all of a user.       *)

\* revokeSession: findById and its checks.
RevokeOne(r, s) ==
    /\ At(r, "authed")
    /\ MayRevoke(req[r].user, s)
    /\ req' = [req EXCEPT ![r].pc = "revoke", ![r].todo = {s}]
    /\ UNCHANGED <<now, faults, db, access, delivered, redis, history>>

\* revokeAllOtherSessions (also by changePassword): findMany.
RevokeOthers(r) ==
    /\ At(r, "authed")
    /\ LET S == ActiveExcept(req[r].user, req[r].session) IN
         /\ S # {}
         /\ req' = [req EXCEPT ![r].pc = "revoke", ![r].todo = S]
    /\ UNCHANGED <<now, faults, db, access, delivered, redis, history>>

\* revokeAllSessions, called by resetPassword, which needs no access token.
RevokeAllOf(r, u) ==
    /\ At(r, "idle")
    /\ ActiveExcept(u, 0) # {}
    /\ req' = [req EXCEPT ![r] = [Idle EXCEPT !.pc = "revoke", !.user = u,
                                              !.todo = ActiveExcept(u, 0)]]
    /\ UNCHANGED <<now, faults, db, access, delivered, redis, history>>

\* The transaction: the sessions and their unrevoked refresh tokens.
RevokeTx(r) ==
    /\ At(r, "revoke")
    /\ sessions' = [s \in SessionIds |-> IF s \in req[r].todo
                                         THEN [sessions[s] EXCEPT !.revoked = TRUE]
                                         ELSE sessions[s]]
    /\ RevokeTokens(TokensOf(req[r].todo))
    /\ Goto(r, "cutoff")
    /\ UNCHANGED <<now, faults, access, delivered, redis, history>>

\* blacklistSession, all at once and so in any order; the last one answers.
StillToDoNever(todo, s) == todo
StillToDo(todo, s) == todo \ {s}

BlacklistSession(r, s) ==
    /\ At(r, "cutoff")
    /\ s \in req[r].todo
    /\ blackSession' = [blackSession EXCEPT ![s] = CutOffExpiry]
    /\ cutOff' = cutOff \cup {g \in GrantIds : IsAccess(g) /\ access[g].session = s}
    /\ ended' = [ended EXCEPT ![s] = @ \cup {"revoke"}]
    /\ LET left == StillToDo(req[r].todo, s) IN
         IF left = {} THEN Done(r)
                      ELSE req' = [req EXCEPT ![r].todo = left]
    /\ UNCHANGED <<now, faults, db, access, delivered, blackJti>>

-----------------------------------------------------------------------------
(* The environment.                                                         *)

\* The process dies, or a query fails, between two steps of a request: what
\* was written stays, the client gets no answer.
Abort(r) ==
    /\ ~At(r, "idle")
    /\ faults < MaxFaults
    /\ faults' = faults + 1
    /\ Done(r)
    /\ UNCHANGED <<now, db, access, delivered, redis, history>>

\* Redis restarts without its keys; what it had cut off may come back.
RedisRestart ==
    /\ faults < MaxFaults
    /\ faults' = faults + 1
    /\ blackJti' = [g \in GrantIds |-> 0]
    /\ blackSession' = [s \in SessionIds |-> 0]
    /\ cutOff' = {}
    /\ UNCHANGED <<now, db, access, delivered, req, ended>>

Tick ==
    /\ now < MaxTime
    /\ now' = now + 1
    /\ UNCHANGED <<faults, db, access, delivered, redis, req, history>>

\* No request is in flight: the system may stay like this for ever.
AtRest == \A r \in Reqs : At(r, "idle")
Quiet == AtRest /\ UNCHANGED vars

\* What a request under way does next, whatever its client does.
Step(r) ==
    \/ SignFirst(r)
    \/ StoreFirst(r)
    \/ CheckSession(r)
    \/ InsertRotated(r)
    \/ RetireOld(r)
    \/ TouchSession(r)
    \/ SignRotated(r)
    \/ RevokeReusedFamily(r)
    \/ RevokeReusedSession(r)
    \/ Validate(r)
    \/ Answer(r)
    \/ LogoutSession(r)
    \/ LogoutBlacklist(r)
    \/ RevokeTx(r)
    \/ \E s \in SessionIds : BlacklistSession(r, s)

\* A request arrives, or the endpoint of an authenticated one starts.
Call(r) ==
    \/ \E u \in Users : Login(r, u)
    \/ \E t \in GrantIds : BeginRefresh(r, t)
    \/ \E t \in GrantIds : DetectReuse(r, t)
    \/ \E g \in GrantIds : Verify(r, g)
    \/ \E t \in GrantIds : LogoutFamily(r, t)
    \/ \E s \in SessionIds : RevokeOne(r, s)
    \/ RevokeOthers(r)
    \/ \E u \in Users : RevokeAllOf(r, u)

Next ==
    \/ \E r \in Reqs : Step(r)
    \/ \E r \in Reqs : Call(r)
    \/ \E r \in Reqs : Abort(r)
    \/ RedisRestart
    \/ Tick
    \/ Quiet

Spec == Init /\ [][Next]_vars

\* Node's event loop runs every request, Postgres and Redis answer every query.
FairSpec == Spec /\ \A r \in Reqs : WF_vars(Step(r))

-----------------------------------------------------------------------------
(* What holds whatever the interleaving, the aborted requests and the       *)
(* restarts of Redis.                                                       *)

\* A token family is exactly the tokens of one session, all of its owner, and
\* every rotation links a revoked token to one of the same family.  This is
\* what lets refresh() punish reuse by family, and DELETE /sessions by session,
\* and mean the same tokens (auth.service.ts:128, sessions.repository.ts:30).
FamilyIsSession ==
    /\ \A t \in GrantIds : IsToken(t) =>
         /\ tokens[t].session \in SessionIds
         /\ tokens[t].user = sessions[tokens[t].session].user
         /\ tokens[t].replacedBy # 0 =>
              /\ tokens[t].revoked
              /\ IsToken(tokens[t].replacedBy)
              /\ tokens[tokens[t].replacedBy].family = tokens[t].family
    /\ \A a, b \in GrantIds : IsToken(a) /\ IsToken(b) =>
         (tokens[a].family = tokens[b].family <=> tokens[a].session = tokens[b].session)

\* A refresh whose token was looked up after its session had been revoked, by
\* whichever of the four ways, gets no further than the session check: it
\* stores no token and signs none (auth.service.ts:141-144).
LateRefreshFails == \A r \in Reqs : req[r].late => req[r].pc = "check"

\* Once logout has blacklisted a jti, or a revocation the session, no request is
\* let in with an access token that existed then, as long as Redis keeps its
\* keys, unless the token ran out while the request was being let in: each key
\* outlives every token it stands for although it is set with a ttl, and set
\* again (token-blacklist.service.ts:22-31).
CutOffStaysDead ==
    [][\A r \in Reqs : LET g == req[r].grant IN
         At(r, "verify") /\ At(r, "authed")' /\ g \in cutOff => now >= access[g].exp]_vars

\* No interleaving brings a revoked session or refresh token back: a refresh
\* that overtakes a revocation still writes to both rows afterwards
\* (auth.service.ts:160-161).
RevocationIsFinal ==
    [][/\ \A s \in SessionIds : sessions[s].revoked => sessions'[s].revoked
       /\ \A t \in GrantIds : tokens[t].revoked => tokens'[t].revoked]_vars

\* A session is only ever revoked by a request that acts for its owner, be it
\* through a presented token, an access token or a password reset
\* (sessions.service.ts:33-35).
OnlyOwnerRevokes ==
    [][\A s \in SessionIds : ~sessions[s].revoked /\ sessions'[s].revoked =>
         \E r \in Reqs : req'[r] # req[r] /\ req[r].user = sessions[s].user]_vars

-----------------------------------------------------------------------------
(* What holds as long as requests come one at a time and none is aborted.   *)

LiveTokens(s) == {t \in TokensOf({s}) : ~tokens[t].revoked}
NewestDelivered(s) ==
    {t \in TokensOf({s}) \cap delivered :
       \A u \in TokensOf({s}) \cap delivered : u <= t}

\* A session that nobody ended has one live refresh token, the last one handed
\* out; once something ended it, at most that one is left alive.  A client that
\* always presents its newest token is never taken for a thief
\* (auth.service.ts:127, 151-160).
SoleLiveToken ==
    AtRest => \A s \in UsedSessions :
                IF ended[s] = {} THEN LiveTokens(s) = NewestDelivered(s)
                                 ELSE LiveTokens(s) \subseteq NewestDelivered(s)

\* GET /sessions hides no session that can still be refreshed: the expiry of
\* the session keeps up with that of its newest token (auth.service.ts:161).
ListedWhileRefreshable ==
    \A t \in delivered : LET s == tokens[t].session IN
      ~tokens[t].revoked /\ ~sessions[s].revoked /\ tokens[t].expiresAt > now
        => Listed(s)

\* After DELETE /sessions or a password reset has been answered for a session,
\* no access token of that session, old or new, is accepted (README.md:403,
\* token-blacklist.service.ts:22-25).  With several requests at once it is false:
\* a login or a refresh under way then still signs a token, which may outlive
\* the key of the session.
RevokeKillsSession ==
    \A g \in delivered : Accepts(g) => "revoke" \notin ended[access[g].session]

-----------------------------------------------------------------------------
(* What the documentation says and the code does not do.                    *)

\* README.md:79: "an outstanding JWT bound to a revoked session dies immediately",
\* since revocation blacklists its jti and its session.  Logout blacklists the
\* one jti it was called with, reuse detection nothing: other JWTs of the session
\* are still accepted when the request that revoked it has been answered.
RevokedSessionDies ==
    AtRest => \A g \in delivered : Accepts(g) => ~sessions[access[g].session].revoked

\* README.md:78: refresh tokens are rotated on every use, and using one that
\* was rotated is reuse: no token is exchanged twice.  Two requests that look the
\* token up before either retires it both exchange it.
RotatedOnce ==
    [][\A t \in GrantIds : tokens[t].replacedBy # 0 =>
                             tokens'[t].replacedBy = tokens[t].replacedBy]_vars

-----------------------------------------------------------------------------
(* Liveness, under FairSpec and without aborted requests.                   *)

\* Every request is answered, a revocation of many sessions after the last.
RequestsFinish == \A r \in Reqs : []<>At(r, "idle")

\* A reused refresh token always ends its session (README.md:78).
ReuseRevokesSession ==
    \A r \in Reqs, s \in SessionIds :
      At(r, "family") /\ req[r].session = s ~> sessions[s].revoked

=============================================================================
