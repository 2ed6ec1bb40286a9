# Formal model of atlas-auth

TLA+ specifications of the authentication service in this repository, model-checked
with TLC and, but for liveness, proved with TLAPS for every value of
the constants. Paths below are relative to the repository root, which the manifest
`PROJECT.json` calls `src/`.

## 1. The system and its components

atlas-auth is a stateless NestJS process (any number of replicas) over Postgres
(Prisma) and Redis. Every request is an `async` function: it runs without interruption
between two `await`s, and any other request, of any replica, may run during one. No
operation but the two `$transaction`s of `sessions.repository.ts` spans several
queries atomically, and nothing is atomic across Postgres and Redis.

| Component | State | Operations | Hard part |
|---|---|---|---|
| **Sessions and tokens** (`auth/services/auth.service.ts`, `token*.service.ts`, `auth/strategies/jwt.strategy.ts`, `sessions/`) | tables `sessions`, `refresh_tokens`; Redis `auth:blacklist:{jti,session}:*` with a ttl; the JWTs in circulation | login/register (from `issueSession`), refresh with rotation and reuse detection, logout, revoke one / all other / all sessions, admission of a JWT | every interleaving of these; stale reads; two stores; ttl arithmetic; aborted requests |
| **Credentials and lockout** (`auth.service.ts` 66-105, `users.repository.ts`) | `users.failedLoginAttempts`, `lockedUntil`, `passwordHash` | login attempt, successful login, register | counter read and written back in two queries; a login under way while the lock changes |
| **Password reset and change** (`password.service.ts`) | `password_reset_tokens`, `users.passwordHash` | requestReset, resetPassword, changePassword | single use and invalidation without a transaction; revocation of sessions afterwards |
| **Email verification and change** (`email-verification.service.ts`, `registration.listener.ts`) | `email_verification_tokens`, `users.email`, `isEmailVerified` | send, request change, verify | single use, unique address, listener racing the user's own request |
| **Roles and permissions** (`roles/`, `permissions/`, guards, `prisma/seed.ts`) | four tables; the copy of a user's permissions in each JWT | create, rename, delete, grant, assign and their opposites; the guard; the seed script | rows that go away between a lookup and the write that refers to them; the copy; seeding a live system |
| **Rate limiting** (`redis-throttler-storage.service.ts`) | counter and block key per client and route in Redis | increment (one Lua script) | window, limit and block boundaries; the account lockout behind it |
| **Audit and login history** (`common/audit-log/`) | append-only tables | event listeners | written beside the request, lost when anything fails in between |
| User profile, mail, configuration, health, hashing | - | - | plain I/O or stateless |

How they interact: the controllers call the services; login calls the credential check
and then `issueSession`; `resetPassword` and `changePassword` call
`SessionsService.revokeAll*`; every protected route passes `JwtStrategy`, which reads
Redis only; refresh reads Postgres only; role changes reach a client when its next JWT
is signed; events (`EventEmitter2`) drive the audit log and the registration mail.

What makes each component correct:

- *Sessions and tokens*: a refresh token is exchanged once and its reuse ends the
  session; families and sessions mean the same tokens; nothing undoes a revocation; a
  revoked session issues nothing and its JWTs die; the list of sessions shows every
  session that is usable; only the owner revokes.
- *Credentials*: at most `maxAttempts` wrong passwords before a lock, and none accepted
  while it lasts.
- *Password reset / e-mail*: a token works once, only the newest is outstanding, and
  after a reset nobody who knew only the old password has a session.
- *Roles*: a JWT carries what its user had while it was signed; names are unique, no row
  refers to a deleted one, whoever loses a race is told so and not 500; the seed script
  leaves an admin who may do everything, also against a live system.
- *Rate limiting*: never more than the limit in a window, nobody is refused who did not
  exceed it, a block ends for those who wait, and the account lockout stays visible.
- *Audit*: what happened and what is recorded agree, except where something failed, and
  except changes of roles and permissions (finding 6).

## 2. What is modelled

| Component | Modules |
|---|---|
| Sessions and tokens | `AuthSessions`; its abstraction `SessionLifecycle`, the mapping in `SessionRefinement`; `AuthSessionsProofs` and `SessionRefinementProofs`; for TLC `MCAuthSessions` |
| Credentials and lockout, password reset and change | `Credentials`, `CredentialsProofs`, `MCCredentials` |
| Email verification and change, register | `EmailVerification`, `EmailVerificationProofs`, `MCEmailVerification` |
| Roles and permissions, seed script, mapping of Prisma errors | `Rbac`, `RbacProofs`, `MCRbac` |
| Rate limiting | `Throttler` (the script as operators) |
| Audit and login history | `AuditLog` (the listener as operators) |
| The two together around the handlers, with the lockout | `Requests`, which extends both, `RequestsProofs` and `MCRequests` |

`AuthSessions` and `Credentials` meet in the
table `sessions`: `Login` of the one is `OpenSession` of the other, `RevokeOthers` and
`RevokeAllOf` are what `ListSessions` and `RevokeSessions` do to Redis and to the refresh
tokens as well. `EmailVerification` shares no column with them that a decision reads: login
does not ask whether the address is verified. `Rbac` models what `SignFirst` and
`SignRotated` of `AuthSessions` put into a JWT. `Requests` composes the throttler, the
lockout columns of `Credentials` and the audit listener around the handlers whose inside
the other modules model.

### AuthSessions: state

| Variable | Code |
|---|---|
| `sessions` | table `sessions`: owner, `isRevoked`, `expiresAt` |
| `tokens` | table `refresh_tokens`: owner, session, family, `revokedAt` as a flag, `replacedByTokenHash`, `expiresAt` |
| `access` | every JWT signed: `sub`, `sessionId`, `exp` |
| `delivered` | grants whose answer a client received |
| `blackJti`, `blackSession` | the two kinds of Redis key, each as the time it expires |
| `now` | the clock |
| `req` | what each slot (request in flight) is doing and the local variables it still uses |
| `faults` | aborted requests and Redis restarts so far, bounded |
| `cutOff`, `ended` | history only: JWTs that were blacklisted, and which kinds of revocation completed for a session |

A *grant* is the pair of a refresh token and an access token that one login or refresh
hands out; one identifier names both. UUIDs are random, so the next one is simply the
lowest unused number. Devices, addresses, `lastActiveAt`, events and the roles in the
JWT are left out: no decision of this component reads them. The check of the password
precedes `Login` and belongs to the credentials component.

### AuthSessions: actions

Each action is one awaited query, or one decision with the query that follows it.

| Code | Actions |
|---|---|
| `issueSession` | `Login` (createSession) - `SignFirst` - `StoreFirst` (createRefreshToken, answer) |
| `refresh` | `BeginRefresh` (find by hash) - `CheckSession` - `InsertRotated` - `RetireOld` - `TouchSession` - `SignRotated` (answer); or `DetectReuse` - `RevokeReusedFamily` - `RevokeReusedSession` |
| `JwtStrategy` | `Verify` (signature, `exp`) - `Validate` (both keys); then `Answer` for endpoints that change nothing here |
| `logout` | `LogoutFamily` (cookie, optional) - `LogoutSession` - `LogoutBlacklist` |
| `SessionsService` | `RevokeOne` / `RevokeOthers` / `RevokeAllOf` (the read) - `RevokeTx` (the transaction) - `BlacklistSession` once per session, in any order |
| environment | `Abort` (a request dies between two steps and what it wrote stays), `RedisRestart` (all keys lost), `Tick` |

Steps the code takes between two reads that cannot differ are merged: the lookup of the
user in `refresh` (no code deletes a user), the lookup of the cookie's token in `logout`
(its family never changes), the two pipelined `EXISTS` of `validate`. A request that is
refused at its first check and writes nothing is no step.

### Credentials

One account, since accounts share no row. `password` is a version number: whoever writes
a password writes the next one, so "older" has a meaning. A session row keeps the newest
password shown in it (`pw`): the one its login was accepted with, or the one its change
of password wrote. The clock starts at 1: time 0 is that of what never was, a lock that was
never set or a token that was never created. The histories are `guesses` (the wrong passwords
verified since the last accepted or new one, each numbered and with its time), `uses` (how often a token changed the password), `cleared`
(the newest password whose reset or change was answered) and the mark `stray` of a login
that was accepted before a password was written and opens its session after.

| Code | Actions |
|---|---|
| `login` | `LoginRight` (find, lock check, verification) - `RecordSuccess` - `OpenSession`; or `LoginWrong` - `ReadCounter` - `CountFailure` |
| `requestReset` | `RequestReset` (find, invalidate) - `CreateToken` - `SendMail` |
| `resetPassword` | `FindToken` - `UpdatePassword` - `Consume` - `ListSessions` - `RevokeSessions` |
| `changePassword` | `VerifyCurrent` - `UpdatePassword` - `ListSessions` - `RevokeSessions` |
| environment | `Abort` (also a mail provider that fails), `Tick` |

`VerifyCurrent` lets in any session that was ever opened, since a JWT can outlive its
session (section 5); single sessions that end otherwise only make fewer active.

### EmailVerification

`email`, `verified` and `tokens` are the columns and the table; `mailedTo` says who got the
mail with a token, `claims` which addresses JWTs of a user may carry (resending mails to
the address in the JWT, which may be an earlier one). The history `proved` records, when a
link is used, the user it verifies and the address the link had been mailed to. Links are
used by whoever received them, any number of times, in any order. A user has a row from
`InsertUser` on, which also starts the listener of the registration: `emit` calls it
synchronously up to its first `await`, and it runs in a slot named after the user.

| Code | Actions |
|---|---|
| `register` | `Register` (find) - `InsertUser` (create, event) |
| `handleUserRegistered` | `SendRegistrationVerification` - `InvalidateOutstanding` - `CreateToken` - `SendMail` |
| `resend-verification` | `Resend`, then the same |
| `requestEmailChange` | `RequestEmailChange` (find) - `InvalidateOutstanding` - `CreateToken` - `SendMail` |
| `verify` | `Verify` (find, checks) - `CheckTaken` - `UpdateEmail` - `MarkConsumed`; or `MarkEmailVerified` - `MarkConsumed` |
| environment | `Abort` |

The unique index of `users.email` is `Refused`. Expiry is not a variable: an expired link
is refused without effect, which is a link nobody uses.

### SessionLifecycle and SessionRefinement

`SessionLifecycle` is what a session promises: opened once, at most one working refresh
token, each use of which replaces it, access tokens for that token only, and nothing any
more once closed. `SessionRefinement` computes these from the tables of `AuthSessions`:
`current` is the live token of the session, the older one while a refresh has stored its
successor and not yet retired it. `ImplementsLifecycle` is `Lifecycle!Spec`.

### Rbac

`role` and `permission` give the name of each row, `grants` and `holders` are the two join
tables, `jwts` the permissions of every JWT ever signed. `seed` is the seed script; `watch`,
`intact` and `bootstrapped` are histories.

| Code | Actions |
|---|---|
| `RolesController`, `PermissionsController` behind `PermissionsGuard` (some JWT has the permission) and their first lookup | `CreateRole`, `RenameRole`, `RemoveRole`, `AssignPermission`, `RevokePermission`, `AssignToUser`, `RevokeFromUser`, `CreatePermission`, `RemovePermission` |
| the write, or the constraint that refuses it | `InsertRole`, `UpdateRole`, `DeleteRole`, `FindPermission` - `UpsertGrant`, `DeleteGrant`, `UpsertHolder`, `DeleteHolder`, `InsertPermission`, `DeletePermission` |
| `GlobalExceptionFilter` for the constraint's code | `Catch` |
| `signAccessTokenForUser` | `SignIn` (the roles of the user) - `ReadAccess` (what they grant) - `Sign`: Prisma's `include` is several queries, taken as two |
| `prisma/seed.ts` | `StartSeed` - `SeedPermission` per entry - `SeedRole` twice - `SeedRead` - `SeedGrant` per permission, in any order (`Promise.all`) - `SeedAssign`; `SeedExit` |

Row identifiers are UUIDs; the lowest number that nothing refers to stands for a new one.

### Throttler, AuditLog and Requests

`Throttler!Increment` is the Lua script on the two keys of one client at one route, with
their expiry times. `RowsOf` of `AuditLog` gives the rows an event leaves.

`Requests` is one client that sends one request at a time, logins to `POST /auth/login`,
which is where the bucket is kept, and any other request that must be recorded. A handler
is a sequence of stretches between two awaits: what was done (`Did`) and what was emitted
(`Told`). `emit` starts the listener's inserts (`pending`), which then run beside the
request and beside the ones after it. A write to roles or permissions is a handler too
(`ChangeRole`, `ChangePermission`), one that emits nothing.

| Variable | Code |
|---|---|
| `bucket` | the two Redis keys |
| `account` | `failedLoginAttempts`, `lockedUntil` |
| `req`, `pending` | the request being served and its next stretch; inserts under way |
| `owed`, `lost` | history: rows that are due by what was done and not there yet; rows that never will be |
| `recent`, `burst`, `promise`, `campaign` | history of the client's logins: the set of those of the last window (number, time, whether admitted), when it held too many, what Retry-After said, what the window was used for |

| Code | Actions |
|---|---|
| `ThrottlerGuard` | `TooMany` (429) or `Admit` for a login, `Accept` for the other routes, which stay below their limits here |
| `AuthService.login` | `FindUser` (lookup and lock check), then `Proceed` |
| each handler | `Proceed`, one stretch a step |
| `AuditListener` | `Insert`, `InsertFails` (the event emitter logs it) |
| environment | `Abort`, `Tick` (Redis drops expired keys); a process that dies is an `Abort` and an `InsertFails` of each insert under way |

A key is alive up to and including the millisecond of its expiry. The guard's block
duration is its ttl, and the check for a block is `PTTL > 0`: the script counts hits also while
a block runs, so a client that keeps knocking can be blocked again when the block ends,
which `RetryAfterHonoured` excludes by its premise (fewer than a window's worth of
refusals). Which rows are due is the table `Due`, written from `README.md:410` and
`enum LoginStatus`, independently of the listener; it includes the rows of changes of roles
and permissions. `Rows` is what the listener can write, `DueRows` those two more. What a
request has done and not told of yet is `Untold`; an `Abort` turns it from `owed` to `lost`.

## 3. Runs

The runs of the first table instantiate `MCAuthSessions`.

| Run | Instance | Checks |
|---|---|---|
| `sessions_concurrent` | 2 slots, 1 user, 1 session, 3 grants, 1 fault, clock 0..2, JWT 1 tick, refresh token 2 ticks | `TypeOK`, `FamilyIsSession`, `LateRefreshFails`, `CutOffStaysDead`, `RevocationIsFinal` |
| `sessions_sequential` | 1 slot, 2 users, 2 sessions, 3 grants, no fault, clock 0..2, fair | `SoleLiveToken`, `ListedWhileRefreshable`, `RevokeKillsSession`, `OnlyOwnerRevokes`, `ImplementsLifecycle`, `RequestsFinish`, `ReuseRevokesSession` |
| `revoked_session`, `refresh_race`, `revoke_in_flight` | the smallest instance that shows each | one finding each, section 5 |

| Run | Instance | Checks |
|---|---|---|
| `credentials_concurrent` | 2 slots, 1 attempt, 5 passwords, 3 tokens, 1 session, 1 fault, clock 1..2 | `TypeOK`, `OldPasswordOut`, `UsesBounded`, `OutstandingBounded` |
| `credentials_sequential` | 1 slot, 2 attempts, lock of 2 ticks, 3 passwords, 2 tokens, 2 sessions, no fault, clock 1..5 | `GuessesBounded`, `OldSessionsEnd`, `ResetTokenSingleUse` |
| `lock_lifted` | 2 slots, 2 attempts, logins only | finding 4 |
| `token_reused` | 2 slots, 1 token, no fault | finding 5 |
| `email_concurrent` | 2 slots and 2 listeners, 2 users, 3 addresses, 3 tokens, 1 abort | `TypeOK`, `VerifiedIsProved`, `AddressesApart`, `RegisteredHasLink`, `MovesWhenConfirmed` |
| `rbac` | 2 slots and the seed script, 2 users, 4 rows of each kind, 2 requests that write, 2 runs of the script | `TypeOK`, `SignedWhatWasHeld`, `UniqueNames`, `NothingDangles`, `RacesAreClientErrors`, `SeedRestoresAdmin`, `SeedBootstraps` |
| `requests` | 1 client, limit 2, window of 2 ticks, a second of 3 ticks, 1 attempt, lock of 3 ticks, clock 0..4, 6 logins, 1 other request of any kind, 1 fault | `TypeOK`, `RowHasDeed`, `MissingRowsAreFaults`, `AtMostTwice`, `RefusedOnlyAfterBurst`, `RetryAfterHonoured`, `LockoutSurfaces` |

Why the bounds are enough. Two slots give every pairwise race, and no step of the code
reads what a third request in flight holds. Three grants give a login and two
rotations: enough for a reused token that is not the newest, for two refreshes of one
token, and for a JWT older than the last rotation. The clock covers a JWT that expires
and a refresh token that outlives it, and the boundary instants of both. One fault
gives any single abort or restart at any point. One session suffices in the concurrent
run because two sessions share no row; the cross-session operations (a cookie of
another session, revoke others, revoke all, ownership) are in the sequential run with
two. The concurrent run ignores the history `ended` in its view, which none of its
properties reads. `RefreshTtl` is a small number of ticks, not 30 days: only the order of
the two lifetimes and of the expiry instants is visible to the code.

In `credentials_concurrent` a token can be used at most three times (two slots, one abort) and two
can be outstanding; five passwords and three tokens leave room for one more of each,
so the bounds of the instance do not hide a violation. `OldPasswordOut` is proved for any
number of sessions, so one is enough here. `credentials_sequential` has room for two full
lock periods: the clock runs for 4 ticks and a lock lasts 2.

`credentials_sequential` checks what holds for requests one at a time: the lockout
really limits guesses to `MaxAttempts` in any period of `LockDuration` (which is not
obvious from a counter that is reset when the lock is set), a token works once, and after
a reset or change no older session is active. With two slots all three are false: two
failed logins may count as one or lift a lock, two requests may use a token they both
looked up, a login under way may open a session for the old password. What is left then
is `OutstandingBounded`, `OldPasswordOut` and `UsesBounded`. The last is no substitute for
the single use that `README.md:331` promises, which the code does not keep (`token_reused`,
finding 5): it says how far the code can miss it, once per request under way and per
request that died half way.

`email_concurrent`: three addresses let two users change to the same third one; three
tokens are enough for that race, because the abort can stop one listener before it
creates its token. `RegisteredHasLink` speaks of states in which no request is under way
and nothing was aborted: whoever registered is verified, or has a registration link that
works and was mailed, whatever the listener, resends and changes of address did to each
other's tokens.

`rbac`: two requests that write and the script, which needs none of them, give every pair
of writers; the first writer needs a JWT that the seeded admin has signed, so every
behaviour starts with a run of the script, and the second run meets live requests. Four
rows of a kind are the two or three of the script and those that a request adds; a row that
nothing refers to any more is used again. `SignedWhatWasHeld` brackets a JWT between what
its user had throughout its signing and what the user had at some moment of it: because
roles and permissions are read by separate queries, a JWT may carry a permission its user
never had at one moment, from a role held at the first read that got the permission before
the second. `RacesAreClientErrors` is about refused writes only: a role that is deleted
between two reads of one request can still make Prisma fail with 500.

`requests`: `MissingRowsAreFaults` speaks of the rows some event tells of. It excepts by name
the two that no event tells of: in the run a change of a role or permission leaves its
row owed and nothing ever pays it (finding 6), and with `DueRows` for `Rows` in the property
TLC stops at the first such change. The bucket's arithmetic depends on the order of limit, hits and expiry times
only. Limit 2 lets a window be opened, filled and exceeded, and a block be hit twice; six
logins are a window, a refusal, refused retries until a block follows on a block, and the
retry that Retry-After allows. A second longer than the window makes every remaining block
a fraction of a second, which is where rounding shows. The lock (3) outlasts the window (2) and the number of attempts is below the
limit, as in the defaults; `LockoutAssumption` says so. Inserts of one request may overlap with the
next request (`MaxPending`), time passes when no insert is under way, which no property
about rows can see.
`AtMostTwice` is exact: in the instance a client does have 3 logins admitted in a stretch
as long as a window of limit 2, the last of one window and two of the next.

`sessions_sequential` checks what needs requests to come one at a time: a client that
always presents its newest token is never taken for a thief, `GET /sessions` hides no
usable session, and a completed `DELETE /sessions` ends every JWT. The last is checked
again in `revoke_in_flight` with two slots, where it fails. That requests come one at a time
is also what `ImplementsLifecycle` needs: `refresh_race` gives a session two working tokens.

Fairness. `FairSpec` of `AuthSessions`, the only specification with liveness, puts weak
fairness on `Step(r)` for every slot: a request under way takes its next step. The event
loop runs every continuation, and Postgres and Redis answer; nothing else is assumed. No
client is assumed to call anything, and the clock need not move. The run has one slot: no
step of a request waits for another one, so a second slot could only hold its own request
up. Liveness excludes faults, since an aborted request does not finish its work: that is
hazard, not property.

`Quiet` lets the model rest when no request is in flight, so TLC's deadlock check reports
a request that can neither proceed nor fail.

## 4. Proofs

Every invariant and every action property that a passing run checks is also proved, for
every value of the constants; so is the refinement. The bounds (`MaxTime`, `MaxTokens`, ...)
are arbitrary naturals in the proofs, so a theorem speaks of behaviours of any length over
any number of slots, users, rows and ticks. What a theorem assumes of the constants is only
the `ASSUME`s of its module, which TLC evaluates in every run, and, where a table below says
so, that requests come one at a time or that none is cut short.

### AuthSessionsProofs

| Theorem | States |
|---|---|
| `TypeCorrect` | `Spec => []TypeOK`, including that no expiry lies further ahead than its lifetime |
| `Coherent` | `Spec => []IInv`, the strengthening below |
| `FamiliesAreSessions` | `Spec => []FamilyIsSession` |
| `RevocationFinal` | `Spec => RevocationIsFinal` |
| `RevokedByOwner` | `Spec => OnlyOwnerRevokes` |
| `LateRefreshesFail` | `Spec => []LateRefreshFails` |
| `CutOffForGood` | `Spec => CutOffStaysDead` |

Assumptions: the bounds are naturals, lifetimes are naturals and `AccessTtl` is not 0,
`NoUser` is no user.

The argument. `IInv` says what a slot may rely on: `SlotsOK` (the rows it names exist and
are its user's), `RowsOK` (tokens and JWTs name existing sessions of their owner),
`Reserved` (a grant being issued is not there yet, and no two slots issue the same grant or
open the same session). It is needed because an action writes rows by identifiers it read
several steps earlier: without it an arbitrary slot could overwrite another session's row.
`TypeOK /\ IInv` is inductive: the proof has one step or lemma per action, on top of lemmas
about the three kinds of slot update (`GotoEffect`, `DoneEffect`, `StartedOK`) and the row
updates. On this base:

- families: `FamiliesOK` (a family is named after its first token, and a slot that has
  inserted a token did so in the family of the one it presented), `LinksOK`, `SessionsOK`;
- finality and ownership: `Blank` (a missing row is not revoked, so creating a row
  un-revokes nothing);
- late refreshes: `LateOK` (a late slot is at the session check and its session is revoked),
  which needs finality;
- cut-offs: `CutOffCovered` (each cut-off JWT is covered by a key that outlives it, or has
  expired), which needs the bound on `exp` in `TypeOK`: it is why the fixed ttl of the
  session key covers a JWT of any age, and why setting the key again is harmless.

### SessionRefinementProofs: one request at a time

| Theorem | States | Assumes |
|---|---|---|
| `NewestTokenWorks` | `Spec => []SoleLiveToken` | `OneAtATime`, `MaxFaults = 0` |
| `RefreshableIsListed` | `Spec => []ListedWhileRefreshable` | `OneAtATime` |
| `RevokedIsDead` | `Spec => []RevokeKillsSession` | `OneAtATime`, `MaxFaults = 0` |
| `SessionsImplementLifecycle` | `Spec => ImplementsLifecycle` | `OneAtATime`, `MaxFaults = 0` |

`OneAtATime` says that any two slots are the same. These are not hypotheses of convenience.
With two slots `NewestTokenWorks` and the refinement are false by finding 2 and
`RevokedIsDead` by finding 3; and of two refreshes of one token the earlier may touch the
session last, with an expiry before that of the newest token, so that the session is no
longer listed. A refresh cut short between `RetireOld` and its answer leaves a session whose
only live token no client has, and one cut short before `RetireOld` leaves two live ones; a
Redis that forgets its keys lets a revoked session in again.

On the invariants of `AuthSessionsProofs`, `QInv` adds: `NInv` (grants are numbered without
gaps, and the one being made is above all others), `DInv` (every grant is whole and
delivered, or is being made; every session has a token or is being opened), `LiveInv` (only
the last token of a session is live, but for one about to be retired, and the last one is
live unless something ended the session), `OpenInv` (what a request found is still so when
it acts on it) and `KeyInv` (the key of a revoked session outlives every JWT of it).
`RefreshableIsListed` has an invariant of its own, `ExpInv`: no token that was handed out
outlasts its session, nor the token that is about to replace one, to whose expiry the
session is going to be set. It survives faults of any kind. The proofs state first what each
action does to each column (`...Did`), then have one lemma per action or group of actions
that leave the same columns alone.

For the refinement, `LeastIsCurrent` and `CurrentKnown` say which token `Current`, a
`CHOOSE`, denotes. Then each action is mapped: `Login` opens, `SignFirst` and `SignRotated`
sign, `StoreFirst` issues, `RetireOld` rotates (not `InsertRotated`, after which the old
token is still the current one), the two family revocations lose, the two session
revocations close, `RevokeTx` closes all; the rest stutters. `Lose` and `Close` stutter too
when the token was lost or the session closed before.

### CredentialsProofs

| Theorem | States | Assumes |
|---|---|---|
| `CredentialsTypeCorrect` | `Spec => []TypeOK`: the counter stays below the threshold, locks and tokens reach no further than their durations, as stored and as read | |
| `OldPasswordsOut` | `Spec => []OldPasswordOut` | |
| `FewTokensWork` | `Spec => []OutstandingBounded` | |
| `UsesOfATokenBounded` | `Spec => []UsesBounded` | |
| `NoOldSession` | `Spec => []OldSessionsEnd` | `OneAtATime` |
| `ResetTokensWorkOnce` | `Spec => ResetTokenSingleUse` | `OneAtATime`, `MaxFaults = 0` |
| `FewGuesses` | `Spec => []GuessesBounded` | `OneAtATime`, `MaxFaults = 0` |

Assumptions of the module: `MaxAttempts` is positive, durations and bounds are naturals, and
there are finitely many slots (`ReqsAssumption`), as the two bounds by `Cardinality(Reqs)`
need.

- `OInv`: no row has a newer password than the account (`cleared` and every session are at
  most `password`), a login which is not stray holds the current one, and a request which is
  revoking has found every active session older than the password it wrote: the sessions it
  missed were opened by logins accepted after that write, or by stray ones.
- `LInv`: the unconsumed tokens and the slots about to create one are together no more than
  the slots. Invalidating precedes creating in the same slot, so a slot that enters the
  count has just emptied the table.
- `UInv`: an unconsumed token was used at most by slots about to consume it and by requests
  that died; and its uses plus the slots that found it and will still use it stay within
  slots plus faults. The second half is what makes it inductive when a token is consumed.
- `StrayFree`: with one slot no password changes between the acceptance of a login and its
  session, so `OldPasswordOut` has no exception left. Aborts do no harm here.
- `SInv`: tokens are created in order, only the last may be unconsumed, and one already used
  is about to be consumed. An abort between `UpdatePassword` and `Consume` falsifies it, and
  the property: the link works again.
- `GInv`: the counter is at least the guesses that no lock has answered, and while the
  account is locked at most `MaxAttempts` guesses lie in the last `LockDuration`. An abort
  between the verification and the count leaves a guess uncounted; two slots are finding 4.

### EmailVerificationProofs

| Theorem | States |
|---|---|
| `EmailTypeCorrect` | `Spec => []TypeOK` |
| `NoSharedAddress` | `Spec => []AddressesApart` |
| `OnlyProvedVerified` | `Spec => []VerifiedIsProved` |
| `OnlyConfirmedMoves` | `Spec => MovesWhenConfirmed` |
| `LinkDelivered` | `Spec => []RegisteredHasLink` |

`EInv` ties each slot to the tables (`SlotInv`, per step: what it is about to send, mail,
move, mark or consume), each mailed token to what its mail said (`MailedInv`), and each
account to the addresses it has proved (`UserInv`). Its subtle part: an account that has not
proved its present address has had no other, so a registration link, which may be clicked
after a change of address and marks whatever the address is by then, never verifies an
address nobody proved. `LinkInv` is about behaviours without faults: who is registered is
verified, or has a link mailed or about to be, or has a slot that will create one. A slot
that invalidates links is such a slot itself; that is why resends and listeners that race
leave a working link.

### RbacProofs

| Theorem | States |
|---|---|
| `RbacTypeCorrect` | `Spec => []TypeOK` |
| `NamesAreUnique` | `Spec => []UniqueNames` |
| `NoDanglingRows` | `Spec => []NothingDangles` |
| `RefusalsAreClientErrors` | `Spec => []RacesAreClientErrors` |
| `TokensCarryWhatWasHeld` | `Spec => []SignedWhatWasHeld` |
| `NothingBeforeSeed` | `Spec => []SeedBootstraps` |
| `SeedGivesAdmin` | `Spec => []SeedRestoresAdmin` |

`RInv` is the types, what each slot and the script carry, and the two table properties.
`WatchInv` brackets a signing slot: what its user has now was observed, what was kept
throughout is there now, and the roles it read lie between the two. `BootInv`: before
somebody is admin there is no holder, only the empty JWT, and no request that writes.
`SeedInv` says what the script has achieved at each of its steps, as long as nothing was
taken away (`intact`); it is what `Promise.all`, a rerun and concurrent requests must
preserve.

### RequestsProofs

| Theorem | States |
|---|---|
| `RequestsTypeCorrect` | `Spec => []TypeOK` of `Requests` with the throttler's bucket |
| `WaitingIsHonoured` | `Spec => RetryAfterHonoured` |
| `OnlyBurstsRefused` | `Spec => RefusedOnlyAfterBurst` |
| `NeverThreeWindows` | `Spec => []AtMostTwice` |
| `LockShows` | `Spec => LockoutSurfaces` |
| `NoRowAhead` | `Spec => []RowHasDeed` |
| `OnlyFaultsLoseRows` | `Spec => []MissingRowsAreFaults`: every row but those of finding 6 |

Assumptions: limit, window and second are positive (`ThrottlerAssumption`), the number of
attempts is below the limit and a lock outlasts a window (`LockoutAssumption`, true of the
defaults, without which `LockShows` would be false), the bounds are naturals.

- `TInv`: a key that is there has not expired and lives for `Ttl` at most.
- `PromiseInv`: no block outlasts what Retry-After promised, and either the block covers the
  window that was exceeded or the hits of the present window are refusals, fewer than the
  last: so a client that filled no window with refusals finds room when it comes back.
- `WindowInv`: every hit of the present window is a recent login; the window admits at most
  `Limit`, and of those before it that are still recent at most `Limit - 1`, because the one
  that opened the earlier window is out of reach. Hence `2 * Limit - 1` and not `2 * Limit`.
- `CampaignInv`: in a window of wrong passwords every hit but the one under way has been
  counted, or the account is locked for longer than the window lasts.
- `OwedInv`: what is owed of each row the listener writes is what is pending, plus one if
  the request under way has done the deed and not told of it yet (`Untold`); of the other
  two rows at least that; and what was lost is at most two rows per fault. It follows from
  `Sound`, which each handler is shown to be: it emits in its last stretch only, and starts
  there one insert of each row of the listener's that its deeds made due, two at most.

### What is only model-checked

`RequestsFinish` and `ReuseRevokesSession`: liveness under fairness is out of the prover's
reach. Findings 1 to 5 are counterexamples, which the runs show.

### What the proofs found in the models

Two attempts failed for a good reason, both beyond the bounds of the runs at the time.
`TypeOK` of `Requests` said that a bucket with more hits than the limit is blocked; six
logins that hammer through a block falsify it, because hits go on counting after a block has
ended. The conjunct is gone and the run now sends six. In `Credentials` a reset token with a
lifetime of 0 (which the configuration allows), created at time 0 and consumed, looked like
a token that does not exist, and its number was given again; the clock therefore starts at
1.

## 5. Findings

1. `revoked_session`: reuse detection revokes the session in Postgres only
   (`auth.service.ts:128-129`), and logout blacklists the presented `jti` only, not the
   session (`auth.service.ts:196`), against `README.md:79`. JWTs of the revoked session
   are accepted until they expire. The run shows the first case; a client that refreshes
   and then logs out is the second.
2. `refresh_race`: two concurrent refreshes of one token both succeed
   (`auth.service.ts:121-160`), against `README.md:78`.
3. `revoke_in_flight`: a login or refresh that is past its checks when its session is
   revoked signs a JWT that outlives the session's key, against the comment at
   `token-blacklist.service.ts:22-25`.
4. `lock_lifted`: a failed login writes back the `lockedUntil` it read in an earlier query
   (`users.repository.ts:57, 64-67`), which lifts a lock set in between, against
   `README.md:404`.
5. `token_reused`: two requests that present one password-reset token together both set the
   password, since the update that consumes it (`password.service.ts:58`) does not test what
   the lookup tested (51-52), against `README.md:331`, "single-use token". `UsesBounded`
   and `UsesOfATokenBounded` give the exact number of times.
6. `requests`: no write of `RolesService` or `PermissionsService` emits an event, and nothing
   else writes `audit_logs`, against `README.md:410`, which lists "role/permission changes
   via the standard CRUD" among what is written there. A state of the run with such a change
   at rest owes its row for ever; `MissingRowsAreFaults` and `OnlyFaultsLoseRows` except
   these rows by name.

## 6. Not modelled, and why

Mail templates and providers, configuration, health, hashing, logging and DTO
validation keep no state another component decides by. Cookie attributes and the wording of
answers are presentation. The profile endpoint overwrites one row. `RolesGuard` is used by no
route. Within the modelled components these are left out: the buckets of the routes other
than login (the same script under other keys), several clients (their buckets share
nothing; concurrent logins to one account are in `Credentials`), a throttler whose Redis is
down (every request then fails before its handler), the order in which rows of
different requests reach the audit log (`createdAt` is the time of the insert, and no
document promises an order), and the address, user agent and metadata of a row.

Data that is coarser than in the code: durations are ticks of one clock, so the conversions
between milliseconds and seconds are not modelled (the code rounds `exp` down and takes a
key's life from the milliseconds, the safe direction); `ReadAccess` of `Rbac` joins the reads
of `roles`, `role_permissions` and `permissions`, so a row deleted between them is not
modelled; and `PermissionList` has three names for the
script's eleven, with the two role names it uses.

## 7. Plan

Every safety property that a passing run checks is proved. What may still be worth adding:

1. An abstract specification of the account as `Credentials` and `Requests` see it (a counter,
   a lock, a password that each accepted login was given under), and the refinement for
   requests one at a time.
2. A bound for the general case of `SoleLiveToken`: with any number of slots and faults the
   live tokens of a session are at most one more than the refreshes that were under way together
   and the requests that died.
3. The hazards that `PROJECT.json` lists without a property: a process that dies between the
   transaction of a revocation and the Redis keys, and a `changePassword` that overwrites a
   password written after the current one was verified.
