------------------------------- MODULE Requests -------------------------------
(***************************************************************************)
(* One client of the API and what stands around its requests: the rate     *)
(* limit before the handler, the lock of the account behind it, and the    *)
(* record that listeners keep of what the handler did.                     *)
(*                                                                         *)
(* The client sends one request at a time, to one account.  A handler is   *)
(* the sequence of what it does that must be recorded and what it emits;   *)
(* the other modules have the rest of it.  The inserts that an event       *)
(* starts run beside the request, and beside the ones after it.            *)
(*                                                                         *)
(* The bucket is that of POST /auth/login.  The other routes have buckets  *)
(* of their own, by the same script, with the same limit or a larger one.  *)
(* Requests of which nothing is to be recorded are left out: reads,        *)
(* forgot-password, resend-verification, changes of the profile.           *)
(***************************************************************************)
EXTENDS Throttler, AuditLog, Sequences, Functions

CONSTANTS
    MaxAttempts,   \* ACCOUNT_LOCKOUT_MAX_ATTEMPTS
    LockDuration,  \* ACCOUNT_LOCKOUT_DURATION_MINUTES, in ticks
    MaxTime,       \* bound: the last tick of the clock
    MaxLogins,     \* bound: how many logins the client sends
    MaxOthers,     \* bound: how many other requests it sends
    MaxPending,    \* bound: inserts in flight when a request comes
    MaxFaults      \* bound: how many requests and inserts are cut short

\* The limit is above the number of attempts and a lock outlasts a window,
\* as in the defaults (10 hits in 60 s, 5 attempts, 15 min).
ASSUME LockoutAssumption ==
    /\ MaxAttempts \in Nat \ {0}
    /\ MaxAttempts < Limit
    /\ LockDuration \in Nat
    /\ Ttl < LockDuration
ASSUME RequestsBounds ==
    {MaxTime, MaxLogins, MaxOthers, MaxPending, MaxFaults} \subseteq Nat

VARIABLES
    now,      \* the clock
    bucket,   \* the two keys in Redis of the client at the login route
    account,  \* the lockout columns of the account's row
    req,      \* the request being served and its next step
    pending,  \* the inserts in flight, how many of each row
    owed,     \* history: of each due row, how often it is due and not yet written
    lost,     \* history: the rows that were due and will not be written
    logins,   \* how many logins the client has sent
    others,   \* how many other requests it has sent
    faults,   \* how many requests and inserts were cut short
    recent,   \* history: the logins of the last Ttl: which, when, whether admitted
    burst,    \* history: when recent last held more than Limit logins
    promise,  \* history: when the client may come back, and how often it was refused
    campaign  \* history: what the present window was used for

service == <<bucket, account, req>>
record == <<pending, owed, lost>>
history == <<recent, burst, promise, campaign>>
vars == <<now, service, record, logins, others, faults, history>>

-----------------------------------------------------------------------------
(* The handlers.                                                           *)

\* A stretch of a handler between two awaits: what it has done when it ends,
\* and the events it has emitted.
Did(deed) == [deed |-> deed, emits |-> {}]
Told(events) == [deed |-> "", emits |-> events]
DidAndTold(deed, event) == [deed |-> deed, emits |-> {event}]

Register == <<Did("signed_up"), Told({"USER_REGISTERED"})>>

LoginRight == <<Did("attempts_cleared"), Did("signed_in"), Told({"USER_LOGGED_IN"})>>
LoginWrong == <<Did("attempt_counted"), Told({"FAILED_PASSWORD"})>>
LoginLocked == <<DidAndTold("locked_out", "FAILED_LOCKED")>>
LoginUnknown == <<DidAndTold("not_found", "FAILED_NOT_FOUND")>>

Refresh == <<Told({"TOKEN_REFRESHED"})>>
RefreshReused == <<Did("reuse_answered"), Told({"TOKEN_REUSE_DETECTED"})>>

VerifyEmail == <<Did("email_confirmed"), Told({"EMAIL_VERIFIED"})>>

\* Mutant: the event goes out before the password is written.
ResetPasswordEager ==
    <<Told({"PASSWORD_CHANGED"}), Did("password_written"),
      Did("sessions_revoked"), Told({"ALL_SESSIONS_REVOKED"})>>

ResetPassword ==
    <<Did("password_written"), Did("sessions_revoked"),
      Told({"ALL_SESSIONS_REVOKED", "PASSWORD_CHANGED"})>>
ChangePassword ==
    <<Did("password_written"), Did("sessions_revoked"),
      Told({"ALL_SESSIONS_REVOKED", "PASSWORD_CHANGED"})>>

Logout == <<Did("signed_out"), Told({"USER_LOGGED_OUT"})>>
RevokeSession == <<Did("session_revoked"), Told({"SESSION_REVOKED"})>>
RevokeAllOtherSessions == <<Did("sessions_revoked"), Told({"ALL_SESSIONS_REVOKED"})>>

\* Every write to roles, grants and assignments, and to permissions: it emits nothing.
ChangeRole == <<Did("role_changed")>>
ChangePermission == <<Did("permission_changed")>>

Handlers ==
    [register |-> Register, login_right |-> LoginRight, login_wrong |-> LoginWrong,
     login_locked |-> LoginLocked, login_unknown |-> LoginUnknown,
     refresh |-> Refresh, refresh_reused |-> RefreshReused,
     verify_email |-> VerifyEmail, reset_password |-> ResetPassword,
     change_password |-> ChangePassword, logout |-> Logout,
     revoke_session |-> RevokeSession, revoke_others |-> RevokeAllOtherSessions,
     change_role |-> ChangeRole, change_permission |-> ChangePermission]

\* What a client may send; that an account is locked is found out by the handler.
Logins == {"login_right", "login_wrong", "login_unknown"}
Others == DOMAIN Handlers \ (Logins \cup {"login_locked"})

\* The rows to which a deed gives rise by what is documented: README.md:410 for every
\* action it lists, changes of roles and permissions included, enum LoginStatus for
\* every attempt to log in; and two actions that only the listener's handlers name,
\* registration and detected reuse.
Due ==
    [signed_up        |-> {AuditRow("USER_REGISTERED")},
     signed_in        |-> {AuditRow("USER_LOGGED_IN"), HistoryRow("SUCCESS")},
     attempt_counted  |-> {HistoryRow("FAILED_PASSWORD")},
     locked_out       |-> {HistoryRow("FAILED_LOCKED")},
     not_found        |-> {HistoryRow("FAILED_NOT_FOUND")},
     reuse_answered   |-> {AuditRow("TOKEN_REUSE_DETECTED")},
     email_confirmed  |-> {AuditRow("EMAIL_VERIFIED")},
     password_written |-> {AuditRow("PASSWORD_CHANGED")},
     sessions_revoked |-> {AuditRow("ALL_SESSIONS_REVOKED")},
     session_revoked  |-> {AuditRow("SESSION_REVOKED")},
     signed_out       |-> {AuditRow("USER_LOGGED_OUT")},
     role_changed     |-> {AuditRow("ROLE_CHANGED")},
     permission_changed |-> {AuditRow("PERMISSION_CHANGED")}]
DueFor(deed) == IF deed \in DOMAIN Due THEN Due[deed] ELSE {}

\* Rows is what the listener can write; no event leads to the other two.
DueRows == Rows \cup {AuditRow("ROLE_CHANGED"), AuditRow("PERMISSION_CHANGED")}

-----------------------------------------------------------------------------
Never == 0 - Ttl - 1

Idle == [kind |-> "", at |-> 0]
Account == [failures : 0 .. MaxAttempts - 1, lockedUntil : Nat]

Login == [number : Nat, at : Nat, admitted : BOOLEAN]

\* Types, and how far ahead the expiry times may lie: no key of the bucket and
\* no lock outlives its duration, and the failed attempts stop short of the
\* number that locks.
TypeOK ==
    /\ now \in 0 .. MaxTime
    /\ bucket \in Bucket
    /\ bucket.hitsEnd <= now + Ttl /\ bucket.blockEnd <= now + Ttl
    /\ account \in Account /\ account.lockedUntil <= now + LockDuration
    /\ req \in {Idle} \cup [kind : DOMAIN Handlers, at : Nat]
    /\ req # Idle => req.at <= Len(Handlers[req.kind])
    /\ pending \in [Rows -> Nat] /\ owed \in [DueRows -> Int] /\ lost \in Int
    /\ logins \in 0 .. MaxLogins /\ others \in 0 .. MaxOthers /\ faults \in 0 .. MaxFaults
    /\ recent \subseteq Login
    /\ \A login \in recent : login.number <= logins /\ login.at \in now - Ttl .. now
    /\ burst \in Int
    /\ promise \in [until : Nat, refusals : 0 .. Limit + 1]
    /\ campaign \in [pure : BOOLEAN, surfaced : BOOLEAN]

Init ==
    /\ now = 0
    /\ bucket = Empty
    /\ account = [failures |-> 0, lockedUntil |-> 0]
    /\ req = Idle
    /\ pending = [row \in Rows |-> 0]
    /\ owed = [row \in DueRows |-> 0]
    /\ lost = 0
    /\ logins = 0 /\ others = 0 /\ faults = 0
    /\ recent = {}
    /\ burst = Never
    /\ promise = [until |-> 0, refusals |-> 0]
    /\ campaign = [pure |-> FALSE, surfaced |-> FALSE]

-----------------------------------------------------------------------------
(* The request comes in.                                                   *)

Hit == Increment(bucket, now)
Refused == Blocked(Hit, now)

Room == req = Idle /\ SumFunction(pending) <= MaxPending

Remember(kind, admitted) ==
    LET opens == bucket.hits = 0 /\ ~Blocked(bucket, now)
        pure == kind = "login_wrong" /\ (opens \/ campaign.pure)
    IN  /\ recent' = recent \cup {[number |-> logins', at |-> now, admitted |-> admitted]}
        /\ burst' = IF Cardinality(recent') > Limit THEN now ELSE burst
        /\ campaign' = [pure |-> pure, surfaced |-> pure /\ ~opens /\ campaign.surfaced]

\* ThrottlerGuard refuses a login: 429 with Retry-After.
TooMany(kind) ==
    /\ Room /\ logins < MaxLogins /\ Refused
    /\ bucket' = Hit
    /\ logins' = logins + 1
    /\ Remember(kind, FALSE)
    /\ promise' = [until |-> now + RetryAfter(Hit, now),
                   refusals |-> IF promise.refusals > Limit
                                  THEN promise.refusals ELSE promise.refusals + 1]
    /\ UNCHANGED <<now, others, account, req, record, faults>>

\* ThrottlerGuard lets a login pass.
Admit(kind) ==
    /\ Room /\ logins < MaxLogins /\ ~Refused
    /\ bucket' = Hit
    /\ logins' = logins + 1
    /\ Remember(kind, TRUE)
    /\ promise' = [until |-> 0, refusals |-> 0]
    /\ req' = [kind |-> kind, at |-> 0]
    /\ UNCHANGED <<now, others, account, record, faults>>

\* Any other request that its guards and its handler's checks let pass; one
\* that they refuse is no step.
Accept(kind) ==
    /\ Room /\ others < MaxOthers
    /\ req' = [kind |-> kind, at |-> 1]
    /\ others' = others + 1
    /\ UNCHANGED <<now, logins, bucket, account, record, faults, history>>

Arrive ==
    \/ \E kind \in Logins : TooMany(kind) \/ Admit(kind)
    \/ \E kind \in Others : Accept(kind)

-----------------------------------------------------------------------------
(* The request is served.                                                  *)

Locked == account.lockedUntil > now

\* login reads the user and looks at the lock.
FindUser ==
    /\ req # Idle /\ req.at = 0
    /\ req' = [kind |-> IF Locked /\ req.kind # "login_unknown"
                          THEN "login_locked" ELSE req.kind,
               at |-> 1]
    /\ UNCHANGED <<now, bucket, account, record, logins, others, faults, history>>

\* Mutant: one attempt later.
LocksAtNext(attempts) == attempts > MaxAttempts

\* registerFailedLoginAttempt.
LocksAt(attempts) == attempts >= MaxAttempts
Attempted(a) ==
    IF LocksAt(a.failures + 1)
    THEN [failures |-> 0, lockedUntil |-> now + LockDuration]
    ELSE [a EXCEPT !.failures = @ + 1]

\* What a stretch leaves in the lockout columns.
AccountAfter(deed) ==
    CASE deed = "attempt_counted"                          -> Attempted(account)
      [] deed \in {"attempts_cleared", "password_written"} -> [failures |-> 0, lockedUntil |-> 0]
      [] OTHER                                             -> account

Started(row, events) == Cardinality({e \in events : row \in RowsOf(e)})

\* The next stretch of the handler: it ends at its next await, emit having
\* started the listeners.
Proceed ==
    /\ req # Idle /\ req.at > 0
    /\ LET steps == Handlers[req.kind]
           stretch == steps[req.at]
       IN  /\ account' = AccountAfter(stretch.deed)
           /\ owed' = [row \in DueRows |->
                          owed[row] + (IF row \in DueFor(stretch.deed) THEN 1 ELSE 0)]
           /\ pending' = [row \in Rows |-> pending[row] + Started(row, stretch.emits)]
           /\ campaign' =
                  [pure |-> campaign.pure /\ stretch.deed # "password_written",
                   surfaced |-> /\ campaign.pure /\ stretch.deed # "password_written"
                                /\ campaign.surfaced \/ stretch.deed = "locked_out"]
           /\ req' = IF req.at = Len(steps) THEN Idle ELSE [req EXCEPT !.at = @ + 1]
    /\ UNCHANGED <<now, bucket, lost, logins, others, faults, recent, burst, promise>>

\* What the request under way has done and not told of yet.
Untold(row) ==
    req # Idle /\ \E i \in 1 .. req.at - 1 : row \in DueFor(Handlers[req.kind][i].deed)

\* The request ends early: a store refuses, or the process dies.  Every row that it
\* had still to tell of is lost, once.
Abort ==
    /\ req # Idle /\ faults < MaxFaults
    /\ req' = Idle
    /\ faults' = faults + 1
    /\ owed' = [row \in DueRows |-> IF Untold(row) THEN owed[row] - 1 ELSE owed[row]]
    /\ lost' = lost + Cardinality({row \in DueRows : Untold(row)})
    /\ campaign' = [pure |-> FALSE, surfaced |-> FALSE]
    /\ UNCHANGED <<now, bucket, account, pending, logins, others, recent, burst, promise>>

-----------------------------------------------------------------------------
(* The listeners and the clock.                                            *)

Insert(row) ==
    /\ pending[row] > 0
    /\ pending' = [pending EXCEPT ![row] = @ - 1]
    /\ owed' = [owed EXCEPT ![row] = @ - 1]
    /\ UNCHANGED <<now, service, lost, logins, others, faults, history>>

\* The handler of the event rejects, or the process dies with it.
InsertFails(row) ==
    /\ pending[row] > 0 /\ faults < MaxFaults
    /\ pending' = [pending EXCEPT ![row] = @ - 1]
    /\ owed' = [owed EXCEPT ![row] = @ - 1]
    /\ lost' = lost + 1
    /\ faults' = faults + 1
    /\ UNCHANGED <<now, service, logins, others, history>>

Settled == \A row \in Rows : pending[row] = 0

\* Redis drops what has expired.  What follows the first read of a handler, and
\* an insert, takes less than a tick.
Tick ==
    /\ now < MaxTime /\ req.at = 0 /\ Settled
    /\ now' = now + 1
    /\ bucket' = Swept(bucket, now')
    /\ recent' = {login \in recent : login.at >= now' - Ttl}
    /\ burst' = IF burst < now' - Ttl THEN Never ELSE burst
    /\ promise' = IF promise.until < now' THEN [promise EXCEPT !.until = 0] ELSE promise
    /\ UNCHANGED <<account, req, record, logins, others, faults, campaign>>

Resting == req = Idle /\ Settled
Quiet == Resting /\ UNCHANGED vars

Next ==
    \/ Arrive
    \/ FindUser \/ Proceed \/ Abort
    \/ \E row \in Rows : Insert(row) \/ InsertFails(row)
    \/ Tick
    \/ Quiet

Spec == Init /\ [][Next]_vars

-----------------------------------------------------------------------------
(* Safety.                                                                 *)

\* No row is written before what it records has happened, nor twice: on no
\* path does an emit run ahead of the write it tells of.
RowHasDeed == \A row \in DueRows : owed[row] >= 0

\* When nothing is under way, every row that some event tells of and that was due is
\* there, except those of what was cut short: a request or an insert each, and none
\* costs more than the two rows of one login, or of one change of password.  Rows of
\* changes of roles and permissions are not among them: README.md:410 lists them,
\* RolesService and PermissionsService emit nothing, and with DueRows for Rows the
\* first such change violates this.
MissingRowsAreFaults ==
    /\ Resting => \A row \in Rows : owed[row] = 0
    /\ lost <= 2 * faults

\* A fixed window lets a client have its limit at the end of one window and
\* again at the beginning of the next, and never more: in no stretch as long
\* as a window are there more than 2 * Limit - 1 logins.
AtMostTwice == Cardinality({login \in recent : login.admitted}) <= 2 * Limit - 1

-----------------------------------------------------------------------------
(* Action properties.                                                      *)

\* A client that never sends more than its limit in the length of a window is
\* never refused; one that is refused has done so at most that long ago.
RefusedOnlyAfterBurst ==
    [][\A kind \in Logins : TooMany(kind) => burst' >= now - Ttl]_vars

\* A client that was refused, did not fill a whole window while it was, and
\* then waits for longer than Retry-After says, is let in.
RetryAfterHonoured ==
    [][\A kind \in Logins : TooMany(kind) =>
           ~(promise.refusals \in 1 .. Limit /\ promise.until < now)]_vars

\* The lock of the account shows before the rate limit hides it: when a window
\* was used for wrong passwords at one account only, some request in it was
\* told that the account is locked before any is told to slow down
\* (brute-force-throttle.constant.ts).
LockoutSurfaces ==
    [][\A kind \in Logins : TooMany(kind) =>
           (campaign'.pure => campaign'.surfaced)]_vars

=============================================================================
