----------------------------- MODULE Credentials -----------------------------
(***************************************************************************)
(* The credentials of one account: the password, the lockout after failed  *)
(* logins, the tokens that reset a forgotten password, and the sessions a  *)
(* new password is meant to end.  AuthService.login up to createSession,   *)
(* UsersRepository, PasswordService and PasswordResetRepository.           *)
(*                                                                         *)
(* Accounts share no row, so one is enough.  As in AuthSessions a request  *)
(* takes one step per awaited query that changes or decides something; the *)
(* Argon2 verification belongs to the step that read the hash.             *)
(*                                                                         *)
(* A password is a version number: each password written is the next one.  *)
(* Left out: refresh and access tokens (AuthSessions), the name and the    *)
(* address of the account, and requests refused at their first check.      *)
(***************************************************************************)
EXTENDS Naturals, FiniteSets

CONSTANTS
    Reqs,         \* slots: how many requests may be in flight at once
    MaxAttempts,  \* security.accountLockout.maxAttempts
    LockDuration, \* security.accountLockout.durationMinutes, in ticks
    ResetTtl,     \* security.tokenTtl.passwordResetMinutes, in ticks
    MaxTime,      \* bound: the clock stops here
    MaxPasswords, \* bound: how many passwords the account may have in turn
    MaxTokens,    \* bound: how many reset tokens may be created
    MaxSessions,  \* bound: how many sessions may be opened
    MaxFaults     \* bound: how many requests die half way

ASSUME ReqsAssumption == IsFiniteSet(Reqs)
ASSUME LockoutAssumption == MaxAttempts \in Nat \ {0} /\ LockDuration \in Nat
ASSUME ResetAssumption == ResetTtl \in Nat
ASSUME CredentialsBounds == /\ MaxTime \in Nat \ {0}
                            /\ MaxPasswords \in Nat \ {0}
                            /\ MaxTokens \in Nat
                            /\ MaxSessions \in Nat
                            /\ MaxFaults \in Nat

Times == 1 .. MaxTime
Passwords == Nat \ {0}
TokenIds == 1 .. MaxTokens
SessionIds == 1 .. MaxSessions

VARIABLES
    now,          \* the clock, which starts at 1: 0 is the time of what never was
    password,     \* users.passwordHash
    failed,       \* users.failedLoginAttempts
    lockedUntil,  \* users.lockedUntil; 0 for null
    tokens,       \* table password_reset_tokens
    mailed,       \* the tokens whose mail was sent
    sessions,     \* table sessions, with the newest password shown in each
    faults,       \* how many requests died
    req,          \* what each slot is doing
    guesses,      \* history: the wrong passwords verified since the last accepted
                  \* or new one
    uses,         \* history: how often each token changed the password
    cleared       \* history: the newest password whose reset or change has
                  \* been answered

account == <<password, failed, lockedUntil>>
history == <<guesses, uses, cleared>>
vars == <<now, password, failed, lockedUntil, tokens, mailed, sessions, faults,
          req, guesses, uses, cleared>>

-----------------------------------------------------------------------------
(* Rows, requests and their types.                                         *)

\* A row that does not exist yet is consumed, or revoked with no password.
NoToken == [consumed |-> TRUE, expiresAt |-> 0]
NoSession == [pw |-> 0, revoked |-> TRUE, stray |-> FALSE]

\* "pw" is the password a login was accepted with or a reset wrote; "failed" and
\* "lock" the counter and the lock that a failed login read; "stray" whether the
\* password changed after a login was accepted.
Idle == [pc |-> "idle", pw |-> 0, failed |-> 0, lock |-> 0, token |-> 0,
         session |-> 0, todo |-> {}, stray |-> FALSE]

PCs == {"idle",
        "record", "open",           \* login, right password
        "read", "count",            \* login, wrong password
        "create", "mail",           \* POST /auth/forgot-password
        "update", "consume",        \* POST /auth/reset-password, change-password
        "list", "revoke"}

Token == [consumed : BOOLEAN, expiresAt : Nat]

\* A wrong password: how many came before it, and when it was verified.
Guess == [number : Nat, at : Times]

Session == [pw : Passwords \cup {0}, revoked : BOOLEAN, stray : BOOLEAN]

Slot == [pc : PCs, pw : Passwords \cup {0}, failed : Nat, lock : Nat,
         token : TokenIds \cup {0}, session : SessionIds \cup {0},
         todo : SUBSET SessionIds, stray : BOOLEAN]

\* Types; the counter stays below the threshold and no lock or token reaches
\* further ahead of the clock than its duration, as read or as stored.
TypeOK ==
    /\ now \in Times
    /\ password \in Passwords
    /\ failed \in 0 .. (MaxAttempts - 1)
    /\ lockedUntil \in 0 .. (now + LockDuration)
    /\ tokens \in [TokenIds -> Token]
    /\ mailed \subseteq TokenIds
    /\ sessions \in [SessionIds -> Session]
    /\ faults \in 0 .. MaxFaults
    /\ req \in [Reqs -> Slot]
    /\ guesses \subseteq Guess /\ IsFiniteSet(guesses)
    /\ uses \in [TokenIds -> Nat]
    /\ cleared \in Passwords \cup {0}
    /\ \A t \in TokenIds : tokens[t].expiresAt <= now + ResetTtl
    /\ \A r \in Reqs : /\ req[r].failed < MaxAttempts
                       /\ req[r].lock <= now + LockDuration

At(r, pc) == req[r].pc = pc
Goto(r, pc) == req' = [req EXCEPT ![r].pc = pc]
Done(r) == req' = [req EXCEPT ![r] = Idle]
Busy(pcs) == {r \in Reqs : req[r].pc \in pcs}

Issued(t) == tokens[t] # NoToken
Opened(s) == sessions[s].pw # 0

\* The bounds leave room for what the requests in flight will still create.
Unissued == {t \in TokenIds : ~Issued(t)}
Unopened == {s \in SessionIds : ~Opened(s)}
RoomForToken == Cardinality(Busy({"create"})) < Cardinality(Unissued)
RoomForSession == Cardinality(Busy({"record", "open"})) < Cardinality(Unopened)
RoomForPassword == password + Cardinality(Busy({"update"})) < MaxPasswords

\* Identifiers carry no information: the next one is the lowest unused.
Lowest(i, ids) == i \in ids /\ \A j \in ids : i <= j

-----------------------------------------------------------------------------
(* What the code reads and computes.                                       *)

Locked == lockedUntil > now

\* registerFailedLoginAttempt: attempts >= maxAttempts.
ShouldLockTooLate(attempts) == attempts > MaxAttempts
ShouldLock(attempts) == attempts >= MaxAttempts

LockEnd == now + LockDuration

\* resetPassword: the token is neither consumed nor expired.
UsableForEver(t) == tokens[t].expiresAt >= now
Usable(t) == ~tokens[t].consumed /\ tokens[t].expiresAt >= now

\* invalidateOutstanding, one row of it.
InvalidatedNot(row) == row
Invalidated(row) == [row EXCEPT !.consumed = TRUE]

\* revokeAllExcept, the rows it selects; e = 0 when none is excepted.
ActiveExceptLatest(e) == {s \in SessionIds : /\ Opened(s)
                                             /\ ~sessions[s].revoked
                                             /\ \E u \in SessionIds : Opened(u) /\ s < u}
ActiveExcept(e) == {s \in SessionIds : Opened(s) /\ ~sessions[s].revoked /\ s # e}

-----------------------------------------------------------------------------
Init ==
    /\ now = 1
    /\ password = 1
    /\ failed = 0
    /\ lockedUntil = 0
    /\ tokens = [t \in TokenIds |-> NoToken]
    /\ mailed = {}
    /\ sessions = [s \in SessionIds |-> NoSession]
    /\ faults = 0
    /\ req = [r \in Reqs |-> Idle]
    /\ guesses = {}
    /\ uses = [t \in TokenIds |-> 0]
    /\ cleared = 0

-----------------------------------------------------------------------------
(* AuthService.login.                                                       *)

\* findByEmail, the lock check and the verification of the right password.
LoginRight(r) ==
    /\ At(r, "idle")
    /\ ~Locked
    /\ RoomForSession
    /\ req' = [req EXCEPT ![r] = [Idle EXCEPT !.pc = "record", !.pw = password]]
    /\ UNCHANGED <<now, account, tokens, mailed, sessions, faults, history>>

\* recordSuccessfulLogin, whatever happened to the lock since it was checked.
RecordSuccess(r) ==
    /\ At(r, "record")
    /\ failed' = 0
    /\ lockedUntil' = 0
    /\ guesses' = {}
    /\ Goto(r, "open")
    /\ UNCHANGED <<now, password, tokens, mailed, sessions, faults, uses, cleared>>

\* issueSession: createSession; the rest of it is in AuthSessions.
OpenSession(r) ==
    /\ At(r, "open")
    /\ \E s \in SessionIds :
         /\ Lowest(s, Unopened)
         /\ sessions' = [sessions EXCEPT ![s] = [pw |-> req[r].pw, revoked |-> FALSE,
                                                 stray |-> req[r].stray]]
    /\ Done(r)
    /\ UNCHANGED <<now, account, tokens, mailed, faults, history>>

\* findByEmail, the lock check and the verification of a wrong password.
LoginWrong(r) ==
    /\ At(r, "idle")
    /\ ~Locked
    /\ guesses' = guesses \cup {[number |-> Cardinality(guesses), at |-> now]}
    /\ req' = [req EXCEPT ![r] = [Idle EXCEPT !.pc = "read"]]
    /\ UNCHANGED <<now, account, tokens, mailed, sessions, faults, uses, cleared>>

\* registerFailedLoginAttempt: findUniqueOrThrow.
ReadCounter(r) ==
    /\ At(r, "read")
    /\ req' = [req EXCEPT ![r].pc = "count", ![r].failed = failed,
                          ![r].lock = lockedUntil]
    /\ UNCHANGED <<now, account, tokens, mailed, sessions, faults, history>>

\* registerFailedLoginAttempt: the update, computed from the row as it was read.
CountFailure(r) ==
    /\ At(r, "count")
    /\ LET attempts == req[r].failed + 1 IN
         /\ failed' = IF ShouldLock(attempts) THEN 0 ELSE attempts
         /\ lockedUntil' = IF ShouldLock(attempts) THEN LockEnd ELSE req[r].lock
    /\ Done(r)
    /\ UNCHANGED <<now, password, tokens, mailed, sessions, faults, history>>

-----------------------------------------------------------------------------
(* PasswordService.                                                         *)

\* requestReset: findByEmail and invalidateOutstanding.
RequestReset(r) ==
    /\ At(r, "idle")
    /\ RoomForToken
    /\ tokens' = [t \in TokenIds |-> Invalidated(tokens[t])]
    /\ req' = [req EXCEPT ![r] = [Idle EXCEPT !.pc = "create"]]
    /\ UNCHANGED <<now, account, mailed, sessions, faults, history>>

\* requestReset: create.
CreateToken(r) ==
    /\ At(r, "create")
    /\ \E t \in TokenIds :
         /\ Lowest(t, Unissued)
         /\ tokens' = [tokens EXCEPT ![t] = [consumed |-> FALSE,
                                             expiresAt |-> now + ResetTtl]]
         /\ req' = [req EXCEPT ![r].pc = "mail", ![r].token = t]
    /\ UNCHANGED <<now, account, mailed, sessions, faults, history>>

\* requestReset: sendPasswordResetEmail.
SendMail(r) ==
    /\ At(r, "mail")
    /\ mailed' = mailed \cup {req[r].token}
    /\ Done(r)
    /\ UNCHANGED <<now, account, tokens, sessions, faults, history>>

\* resetPassword: findByHash and its checks.
FindToken(r, t) ==
    /\ At(r, "idle")
    /\ t \in mailed
    /\ Usable(t)
    /\ RoomForPassword
    /\ req' = [req EXCEPT ![r] = [Idle EXCEPT !.pc = "update", !.token = t]]
    /\ UNCHANGED <<now, account, tokens, mailed, sessions, faults, history>>

\* changePassword: findById and the verification of the current password, in a
\* request that was let in with an access token of session s.
VerifyCurrent(r, s) ==
    /\ At(r, "idle")
    /\ Opened(s)
    /\ RoomForPassword
    /\ req' = [req EXCEPT ![r] = [Idle EXCEPT !.pc = "update", !.session = s]]
    /\ UNCHANGED <<now, account, tokens, mailed, sessions, faults, history>>

\* updatePassword, for a reset (with a token) or a change (in a session).  A login
\* that was accepted and has no session yet was accepted with an older password.
UpdatePassword(r) ==
    /\ At(r, "update")
    /\ password' = password + 1
    /\ failed' = 0
    /\ lockedUntil' = 0
    /\ guesses' = {}
    /\ uses' = [t \in TokenIds |-> IF t = req[r].token THEN uses[t] + 1 ELSE uses[t]]
    /\ sessions' = [s \in SessionIds |->
                      IF s = req[r].session THEN [sessions[s] EXCEPT !.pw = password']
                                            ELSE sessions[s]]
    /\ req' = [q \in Reqs |->
                 IF q = r THEN [req[r] EXCEPT !.pw = password',
                                  !.pc = IF req[r].token # 0 THEN "consume" ELSE "list"]
                 ELSE [req[q] EXCEPT !.stray = @ \/ req[q].pc \in {"record", "open"}]]
    /\ UNCHANGED <<now, tokens, mailed, faults, cleared>>

\* markConsumed.
ConsumedNot(row) == row
Consumed(row) == [row EXCEPT !.consumed = TRUE]

Consume(r) ==
    /\ At(r, "consume")
    /\ tokens' = [tokens EXCEPT ![req[r].token] = Consumed(@)]
    /\ Goto(r, "list")
    /\ UNCHANGED <<now, account, mailed, sessions, faults, history>>

\* The answer, after which no other session may be left from before.
Answer(r) ==
    /\ cleared' = IF req[r].pw > cleared THEN req[r].pw ELSE cleared
    /\ Done(r)

\* revokeAllSessions or revokeAllOtherSessions: findMany, which may find none.
ListSessions(r) ==
    /\ At(r, "list")
    /\ LET S == ActiveExcept(req[r].session) IN
         IF S = {} THEN Answer(r)
         ELSE /\ req' = [req EXCEPT ![r].pc = "revoke", ![r].todo = S]
              /\ UNCHANGED cleared
    /\ UNCHANGED <<now, account, tokens, mailed, sessions, faults, guesses, uses>>

\* The transaction, on the sessions found.
RevokeSessions(r) ==
    /\ At(r, "revoke")
    /\ sessions' = [s \in SessionIds |-> IF s \in req[r].todo
                                         THEN [sessions[s] EXCEPT !.revoked = TRUE]
                                         ELSE sessions[s]]
    /\ Answer(r)
    /\ UNCHANGED <<now, account, tokens, mailed, faults, guesses, uses>>

-----------------------------------------------------------------------------
(* The environment.                                                         *)

\* The process dies, or a query or the mail provider fails, between two steps:
\* what was written stays, the client gets no answer or an error.
Abort(r) ==
    /\ ~At(r, "idle")
    /\ faults < MaxFaults
    /\ faults' = faults + 1
    /\ Done(r)
    /\ UNCHANGED <<now, account, tokens, mailed, sessions, history>>

Tick ==
    /\ now < MaxTime
    /\ now' = now + 1
    /\ UNCHANGED <<account, tokens, mailed, sessions, faults, req, history>>

\* No request is in flight: the system may stay like this for ever.
Quiet == Busy(PCs \ {"idle"}) = {} /\ UNCHANGED vars

Step(r) ==
    \/ RecordSuccess(r)
    \/ OpenSession(r)
    \/ ReadCounter(r)
    \/ CountFailure(r)
    \/ CreateToken(r)
    \/ SendMail(r)
    \/ UpdatePassword(r)
    \/ Consume(r)
    \/ ListSessions(r)
    \/ RevokeSessions(r)

Call(r) ==
    \/ LoginRight(r)
    \/ LoginWrong(r)
    \/ RequestReset(r)
    \/ \E t \in TokenIds : FindToken(r, t)
    \/ \E s \in SessionIds : VerifyCurrent(r, s)

Next ==
    \/ \E r \in Reqs : Step(r)
    \/ \E r \in Reqs : Call(r)
    \/ \E r \in Reqs : Abort(r)
    \/ Tick
    \/ Quiet

Spec == Init /\ [][Next]_vars

-----------------------------------------------------------------------------
(* What holds whatever the interleaving and the aborted requests.           *)

\* Once a reset or a change has been answered, every session still active was
\* opened with the password it set or a newer one, or showed it that password;
\* the one exception is a session whose login had been accepted when a password
\* was written and opened only afterwards (password.service.ts:57-61, 87-90).
OldPasswordOut ==
    \A s \in SessionIds :
      Opened(s) /\ ~sessions[s].revoked /\ ~sessions[s].stray => sessions[s].pw >= cleared

\* A reset token is not single-use, see UsedOnce.  It is consumed in a separate
\* query, so it can be used again by requests under way at the time, and after a
\* use that was cut short; no more often than that (password.service.ts:51-58).
UsesBounded == \A t \in TokenIds : uses[t] <= Cardinality(Reqs) + faults

\* requestReset invalidates the outstanding tokens before it creates its own:
\* however many mails were asked for, no more tokens work than requests for one
\* were ever under way at once (password.service.ts:32-41).
OutstandingBounded == Cardinality({t \in TokenIds : Usable(t)}) <= Cardinality(Reqs)

-----------------------------------------------------------------------------
(* What holds as long as requests come one at a time and none is aborted.   *)

\* Between two accepted or new passwords, no more than MaxAttempts wrong ones
\* are verified within any LockDuration (auth.service.ts:81, users.repository.ts:52-70).
GuessesBounded ==
    Cardinality({g \in guesses : now < g.at + LockDuration}) <= MaxAttempts

\* A reset token changes the password once, and once a newer one has been created
\* not at all (password.service.ts:32, 52, 58).
ResetTokenSingleUse ==
    [][\A t \in TokenIds : uses'[t] # uses[t] =>
         uses[t] = 0 /\ \A u \in TokenIds : Issued(u) => u <= t]_vars

\* After a reset or a change the user must log in again on every other device
\* (README.md:338-340): no active session is left from an older password.  A
\* login under way at the same time may still open one, see OldPasswordOut.
OldSessionsEnd ==
    \A s \in SessionIds : Opened(s) /\ ~sessions[s].revoked => sessions[s].pw >= cleared

-----------------------------------------------------------------------------
(* What the documentation says and the code does not do.                    *)

\* README.md:331: the token of a reset is single-use.  Two requests that present it
\* together both find it unconsumed (password.service.ts:51-52), and neither the
\* write of the password nor that of consumedAt tests it again (57-58).
UsedOnce == \A t \in TokenIds : uses[t] <= 1

\* README.md:404: an account is locked for 15 minutes after 5 attempts; a further
\* wrong password does not shorten that.  A login that read the row before the
\* lock was set writes back the lockedUntil it read, which lifts the lock.
WrongPasswordKeepsLock ==
    [][\A r \in Reqs : CountFailure(r) => lockedUntil' >= lockedUntil]_vars

=============================================================================
