-------------------------- MODULE CredentialsProofs --------------------------
(***************************************************************************)
(* Proofs, for every value of the constants, of the properties of          *)
(* Credentials: first what holds under concurrency and faults, then what   *)
(* holds when requests come one at a time.                                 *)
(***************************************************************************)
EXTENDS Credentials, FiniteSetTheorems, TLAPS

-----------------------------------------------------------------------------
(* Type correctness.                                                        *)

\* A request that is about to send or to consume a token has one.
HasToken == \A r \in Reqs : req[r].pc \in {"mail", "consume"} => req[r].token \in TokenIds

\* What TypeOK says of the slots.
SlotsTyped ==
    /\ req \in [Reqs -> Slot]
    /\ \A r \in Reqs : req[r].failed < MaxAttempts /\ req[r].lock <= now + LockDuration

TInv == TypeOK /\ HasToken

LEMMA IdleTyped == Idle \in Slot
  BY DEF Idle, Slot, PCs

LEMMA InitTInv == Init => TInv
<1> SUFFICES ASSUME Init PROVE TInv
  OBVIOUS
<1>1. tokens \in [TokenIds -> Token] /\ sessions \in [SessionIds -> Session]
  BY DEF Init, NoToken, NoSession, Token, Session
<1>2. \A t \in TokenIds : tokens[t].expiresAt <= now + ResetTtl
  BY ResetAssumption DEF Init, NoToken
<1>3. req \in [Reqs -> Slot]
  BY IdleTyped DEF Init
<1>4. \A r \in Reqs : /\ req[r].failed < MaxAttempts
                      /\ req[r].lock <= now + LockDuration
                      /\ req[r].pc = "idle"
  BY LockoutAssumption DEF Init, Idle
<1>5. /\ now \in Times /\ failed \in 0 .. (MaxAttempts - 1)
      /\ lockedUntil \in 0 .. (now + LockDuration) /\ faults \in 0 .. MaxFaults
  BY LockoutAssumption, CredentialsBounds DEF Init, Times
<1>6. /\ password \in Passwords /\ cleared \in Passwords \cup {0}
      /\ guesses \subseteq Guess /\ IsFiniteSet(guesses) /\ uses \in [TokenIds -> Nat]
  BY FS_EmptySet DEF Init, Passwords
<1> QED
  BY <1>1, <1>2, <1>3, <1>4, <1>5, <1>6 DEF Init, TInv, TypeOK, HasToken

\* The three slot updates, with what they leave of the slots that are not moved.
LEMMA GotoTyped ==
  ASSUME TInv, NEW r \in Reqs, NEW p \in PCs, Goto(r, p), now' = now,
         p \in {"mail", "consume"} => req[r].token \in TokenIds
  PROVE  SlotsTyped' /\ HasToken'
<1>1. ASSUME NEW q \in Slot
      PROVE  /\ [q EXCEPT !.pc = p] \in Slot
             /\ [q EXCEPT !.pc = p].failed = q.failed
             /\ [q EXCEPT !.pc = p].lock = q.lock
             /\ [q EXCEPT !.pc = p].token = q.token
             /\ [q EXCEPT !.pc = p].pc = p
  BY DEF Slot
<1> QED
  BY <1>1 DEF TInv, TypeOK, HasToken, SlotsTyped, Goto

LEMMA PutTyped ==
  ASSUME TInv, NEW r \in Reqs, NEW q \in Slot, req' = [req EXCEPT ![r] = q], now' = now,
         q.failed < MaxAttempts, q.lock <= now + LockDuration,
         q.pc \in {"mail", "consume"} => q.token \in TokenIds
  PROVE  SlotsTyped' /\ HasToken'
  BY DEF TInv, TypeOK, HasToken, SlotsTyped

LEMMA DoneTyped ==
  ASSUME TInv, NEW r \in Reqs, Done(r), now' = now
  PROVE  SlotsTyped' /\ HasToken'
<1>1. Idle.failed < MaxAttempts /\ Idle.lock <= now + LockDuration /\ Idle.pc = "idle"
  BY LockoutAssumption DEF Idle, TInv, TypeOK, Times
<1> QED
  BY <1>1, IdleTyped, PutTyped DEF Done

\* A request that arrives, whichever of the fields it sets.
LEMMA CallTyped ==
  ASSUME TInv, NEW r \in Reqs, now' = now,
         \/ LoginRight(r) \/ LoginWrong(r) \/ RequestReset(r)
         \/ \E t \in TokenIds : FindToken(r, t)
         \/ \E s \in SessionIds : VerifyCurrent(r, s)
  PROVE  SlotsTyped' /\ HasToken'
<1>0. 0 < MaxAttempts /\ 0 <= now + LockDuration
  BY LockoutAssumption DEF TInv, TypeOK, Times
<1>1. CASE LoginRight(r)
  <2> DEFINE q == [Idle EXCEPT !.pc = "record", !.pw = password]
  <2>1. q \in Slot /\ q.failed = 0 /\ q.lock = 0 /\ q.pc \notin {"mail", "consume"}
    BY DEF Idle, Slot, PCs, TInv, TypeOK
  <2>2. req' = [req EXCEPT ![r] = q]
    BY <1>1 DEF LoginRight
  <2> HIDE DEF q
  <2> QED
    BY <1>0, <2>1, <2>2, PutTyped
<1>2. CASE LoginWrong(r)
  <2> DEFINE q == [Idle EXCEPT !.pc = "read"]
  <2>1. q \in Slot /\ q.failed = 0 /\ q.lock = 0 /\ q.pc \notin {"mail", "consume"}
    BY DEF Idle, Slot, PCs, TInv, TypeOK
  <2>2. req' = [req EXCEPT ![r] = q]
    BY <1>2 DEF LoginWrong
  <2> HIDE DEF q
  <2> QED
    BY <1>0, <2>1, <2>2, PutTyped
<1>3. CASE RequestReset(r)
  <2> DEFINE q == [Idle EXCEPT !.pc = "create"]
  <2>1. q \in Slot /\ q.failed = 0 /\ q.lock = 0 /\ q.pc \notin {"mail", "consume"}
    BY DEF Idle, Slot, PCs, TInv, TypeOK
  <2>2. req' = [req EXCEPT ![r] = q]
    BY <1>3 DEF RequestReset
  <2> HIDE DEF q
  <2> QED
    BY <1>0, <2>1, <2>2, PutTyped
<1>4. ASSUME NEW t \in TokenIds, FindToken(r, t) PROVE SlotsTyped' /\ HasToken'
  <2> DEFINE q == [Idle EXCEPT !.pc = "update", !.token = t]
  <2>1. q \in Slot /\ q.failed = 0 /\ q.lock = 0 /\ q.pc \notin {"mail", "consume"}
    BY DEF Idle, Slot, PCs, TInv, TypeOK
  <2>2. req' = [req EXCEPT ![r] = q]
    BY <1>4 DEF FindToken
  <2> HIDE DEF q
  <2> QED
    BY <1>0, <2>1, <2>2, PutTyped
<1>5. ASSUME NEW s \in SessionIds, VerifyCurrent(r, s) PROVE SlotsTyped' /\ HasToken'
  <2> DEFINE q == [Idle EXCEPT !.pc = "update", !.session = s]
  <2>1. q \in Slot /\ q.failed = 0 /\ q.lock = 0 /\ q.pc \notin {"mail", "consume"}
    BY DEF Idle, Slot, PCs, TInv, TypeOK
  <2>2. req' = [req EXCEPT ![r] = q]
    BY <1>5 DEF VerifyCurrent
  <2> HIDE DEF q
  <2> QED
    BY <1>0, <2>1, <2>2, PutTyped
<1> QED
  BY <1>1, <1>2, <1>3, <1>4, <1>5

\* The rows: everything TypeOK says besides the clock and the slots.
RowsTyped ==
    /\ password \in Passwords
    /\ failed \in 0 .. (MaxAttempts - 1)
    /\ lockedUntil \in 0 .. (now + LockDuration)
    /\ tokens \in [TokenIds -> Token]
    /\ mailed \subseteq TokenIds
    /\ sessions \in [SessionIds -> Session]
    /\ faults \in 0 .. MaxFaults
    /\ guesses \subseteq Guess /\ IsFiniteSet(guesses)
    /\ uses \in [TokenIds -> Nat]
    /\ cleared \in Passwords \cup {0}
    /\ \A t \in TokenIds : tokens[t].expiresAt <= now + ResetTtl

LEMMA Assemble == TypeOK <=> now \in Times /\ RowsTyped /\ SlotsTyped
  BY DEF TypeOK, RowsTyped, SlotsTyped

LEMMA AssembleNext == now' \in Times /\ RowsTyped' /\ SlotsTyped' => TypeOK'
  BY DEF TypeOK, RowsTyped, SlotsTyped

LEMMA UpdatePasswordTyped ==
  ASSUME TInv, NEW r \in Reqs, UpdatePassword(r)
  PROVE  RowsTyped' /\ SlotsTyped' /\ HasToken'
<1>1. password' \in Passwords
  BY DEF UpdatePassword, TInv, TypeOK, Passwords
<1>2. ASSUME NEW s \in SessionIds
      PROVE  sessions'[s] \in Session
  <2>1. sessions[s] \in Session
    BY DEF TInv, TypeOK
  <2>2. [sessions[s] EXCEPT !.pw = password'] \in Session
    BY <1>1, <2>1 DEF Session
  <2> QED
    BY <2>1, <2>2 DEF UpdatePassword
<1>3. sessions' \in [SessionIds -> Session]
  BY <1>2 DEF UpdatePassword
<1>4. ASSUME NEW q \in Reqs
      PROVE  /\ req'[q] \in Slot
             /\ req'[q].failed = req[q].failed
             /\ req'[q].lock = req[q].lock
             /\ req'[q].token = req[q].token
             /\ req'[q].pc \in {"mail", "consume"} =>
                  req'[q].pc = req[q].pc \/ req[q].token # 0
  <2>1. req[q] \in Slot
    BY DEF TInv, TypeOK
  <2>2. CASE q = r
    <3> DEFINE p == IF req[r].token # 0 THEN "consume" ELSE "list"
    <3>1. req'[q] = [req[q] EXCEPT !.pw = password', !.pc = p]
      BY <2>2 DEF UpdatePassword
    <3>2. p \in PCs
      BY DEF PCs
    <3>3. p \in {"mail", "consume"} => req[q].token # 0
      BY <2>2
    <3> HIDE DEF p
    <3> QED
      BY <1>1, <2>1, <3>1, <3>2, <3>3 DEF Slot
  <2>3. CASE q # r
    <3> DEFINE b == req[q].stray \/ req[q].pc \in {"record", "open"}
    <3>1. req'[q] = [req[q] EXCEPT !.stray = b]
      BY <2>3 DEF UpdatePassword
    <3>2. b \in BOOLEAN
      OBVIOUS
    <3> HIDE DEF b
    <3> QED
      BY <2>1, <3>1, <3>2 DEF Slot
  <2> QED
    BY <2>2, <2>3
<1>5. req' \in [Reqs -> Slot]
  BY <1>4 DEF UpdatePassword
<1>6. HasToken'
  BY <1>4 DEF HasToken, TInv, TypeOK, Slot
<1>7. /\ uses' \in [TokenIds -> Nat]
      /\ guesses' \subseteq Guess /\ IsFiniteSet(guesses')
  BY FS_EmptySet DEF UpdatePassword, TInv, TypeOK
<1>8. 0 \in 0 .. (MaxAttempts - 1) /\ 0 \in 0 .. (now + LockDuration)
  BY LockoutAssumption DEF TInv, TypeOK, Times
<1> QED
  BY <1>1, <1>3, <1>4, <1>5, <1>6, <1>7, <1>8
     DEF UpdatePassword, TInv, TypeOK, RowsTyped, SlotsTyped

LEMMA TInvStep == TInv /\ [Next]_vars => TInv'
<1> SUFFICES ASSUME TInv, [Next]_vars PROVE TInv'
  OBVIOUS
<1> USE Assemble, AssembleNext DEF TInv
<1>0. now \in Nat /\ LockDuration \in Nat /\ ResetTtl \in Nat /\ MaxAttempts \in Nat \ {0}
  BY LockoutAssumption, ResetAssumption DEF TypeOK, Times
<1>1. ASSUME NEW r \in Reqs, RecordSuccess(r) PROVE TInv'
  <2>1. SlotsTyped' /\ HasToken'
    BY <1>1, GotoTyped DEF RecordSuccess, PCs
  <2>2. guesses' \subseteq Guess /\ IsFiniteSet(guesses')
    BY <1>1, FS_EmptySet DEF RecordSuccess
  <2> QED
    BY <1>0, <1>1, <2>1, <2>2 DEF RecordSuccess, RowsTyped
<1>2. ASSUME NEW r \in Reqs, OpenSession(r) PROVE TInv'
  <2>1. SlotsTyped' /\ HasToken'
    BY <1>2, DoneTyped DEF OpenSession
  <2>2. [pw |-> req[r].pw, revoked |-> FALSE, stray |-> req[r].stray] \in Session
    BY DEF TypeOK, Slot, Session
  <2>3. sessions' \in [SessionIds -> Session]
    BY <1>2, <2>2 DEF OpenSession, TypeOK
  <2> QED
    BY <1>2, <2>1, <2>3 DEF OpenSession, RowsTyped, account, history
<1>3. ASSUME NEW r \in Reqs, ReadCounter(r) PROVE TInv'
  <2> DEFINE q == [req[r] EXCEPT !.pc = "count", !.failed = failed, !.lock = lockedUntil]
  <2>1. req[r] \in Slot /\ failed \in Nat /\ lockedUntil \in Nat
    BY <1>0 DEF TypeOK
  <2>2. q \in Slot /\ q.failed = failed /\ q.lock = lockedUntil /\ q.pc = "count"
    BY <2>1 DEF Slot, PCs
  <2>3. req' = [req EXCEPT ![r] = q]
    BY <1>3 DEF ReadCounter
  <2>4. failed < MaxAttempts /\ lockedUntil <= now + LockDuration
    BY <1>0 DEF TypeOK
  <2> HIDE DEF q
  <2>5. SlotsTyped' /\ HasToken'
    BY <1>3, <2>2, <2>3, <2>4, PutTyped DEF ReadCounter
  <2> QED
    BY <1>3, <2>5 DEF ReadCounter, RowsTyped, account, history
<1>4. ASSUME NEW r \in Reqs, CountFailure(r) PROVE TInv'
  <2>1. SlotsTyped' /\ HasToken'
    BY <1>4, DoneTyped DEF CountFailure
  <2>2. /\ req[r].failed \in Nat /\ req[r].failed < MaxAttempts
        /\ req[r].lock \in Nat /\ req[r].lock <= now + LockDuration
    BY DEF TypeOK, Slot
  <2>3. failed' \in 0 .. (MaxAttempts - 1)
    BY <1>0, <1>4, <2>2 DEF CountFailure, ShouldLock
  <2>4. lockedUntil' \in 0 .. (now + LockDuration)
    BY <1>0, <1>4, <2>2 DEF CountFailure, LockEnd
  <2> QED
    BY <1>4, <2>1, <2>3, <2>4 DEF CountFailure, RowsTyped, history
<1>5. ASSUME NEW r \in Reqs, CreateToken(r) PROVE TInv'
  <2>1. PICK t \in TokenIds :
          /\ tokens' = [tokens EXCEPT ![t] = [consumed |-> FALSE,
                                              expiresAt |-> now + ResetTtl]]
          /\ req' = [req EXCEPT ![r].pc = "mail", ![r].token = t]
    BY <1>5 DEF CreateToken
  <2> DEFINE q == [req[r] EXCEPT !.pc = "mail", !.token = t]
  <2>2. /\ q \in Slot /\ q.token = t
        /\ q.failed = req[r].failed /\ q.lock = req[r].lock
    BY DEF TypeOK, Slot, PCs
  <2>3. req' = [req EXCEPT ![r] = q]
    BY <2>1
  <2>4. req[r].failed < MaxAttempts /\ req[r].lock <= now + LockDuration
    BY DEF TypeOK
  <2> HIDE DEF q
  <2>5. SlotsTyped' /\ HasToken'
    BY <1>5, <2>2, <2>3, <2>4, PutTyped DEF CreateToken
  <2>6. [consumed |-> FALSE, expiresAt |-> now + ResetTtl] \in Token
    BY <1>0 DEF Token
  <2>7. tokens' \in [TokenIds -> Token]
    BY <2>1, <2>6 DEF TypeOK
  <2>8. \A u \in TokenIds : tokens'[u].expiresAt <= now + ResetTtl
    BY <1>0, <2>1 DEF TypeOK
  <2> QED
    BY <1>5, <2>5, <2>7, <2>8 DEF CreateToken, RowsTyped, account, history
<1>6. ASSUME NEW r \in Reqs, SendMail(r) PROVE TInv'
  <2>1. SlotsTyped' /\ HasToken'
    BY <1>6, DoneTyped DEF SendMail
  <2>2. mailed' \subseteq TokenIds
    BY <1>6 DEF SendMail, At, HasToken, TypeOK
  <2> QED
    BY <1>6, <2>1, <2>2 DEF SendMail, RowsTyped, account, history
<1>7. ASSUME NEW r \in Reqs, UpdatePassword(r) PROVE TInv'
  BY <1>7, UpdatePasswordTyped DEF UpdatePassword
<1>8. ASSUME NEW r \in Reqs, Consume(r) PROVE TInv'
  <2>1. SlotsTyped' /\ HasToken'
    BY <1>8, GotoTyped DEF Consume, PCs
  <2>2. ASSUME NEW t \in TokenIds
        PROVE  tokens'[t] \in Token /\ tokens'[t].expiresAt = tokens[t].expiresAt
    BY <1>8 DEF Consume, Consumed, TypeOK, Token
  <2>3. tokens' \in [TokenIds -> Token]
    BY <1>8, <2>2 DEF Consume, TypeOK
  <2> QED
    BY <1>8, <2>1, <2>2, <2>3 DEF Consume, RowsTyped, account, history
<1>9. ASSUME NEW r \in Reqs, Answer(r), now' = now
      PROVE  SlotsTyped' /\ HasToken' /\ cleared' \in Passwords \cup {0}
  BY <1>9, DoneTyped DEF Answer, TypeOK, Slot
<1>10. ASSUME NEW r \in Reqs, ListSessions(r) PROVE TInv'
  <2>1. CASE ActiveExcept(req[r].session) = {}
    BY <1>9, <1>10, <2>1 DEF ListSessions, RowsTyped, account
  <2>2. CASE ActiveExcept(req[r].session) # {}
    <3> DEFINE q == [req[r] EXCEPT !.pc = "revoke", !.todo = ActiveExcept(req[r].session)]
    <3>1. q \in Slot /\ q.failed = req[r].failed /\ q.lock = req[r].lock /\ q.pc = "revoke"
      BY DEF TypeOK, Slot, PCs, ActiveExcept
    <3>2. req' = [req EXCEPT ![r] = q]
      BY <1>10, <2>2 DEF ListSessions
    <3>3. req[r].failed < MaxAttempts /\ req[r].lock <= now + LockDuration
      BY DEF TypeOK
    <3> HIDE DEF q
    <3>4. SlotsTyped' /\ HasToken'
      BY <1>10, <3>1, <3>2, <3>3, PutTyped DEF ListSessions
    <3> QED
      BY <1>10, <2>2, <3>4 DEF ListSessions, RowsTyped, account
  <2> QED
    BY <2>1, <2>2
<1>11. ASSUME NEW r \in Reqs, RevokeSessions(r) PROVE TInv'
  <2>1. ASSUME NEW s \in SessionIds PROVE sessions'[s] \in Session
    BY <1>11 DEF RevokeSessions, TypeOK, Session
  <2>2. sessions' \in [SessionIds -> Session]
    BY <1>11, <2>1 DEF RevokeSessions
  <2> QED
    BY <1>9, <1>11, <2>2 DEF RevokeSessions, RowsTyped, account
<1>12. ASSUME NEW r \in Reqs, Call(r) PROVE TInv'
  <2>1. now' = now /\ SlotsTyped' /\ HasToken'
    BY <1>12, CallTyped DEF Call, LoginRight, LoginWrong, RequestReset, FindToken,
       VerifyCurrent
  <2>2. CASE LoginWrong(r)
    <3>1. guesses' \subseteq Guess /\ IsFiniteSet(guesses')
      <4>1. Cardinality(guesses) \in Nat
        BY FS_CardinalityType DEF TypeOK
      <4>2. [number |-> Cardinality(guesses), at |-> now] \in Guess
        BY <4>1 DEF Guess, TypeOK
      <4> QED
        BY <2>2, <4>2, FS_AddElement DEF LoginWrong, TypeOK
    <3> QED
      BY <2>1, <2>2, <3>1 DEF LoginWrong, RowsTyped, account
  <2>3. CASE RequestReset(r)
    <3>1. ASSUME NEW t \in TokenIds
          PROVE  tokens'[t] \in Token /\ tokens'[t].expiresAt = tokens[t].expiresAt
      BY <2>3 DEF RequestReset, Invalidated, TypeOK, Token
    <3>2. tokens' \in [TokenIds -> Token]
      BY <2>3, <3>1 DEF RequestReset
    <3> QED
      BY <2>1, <2>3, <3>1, <3>2 DEF RequestReset, RowsTyped, account, history
  <2>4. CASE LoginRight(r) \/ (\E t \in TokenIds : FindToken(r, t))
               \/ \E s \in SessionIds : VerifyCurrent(r, s)
    BY <2>1, <2>4 DEF LoginRight, FindToken, VerifyCurrent, RowsTyped, account, history
  <2> QED
    BY <1>12, <2>2, <2>3, <2>4 DEF Call
<1>13. ASSUME NEW r \in Reqs, Abort(r) PROVE TInv'
  <2>1. SlotsTyped' /\ HasToken'
    BY <1>13, DoneTyped DEF Abort
  <2>2. faults' \in 0 .. MaxFaults
    BY <1>13, CredentialsBounds DEF Abort, TypeOK
  <2> QED
    BY <1>13, <2>1, <2>2 DEF Abort, RowsTyped, account, history
<1>14. CASE Tick
  <2>1. now' \in Times /\ now' = now + 1
    BY <1>0, <1>14, CredentialsBounds DEF Tick, Times, TypeOK
  <2>2. \A r \in Reqs : req[r].lock <= now' + LockDuration
    BY <1>0, <2>1 DEF TypeOK, Slot
  <2>3. \A t \in TokenIds : tokens[t].expiresAt <= now' + ResetTtl
    BY <1>0, <2>1 DEF TypeOK, Token
  <2>4. lockedUntil \in 0 .. (now' + LockDuration)
    BY <1>0, <2>1 DEF TypeOK
  <2> QED
    BY <1>14, <2>1, <2>2, <2>3, <2>4
       DEF Tick, TypeOK, RowsTyped, SlotsTyped, HasToken, account, history
<1>15. CASE UNCHANGED vars
  BY <1>15 DEF vars, TypeOK, RowsTyped, SlotsTyped, HasToken
<1> QED
  BY <1>1, <1>2, <1>3, <1>4, <1>5, <1>6, <1>7, <1>8, <1>10, <1>11, <1>12, <1>13,
     <1>14, <1>15 DEF Next, Step, Quiet

LEMMA TInvInvariant == Spec => []TInv
  BY InitTInv, TInvStep, PTL DEF Spec

\* Types; the counter of failed logins stays below the threshold, and no lock and
\* no reset token reaches further ahead of the clock than its duration.
THEOREM CredentialsTypeCorrect == Spec => []TypeOK
  BY TInvInvariant, PTL DEF TInv

-----------------------------------------------------------------------------
(* Which sessions outlive a new password.                                   *)

ActiveRow(s) == sessions[s].pw # 0 /\ ~sessions[s].revoked /\ ~sessions[s].stray

\* What a slot knows: a login that is not stray was accepted with the password
\* that is current; a request that wrote a password wrote no later one, its own
\* session has seen that one, and whatever active session it has not found
\* among those to revoke is not older.
SlotFresh(r) ==
    /\ req[r].pc \in {"record", "open"} =>
         /\ req[r].pw <= password
         /\ req[r].stray \/ req[r].pw = password
    /\ req[r].pc \in {"consume", "list", "revoke"} =>
         /\ req[r].pw <= password
         /\ \A s \in SessionIds : s = req[r].session /\ ActiveRow(s) =>
              req[r].pw <= sessions[s].pw
    /\ req[r].pc = "revoke" =>
         \A s \in SessionIds : ActiveRow(s) /\ s \notin req[r].todo =>
           req[r].pw <= sessions[s].pw

OInv ==
    /\ cleared <= password
    /\ \A s \in SessionIds : sessions[s].pw <= password
    /\ \A s \in SessionIds : ActiveRow(s) => cleared <= sessions[s].pw
    /\ \A r \in Reqs : SlotFresh(r)

\* No active session is new, and none has another password than before.
NoneNewer ==
    \A s \in SessionIds : /\ sessions'[s].pw = sessions[s].pw
                          /\ ActiveRow(s)' => ActiveRow(s)

\* A step that moves one slot, and neither the password nor "cleared".
LEMMA OneMoved ==
  ASSUME OInv, NEW r \in Reqs, NoneNewer, UNCHANGED <<password, cleared>>,
         \A q \in Reqs \ {r} : req'[q] = req[q], SlotFresh(r)'
  PROVE  OInv'
<1>1. ASSUME NEW q \in Reqs \ {r} PROVE SlotFresh(q)'
  BY <1>1 DEF OInv, NoneNewer, SlotFresh
<1> QED
  BY <1>1 DEF OInv, NoneNewer

\* A slot that does none of what OInv speaks of.
LEMMA Elsewhere ==
  ASSUME NEW r \in Reqs, req'[r].pc \notin {"record", "open", "consume", "list", "revoke"}
  PROVE  SlotFresh(r)'
  BY DEF SlotFresh

LEMMA DoneFresh ==
  ASSUME TInv, NEW r \in Reqs, Done(r)
  PROVE  SlotFresh(r)' /\ \A q \in Reqs \ {r} : req'[q] = req[q]
<1>1. req'[r].pc = "idle" /\ \A q \in Reqs \ {r} : req'[q] = req[q]
  BY DEF Done, Idle, TInv, TypeOK
<1> QED
  BY <1>1, Elsewhere

LEMMA InitOInv == Init => OInv
  BY DEF Init, OInv, SlotFresh, ActiveRow, NoSession, Idle

LEMMA OpenSessionOInv ==
  ASSUME TInv, OInv, NEW r \in Reqs, OpenSession(r)
  PROVE  OInv'
<1>1. PICK s \in SessionIds :
        sessions' = [sessions EXCEPT ![s] = [pw |-> req[r].pw, revoked |-> FALSE,
                                             stray |-> req[r].stray]]
  BY DEF OpenSession
<1>2. UNCHANGED <<password, cleared>> /\ Done(r)
  BY DEF OpenSession, account, history
<1>3. /\ \A u \in SessionIds \ {s} : sessions'[u] = sessions[u]
      /\ sessions'[s].pw = req[r].pw /\ sessions'[s].stray = req[r].stray
  BY <1>1 DEF TInv, TypeOK
<1>4. req[r].pw <= password /\ (req[r].stray \/ req[r].pw = password)
  BY DEF OpenSession, At, OInv, SlotFresh
<1>5. ActiveRow(s)' => sessions'[s].pw = password
  BY <1>3, <1>4 DEF ActiveRow
<1>6. SlotFresh(r)' /\ \A q \in Reqs \ {r} : req'[q] = req[q]
  BY <1>2, DoneFresh
<1>7. ASSUME NEW q \in Reqs \ {r} PROVE SlotFresh(q)'
  <2>1. SlotFresh(q) /\ req'[q] = req[q]
    BY <1>6 DEF OInv
  <2>2. \A u \in SessionIds \ {s} : sessions'[u] = sessions[u] /\ (ActiveRow(u)' <=> ActiveRow(u))
    BY <1>3 DEF ActiveRow
  <2> QED
    BY <1>2, <1>5, <2>1, <2>2 DEF SlotFresh
<1>8. \A u \in SessionIds : ActiveRow(u)' => cleared <= sessions'[u].pw
  BY <1>3, <1>5 DEF OInv, ActiveRow
<1>9. \A u \in SessionIds : sessions'[u].pw <= password
  BY <1>3, <1>4 DEF OInv
<1> QED
  BY <1>2, <1>6, <1>7, <1>8, <1>9 DEF OInv

LEMMA UpdatePasswordOInv ==
  ASSUME TInv, OInv, NEW r \in Reqs, UpdatePassword(r)
  PROVE  OInv'
<1>1. password \in Nat /\ password' = password + 1 /\ cleared' = cleared /\ cleared \in Nat
  BY DEF UpdatePassword, TInv, TypeOK, Passwords
<1>2. ASSUME NEW s \in SessionIds
      PROVE  /\ sessions[s].pw \in Nat
             /\ sessions'[s].pw = IF s = req[r].session THEN password' ELSE sessions[s].pw
             /\ ActiveRow(s)' => ActiveRow(s) \/ s = req[r].session
  <2>1. sessions[s] \in Session
    BY DEF TInv, TypeOK
  <2>2. sessions'[s] = IF s = req[r].session THEN [sessions[s] EXCEPT !.pw = password']
                                             ELSE sessions[s]
    BY DEF UpdatePassword
  <2> QED
    BY <2>1, <2>2 DEF Session, Passwords, ActiveRow
<1>3. ASSUME NEW s \in SessionIds
      PROVE  /\ sessions'[s].pw <= password'
             /\ ActiveRow(s)' => cleared <= sessions'[s].pw
             /\ sessions[s].pw <= sessions'[s].pw
  BY <1>1, <1>2 DEF OInv
<1>4. req[r] \in Slot
  BY DEF TInv, TypeOK
<1>5. /\ req'[r].pw = password' /\ req'[r].pc \in {"consume", "list"}
      /\ req'[r].session = req[r].session
  <2> DEFINE p == IF req[r].token # 0 THEN "consume" ELSE "list"
  <2>1. req'[r] = [req[r] EXCEPT !.pw = password', !.pc = p] /\ p \in {"consume", "list"}
    BY DEF UpdatePassword
  <2> HIDE DEF p
  <2> QED
    BY <1>4, <2>1 DEF Slot
<1>6. SlotFresh(r)'
  BY <1>1, <1>2, <1>5 DEF SlotFresh
<1>7. ASSUME NEW q \in Reqs \ {r} PROVE SlotFresh(q)'
  <2>1. req[q] \in Slot /\ SlotFresh(q)
    BY DEF TInv, TypeOK, OInv
  <2> DEFINE b == req[q].stray \/ req[q].pc \in {"record", "open"}
  <2>2. req'[q] = [req[q] EXCEPT !.stray = b]
    BY DEF UpdatePassword
  <2>3. req[q].pc \in {"record", "open"} => b
    OBVIOUS
  <2> HIDE DEF b
  <2>4. /\ req'[q].pc = req[q].pc /\ req'[q].pw = req[q].pw
        /\ req'[q].session = req[q].session /\ req'[q].todo = req[q].todo
        /\ req[q].pc \in {"record", "open"} => req'[q].stray
        /\ req[q].pw \in Nat
    BY <2>1, <2>2, <2>3 DEF Slot, Passwords
  <2>5. CASE req[q].pc \in {"record", "open"}
    BY <1>1, <2>1, <2>4, <2>5 DEF SlotFresh
  <2>6. CASE req[q].pc \in {"consume", "list", "revoke"}
    <3>1. req[q].pw <= password
      BY <2>1, <2>6 DEF SlotFresh
    <3>2. ASSUME NEW s \in SessionIds, ActiveRow(s)',
                 s = req[q].session \/ (req[q].pc = "revoke" /\ s \notin req[q].todo)
          PROVE  req[q].pw <= sessions'[s].pw
      <4>1. CASE s = req[r].session
        BY <1>1, <1>2, <2>4, <3>1, <4>1
      <4>2. CASE s # req[r].session
        BY <1>2, <2>1, <2>6, <3>2, <4>2 DEF SlotFresh
      <4> QED
        BY <4>1, <4>2
    <3> QED
      BY <1>1, <2>4, <2>6, <3>1, <3>2 DEF SlotFresh
  <2>7. CASE req[q].pc \notin {"record", "open", "consume", "list", "revoke"}
    BY <2>4, <2>7, Elsewhere
  <2> QED
    BY <2>5, <2>6, <2>7
<1> QED
  BY <1>1, <1>3, <1>6, <1>7 DEF OInv

\* The answer raises "cleared" to a password that every active session has seen.
LEMMA AnswerOInv ==
  ASSUME TInv, OInv, NEW r \in Reqs, Answer(r), password' = password, NoneNewer,
         req[r].pw <= password,
         \A s \in SessionIds : ActiveRow(s)' => req[r].pw <= sessions[s].pw
  PROVE  OInv'
<1>1. cleared' = cleared \/ cleared' = req[r].pw
  BY DEF Answer
<1>2. SlotFresh(r)' /\ \A q \in Reqs \ {r} : req'[q] = req[q]
  BY DoneFresh DEF Answer
<1>3. ASSUME NEW q \in Reqs \ {r} PROVE SlotFresh(q)'
  BY <1>2, <1>3 DEF OInv, NoneNewer, SlotFresh
<1>4. \A s \in SessionIds : ActiveRow(s)' => cleared' <= sessions'[s].pw
  BY <1>1 DEF OInv, NoneNewer
<1> QED
  BY <1>1, <1>2, <1>3, <1>4 DEF OInv, NoneNewer

LEMMA ListSessionsOInv ==
  ASSUME TInv, OInv, NEW r \in Reqs, ListSessions(r)
  PROVE  OInv'
<1>1. NoneNewer /\ password' = password
  BY DEF ListSessions, NoneNewer, ActiveRow, account
<1>2. /\ req[r].pw <= password
      /\ \A s \in SessionIds : s = req[r].session /\ ActiveRow(s) =>
           req[r].pw <= sessions[s].pw
  BY DEF ListSessions, At, OInv, SlotFresh
<1>3. \A s \in SessionIds : ActiveRow(s) =>
        s \in ActiveExcept(req[r].session) \/ s = req[r].session
  BY DEF ActiveRow, ActiveExcept, Opened
<1>4. CASE ActiveExcept(req[r].session) = {}
  <2>1. \A s \in SessionIds : ActiveRow(s)' => req[r].pw <= sessions[s].pw
    BY <1>1, <1>2, <1>3, <1>4 DEF NoneNewer
  <2> QED
    BY <1>1, <1>2, <1>4, <2>1, AnswerOInv DEF ListSessions
<1>5. CASE ActiveExcept(req[r].session) # {}
  <2>1. /\ req' = [req EXCEPT ![r].pc = "revoke", ![r].todo = ActiveExcept(req[r].session)]
        /\ cleared' = cleared
    BY <1>5 DEF ListSessions
  <2>2. /\ req'[r].pc = "revoke" /\ req'[r].todo = ActiveExcept(req[r].session)
        /\ req'[r].pw = req[r].pw /\ req'[r].session = req[r].session
        /\ \A q \in Reqs \ {r} : req'[q] = req[q]
    BY <2>1 DEF TInv, TypeOK, Slot
  <2>3. SlotFresh(r)'
    BY <1>1, <1>2, <1>3, <2>2 DEF SlotFresh, NoneNewer
  <2> QED
    BY <1>1, <2>1, <2>2, <2>3, OneMoved
<1> QED
  BY <1>4, <1>5

LEMMA RevokeSessionsOInv ==
  ASSUME TInv, OInv, NEW r \in Reqs, RevokeSessions(r)
  PROVE  OInv'
<1>1. ASSUME NEW s \in SessionIds
      PROVE  /\ sessions'[s].pw = sessions[s].pw
             /\ ActiveRow(s)' => ActiveRow(s) /\ s \notin req[r].todo
  <2>1. sessions[s] \in Session
    BY DEF TInv, TypeOK
  <2>2. sessions'[s] = IF s \in req[r].todo THEN [sessions[s] EXCEPT !.revoked = TRUE]
                                            ELSE sessions[s]
    BY DEF RevokeSessions
  <2>3. CASE s \in req[r].todo
    BY <2>1, <2>2, <2>3 DEF Session, ActiveRow
  <2>4. CASE s \notin req[r].todo
    BY <2>2, <2>4 DEF ActiveRow
  <2> QED
    BY <2>3, <2>4
<1>2. NoneNewer
  BY <1>1 DEF NoneNewer
<1>3. /\ req[r].pw <= password
      /\ \A s \in SessionIds : ActiveRow(s) /\ s \notin req[r].todo =>
           req[r].pw <= sessions[s].pw
  BY DEF RevokeSessions, At, OInv, SlotFresh
<1>4. Answer(r) /\ password' = password
  BY DEF RevokeSessions, account
<1> QED
  BY <1>1, <1>2, <1>3, <1>4, AnswerOInv

LEMMA OInvStep == TInv /\ OInv /\ [Next]_vars => OInv'
<1> SUFFICES ASSUME TInv, OInv, [Next]_vars PROVE OInv'
  OBVIOUS
<1>1. ASSUME sessions' = sessions PROVE NoneNewer
  BY <1>1 DEF NoneNewer, ActiveRow
<1>2. ASSUME NEW r \in Reqs, Done(r), sessions' = sessions, UNCHANGED <<password, cleared>>
      PROVE  OInv'
  BY <1>1, <1>2, DoneFresh, OneMoved
<1>3. ASSUME NEW r \in Reqs, NEW p \in PCs, Goto(r, p), sessions' = sessions,
             UNCHANGED <<password, cleared>>,
             \/ p \notin {"record", "open", "consume", "list", "revoke"}
             \/ p = "open" /\ req[r].pc = "record"
             \/ p = "list" /\ req[r].pc = "consume"
      PROVE  OInv'
  <2>1. /\ req'[r].pc = p /\ req'[r].pw = req[r].pw /\ req'[r].stray = req[r].stray
        /\ req'[r].session = req[r].session
        /\ \A q \in Reqs \ {r} : req'[q] = req[q]
    BY <1>3 DEF Goto, TInv, TypeOK, Slot
  <2>2. SlotFresh(r)
    BY DEF OInv
  <2>3. SlotFresh(r)'
    BY <1>3, <2>1, <2>2 DEF SlotFresh, ActiveRow
  <2> QED
    BY <1>1, <1>3, <2>1, <2>3, OneMoved
<1>4. ASSUME NEW r \in Reqs, LoginRight(r) PROVE OInv'
  <2>1. /\ req'[r].pc = "record" /\ req'[r].pw = password
        /\ \A q \in Reqs \ {r} : req'[q] = req[q]
    BY <1>4 DEF LoginRight, Idle, TInv, TypeOK
  <2>2. password' = password /\ password \in Nat
    BY <1>4 DEF LoginRight, account, TInv, TypeOK, Passwords
  <2>3. SlotFresh(r)'
    BY <2>1, <2>2 DEF SlotFresh
  <2> QED
    BY <1>1, <1>4, <2>1, <2>3, OneMoved DEF LoginRight, account, history
<1>5. ASSUME NEW r \in Reqs,
             \/ LoginWrong(r) \/ RequestReset(r) \/ ReadCounter(r) \/ CreateToken(r)
             \/ \E t \in TokenIds : FindToken(r, t)
             \/ \E s \in SessionIds : VerifyCurrent(r, s)
      PROVE  OInv'
  <2>1. /\ req'[r].pc \in {"read", "create", "count", "mail", "update"}
        /\ \A q \in Reqs \ {r} : req'[q] = req[q]
    <3>1. CASE LoginWrong(r)
      BY <3>1 DEF LoginWrong, Idle, TInv, TypeOK
    <3>2. CASE RequestReset(r)
      BY <3>2 DEF RequestReset, Idle, TInv, TypeOK
    <3>3. CASE ReadCounter(r)
      BY <3>3 DEF ReadCounter, TInv, TypeOK, Slot
    <3>4. CASE CreateToken(r)
      BY <3>4 DEF CreateToken, TInv, TypeOK, Slot
    <3>5. CASE \E t \in TokenIds : FindToken(r, t)
      BY <3>5 DEF FindToken, Idle, TInv, TypeOK
    <3>6. CASE \E s \in SessionIds : VerifyCurrent(r, s)
      BY <3>6 DEF VerifyCurrent, Idle, TInv, TypeOK
    <3> QED
      BY <1>5, <3>1, <3>2, <3>3, <3>4, <3>5, <3>6
  <2>2. sessions' = sessions /\ UNCHANGED <<password, cleared>>
    BY <1>5 DEF LoginWrong, RequestReset, ReadCounter, CreateToken, FindToken,
       VerifyCurrent, account, history
  <2> QED
    BY <1>1, <2>1, <2>2, Elsewhere, OneMoved
<1>6. ASSUME NEW r \in Reqs, CountFailure(r) \/ SendMail(r) \/ Abort(r) PROVE OInv'
  BY <1>2, <1>6 DEF CountFailure, SendMail, Abort, account, history
<1>7. ASSUME NEW r \in Reqs, RecordSuccess(r) PROVE OInv'
  BY <1>3, <1>7 DEF RecordSuccess, At, PCs
<1>8. ASSUME NEW r \in Reqs, Consume(r) PROVE OInv'
  BY <1>3, <1>8 DEF Consume, At, PCs, account, history
<1>9. CASE Tick \/ UNCHANGED vars
  BY <1>9 DEF Tick, vars, account, history, OInv, SlotFresh, ActiveRow
<1> QED
  BY <1>4, <1>5, <1>6, <1>7, <1>8, <1>9, OpenSessionOInv, UpdatePasswordOInv,
     ListSessionsOInv, RevokeSessionsOInv DEF Next, Step, Call, Quiet

\* However requests interleave and wherever they are cut short, a session that is
\* active with a password older than one whose reset or change was answered is that
\* of a login which had been accepted before a password was written.
THEOREM OldPasswordsOut == Spec => []OldPasswordOut
<1>1. OInv => OldPasswordOut
  <2> SUFFICES ASSUME OInv, NEW s \in SessionIds, Opened(s), ~sessions[s].revoked,
                      ~sessions[s].stray
               PROVE  sessions[s].pw >= cleared
    BY DEF OldPasswordOut
  <2>1. cleared <= sessions[s].pw
    BY DEF OInv, ActiveRow, Opened
  <2> QED
    BY <2>1
<1>2. Spec => []OInv
  BY InitOInv, TInvInvariant, OInvStep, PTL DEF Spec
<1> QED
  BY <1>1, <1>2, PTL

-----------------------------------------------------------------------------
(* How many requests are at one place, and how that number moves.           *)

\* The requests that hold token t at pc.
Using(t, pc) == {r \in Reqs : req[r].pc = pc /\ req[r].token = t}

\* Only slot r changes what it does and which token it holds.
OnlyMoves(r) == \A q \in Reqs \ {r} : req'[q].pc = req[q].pc /\ req'[q].token = req[q].token

LEMMA SlotSets ==
  /\ \A t, pc : IsFiniteSet(Using(t, pc)) /\ Cardinality(Using(t, pc)) \in Nat
  /\ \A pcs : IsFiniteSet(Busy(pcs)) /\ Cardinality(Busy(pcs)) \in Nat
  /\ Cardinality(Reqs) \in Nat
<1>1. \A S \in SUBSET Reqs : IsFiniteSet(S) /\ Cardinality(S) \in Nat
  BY ReqsAssumption, FS_Subset, FS_CardinalityType
<1> QED
  BY <1>1, ReqsAssumption, FS_CardinalityType DEF Using, Busy

\* The same of the next state, for the symbols that are primed there.
LEMMA SlotSetsNext ==
  /\ \A t, pc : IsFiniteSet(Using(t, pc)') /\ Cardinality(Using(t, pc)') \in Nat
  /\ \A pcs : IsFiniteSet(Busy(pcs)') /\ Cardinality(Busy(pcs)') \in Nat
<1>1. \A S \in SUBSET Reqs : IsFiniteSet(S) /\ Cardinality(S) \in Nat
  BY ReqsAssumption, FS_Subset, FS_CardinalityType
<1> QED
  BY <1>1 DEF Using, Busy

\* A slot that leaves one place is one fewer there.
LEMMA Leaves ==
  ASSUME NEW S, IsFiniteSet(S), NEW x \in S, NEW T, T \subseteq S \ {x}
  PROVE  Cardinality(T) + 1 <= Cardinality(S)
<1>1. IsFiniteSet(S \ {x}) /\ Cardinality(S \ {x}) = Cardinality(S) - 1
  BY FS_RemoveElement
<1>2. Cardinality(T) <= Cardinality(S \ {x}) /\ IsFiniteSet(T)
  BY <1>1, FS_Subset
<1> QED
  BY <1>1, <1>2, FS_CardinalityType

\* A slot that comes to one place is at most one more there.
LEMMA Joins ==
  ASSUME NEW S, IsFiniteSet(S), NEW x, NEW T, T \subseteq S \cup {x}
  PROVE  IsFiniteSet(T) /\ Cardinality(T) <= Cardinality(S) + 1
<1>0. Cardinality(S) \in Nat
  BY FS_CardinalityType
<1>1. IsFiniteSet(S \cup {x}) /\ Cardinality(S \cup {x}) <= Cardinality(S) + 1
  <2>1. /\ IsFiniteSet(S \cup {x})
        /\ \/ Cardinality(S \cup {x}) = Cardinality(S)
           \/ Cardinality(S \cup {x}) = Cardinality(S) + 1
    BY FS_AddElement
  <2> QED
    BY <1>0, <2>1
<1>2. IsFiniteSet(T) /\ Cardinality(T) <= Cardinality(S \cup {x})
  BY <1>1, FS_Subset
<1> QED
  BY <1>0, <1>1, <1>2, FS_CardinalityType

\* A larger set has no fewer members.
LEMMA NoFewer ==
  ASSUME NEW S, IsFiniteSet(S), NEW T \in SUBSET S
  PROVE  Cardinality(T) <= Cardinality(S)
  BY FS_Subset

\* Where the holders of a token are after a move of one slot.
LEMMA Shift ==
  ASSUME NEW r \in Reqs, OnlyMoves(r), NEW t, NEW pc
  PROVE  Using(t, pc)' = IF req'[r].pc = pc /\ req'[r].token = t THEN Using(t, pc) \cup {r}
                                                                 ELSE Using(t, pc) \ {r}
  BY DEF Using, OnlyMoves

LEMMA DoneMoves ==
  ASSUME TInv, NEW r \in Reqs, Done(r)
  PROVE  OnlyMoves(r) /\ req'[r].pc = "idle" /\ req'[r].token = 0
  BY DEF Done, Idle, OnlyMoves, TInv, TypeOK

LEMMA GotoMoves ==
  ASSUME TInv, NEW r \in Reqs, NEW pc, Goto(r, pc)
  PROVE  OnlyMoves(r) /\ req'[r].pc = pc /\ req'[r].token = req[r].token
  BY DEF Goto, OnlyMoves, TInv, TypeOK, Slot

\* Where each step and each call takes its slot.
LEMMA UpdateMoves ==
  ASSUME TInv, NEW r \in Reqs, UpdatePassword(r)
  PROVE  /\ OnlyMoves(r) /\ req'[r].token = req[r].token
         /\ req'[r].pc = IF req[r].token # 0 THEN "consume" ELSE "list"
<1>1. ASSUME NEW q \in Reqs \ {r}
      PROVE  req'[q].pc = req[q].pc /\ req'[q].token = req[q].token
  <2> DEFINE b == req[q].stray \/ req[q].pc \in {"record", "open"}
  <2>1. req'[q] = [req[q] EXCEPT !.stray = b] /\ req[q] \in Slot
    BY DEF UpdatePassword, TInv, TypeOK
  <2> HIDE DEF b
  <2> QED
    BY <2>1 DEF Slot
<1>2. /\ req'[r].token = req[r].token
      /\ req'[r].pc = IF req[r].token # 0 THEN "consume" ELSE "list"
  <2> DEFINE p == IF req[r].token # 0 THEN "consume" ELSE "list"
  <2>1. req'[r] = [req[r] EXCEPT !.pw = password', !.pc = p] /\ req[r] \in Slot
    BY DEF UpdatePassword, TInv, TypeOK
  <2>2. req'[r].token = req[r].token /\ req'[r].pc = p
    <3> HIDE DEF p
    <3> QED
      BY <2>1 DEF Slot
  <2> QED
    BY <2>2
<1> QED
  BY <1>1, <1>2 DEF OnlyMoves

LEMMA CallMoves ==
  ASSUME TInv, NEW r \in Reqs
  PROVE  /\ LoginRight(r) => OnlyMoves(r) /\ req'[r].pc = "record" /\ req'[r].token = 0
         /\ LoginWrong(r) => OnlyMoves(r) /\ req'[r].pc = "read" /\ req'[r].token = 0
         /\ RequestReset(r) => OnlyMoves(r) /\ req'[r].pc = "create" /\ req'[r].token = 0
         /\ \A t \in TokenIds : FindToken(r, t) =>
              OnlyMoves(r) /\ req'[r].pc = "update" /\ req'[r].token = t
         /\ \A s \in SessionIds : VerifyCurrent(r, s) =>
              OnlyMoves(r) /\ req'[r].pc = "update" /\ req'[r].token = 0
<1> USE DEF TInv, TypeOK, OnlyMoves, Idle
<1>1. LoginRight(r) => OnlyMoves(r) /\ req'[r].pc = "record" /\ req'[r].token = 0
  BY DEF LoginRight
<1>2. LoginWrong(r) => OnlyMoves(r) /\ req'[r].pc = "read" /\ req'[r].token = 0
  BY DEF LoginWrong
<1>3. RequestReset(r) => OnlyMoves(r) /\ req'[r].pc = "create" /\ req'[r].token = 0
  BY DEF RequestReset
<1>4. \A t \in TokenIds : FindToken(r, t) =>
        OnlyMoves(r) /\ req'[r].pc = "update" /\ req'[r].token = t
  BY DEF FindToken
<1>5. \A s \in SessionIds : VerifyCurrent(r, s) =>
        OnlyMoves(r) /\ req'[r].pc = "update" /\ req'[r].token = 0
  BY DEF VerifyCurrent
<1> QED
  BY <1>1, <1>2, <1>3, <1>4, <1>5

LEMMA StepMoves ==
  ASSUME TInv, NEW r \in Reqs
  PROVE  /\ ReadCounter(r) => OnlyMoves(r) /\ req'[r].pc = "count"
         /\ \A t \in TokenIds : req' = [req EXCEPT ![r].pc = "mail", ![r].token = t] =>
              OnlyMoves(r) /\ req'[r].pc = "mail" /\ req'[r].token = t
         /\ ListSessions(r) => OnlyMoves(r) /\ req'[r].pc \in {"idle", "revoke"}
<1>1. ReadCounter(r) => OnlyMoves(r) /\ req'[r].pc = "count"
  BY DEF ReadCounter, OnlyMoves, TInv, TypeOK, Slot
<1>2. \A t \in TokenIds : req' = [req EXCEPT ![r].pc = "mail", ![r].token = t] =>
        OnlyMoves(r) /\ req'[r].pc = "mail" /\ req'[r].token = t
  BY DEF OnlyMoves, TInv, TypeOK, Slot
<1>3. ASSUME ListSessions(r)
      PROVE  OnlyMoves(r) /\ req'[r].pc \in {"idle", "revoke"}
  <2>1. CASE Done(r)
    BY <2>1, DoneMoves
  <2>2. CASE ~Done(r)
    <3>1. req' = [req EXCEPT ![r].pc = "revoke", ![r].todo = ActiveExcept(req[r].session)]
      BY <1>3, <2>2 DEF ListSessions, Answer
    <3> QED
      BY <3>1 DEF OnlyMoves, TInv, TypeOK, Slot
  <2> QED
    BY <2>1, <2>2
<1> QED
  BY <1>1, <1>2, <1>3

\* The steps that neither use, consume nor create a token.
Plain(r) == \/ RecordSuccess(r) \/ OpenSession(r) \/ ReadCounter(r) \/ CountFailure(r)
            \/ SendMail(r) \/ ListSessions(r) \/ RevokeSessions(r)

LEMMA PlainMoves ==
  ASSUME TInv, NEW r \in Reqs, Plain(r)
  PROVE  /\ OnlyMoves(r) /\ req'[r].pc \in {"idle", "open", "count", "revoke"}
         /\ UNCHANGED <<now, tokens, uses, faults>>
<1>1. CASE RecordSuccess(r)
  BY <1>1, GotoMoves DEF RecordSuccess
<1>2. CASE OpenSession(r) \/ CountFailure(r) \/ SendMail(r)
  <2>1. Done(r) /\ UNCHANGED <<now, tokens, uses, faults>>
    BY <1>2 DEF OpenSession, CountFailure, SendMail, history
  <2> QED
    BY <2>1, DoneMoves
<1>3. CASE ReadCounter(r)
  BY <1>3, StepMoves DEF ReadCounter, history
<1>4. CASE ListSessions(r)
  BY <1>4, StepMoves DEF ListSessions
<1>5. CASE RevokeSessions(r)
  BY <1>5, DoneMoves DEF RevokeSessions, Answer
<1> QED
  BY <1>1, <1>2, <1>3, <1>4, <1>5 DEF Plain

-----------------------------------------------------------------------------
(* How many reset tokens work at once.                                      *)

\* The tokens that nothing has consumed, whether they have expired or not.
Unconsumed == {t \in TokenIds : ~tokens[t].consumed}

\* A request that will create a token makes up for one that is outstanding.
LInv == Cardinality(Unconsumed) + Cardinality(Busy({"create"})) <= Cardinality(Reqs)

LEMMA UnconsumedFinite ==
  /\ \A S \in SUBSET TokenIds : IsFiniteSet(S) /\ Cardinality(S) \in Nat
  /\ IsFiniteSet(Unconsumed) /\ Cardinality(Unconsumed) \in Nat
  /\ Cardinality(Unconsumed') \in Nat
<1>1. IsFiniteSet(TokenIds)
  BY FS_Interval, CredentialsBounds DEF TokenIds
<1>2. \A S \in SUBSET TokenIds : IsFiniteSet(S) /\ Cardinality(S) \in Nat
  BY <1>1, FS_Subset, FS_CardinalityType
<1> QED
  BY <1>2 DEF Unconsumed

LEMMA InitLInv == Init => LInv
<1> SUFFICES ASSUME Init PROVE LInv
  OBVIOUS
<1>1. Unconsumed = {} /\ Busy({"create"}) = {}
  BY DEF Init, Unconsumed, NoToken, Busy, Idle
<1> QED
  BY <1>1, FS_EmptySet, SlotSets DEF LInv

LEMMA LInvStep == TInv /\ LInv /\ [Next]_vars => LInv'
<1> SUFFICES ASSUME TInv, LInv, [Next]_vars PROVE LInv'
  OBVIOUS
\* Neither number grows.
<1>1. ASSUME Unconsumed' \subseteq Unconsumed, Busy({"create"})' \subseteq Busy({"create"})
      PROVE  LInv'
  <2>1. Cardinality(Unconsumed') <= Cardinality(Unconsumed)
    BY <1>1, NoFewer, UnconsumedFinite
  <2>2. Cardinality(Busy({"create"})') <= Cardinality(Busy({"create"}))
    BY <1>1, NoFewer, SlotSets
  <2> QED
    BY <2>1, <2>2, SlotSets, SlotSetsNext, UnconsumedFinite DEF LInv
<1>2. ASSUME NEW r \in Reqs, OnlyMoves(r), req'[r].pc # "create"
      PROVE  Busy({"create"})' \subseteq Busy({"create"}) \ {r}
  BY <1>2 DEF OnlyMoves, Busy
<1>3. ASSUME NEW r \in Reqs, OnlyMoves(r), req'[r].pc # "create", tokens' = tokens
      PROVE  LInv'
  BY <1>1, <1>2, <1>3 DEF Unconsumed
<1>4. ASSUME NEW r \in Reqs, RequestReset(r) PROVE LInv'
  <2>1. \A t \in TokenIds : tokens'[t].consumed
    BY <1>4 DEF RequestReset, Invalidated, TInv, TypeOK, Token
  <2>2. Unconsumed' = {}
    BY <2>1 DEF Unconsumed
  <2>3. Cardinality(Unconsumed') = 0
    BY <2>2, FS_EmptySet
  <2>4. Cardinality(Busy({"create"})') <= Cardinality(Reqs)
    BY ReqsAssumption, NoFewer DEF Busy
  <2> QED
    BY <2>3, <2>4, SlotSets, SlotSetsNext DEF LInv
<1>5. ASSUME NEW r \in Reqs, CreateToken(r) PROVE LInv'
  <2>1. PICK t \in TokenIds :
          /\ tokens' = [tokens EXCEPT ![t] = [consumed |-> FALSE,
                                              expiresAt |-> now + ResetTtl]]
          /\ req' = [req EXCEPT ![r].pc = "mail", ![r].token = t]
    BY <1>5 DEF CreateToken
  <2>2. Unconsumed' \subseteq Unconsumed \cup {t}
    BY <2>1 DEF Unconsumed, TInv, TypeOK
  <2>3. Cardinality(Unconsumed') <= Cardinality(Unconsumed) + 1
    BY <2>2, Joins, UnconsumedFinite
  <2>4. OnlyMoves(r) /\ req'[r].pc = "mail" /\ r \in Busy({"create"})
    BY <1>5, <2>1, StepMoves DEF CreateToken, At, Busy
  <2>5. Busy({"create"})' \subseteq Busy({"create"}) \ {r}
    BY <1>2, <2>4
  <2>6. Cardinality(Busy({"create"})') + 1 <= Cardinality(Busy({"create"}))
    BY <2>4, <2>5, Leaves, SlotSets
  <2> QED
    BY <2>3, <2>6, SlotSets, SlotSetsNext, UnconsumedFinite DEF LInv
<1>6. ASSUME NEW r \in Reqs, Consume(r) PROVE LInv'
  <2>1. Unconsumed' \subseteq Unconsumed
    BY <1>6 DEF Consume, Consumed, Unconsumed, TInv, TypeOK, Token
  <2>2. Busy({"create"})' \subseteq Busy({"create"})
    BY <1>2, <1>6, GotoMoves DEF Consume
  <2> QED
    BY <1>1, <2>1, <2>2
<1>7. ASSUME NEW r \in Reqs, Plain(r) \/ Abort(r) PROVE LInv'
  <2>1. CASE Plain(r)
    BY <1>3, <2>1, PlainMoves
  <2>2. CASE Abort(r)
    <3>1. Done(r) /\ tokens' = tokens
      BY <2>2 DEF Abort
    <3> QED
      BY <1>3, <3>1, DoneMoves
  <2> QED
    BY <1>7, <2>1, <2>2
<1>8. ASSUME NEW r \in Reqs, UpdatePassword(r) PROVE LInv'
  <2>1. tokens' = tokens
    BY <1>8 DEF UpdatePassword
  <2>2. OnlyMoves(r) /\ req'[r].pc # "create"
    BY <1>8, UpdateMoves
  <2> QED
    BY <1>3, <2>1, <2>2
<1>9. ASSUME NEW r \in Reqs,
             \/ LoginRight(r) \/ LoginWrong(r)
             \/ \E t \in TokenIds : FindToken(r, t)
             \/ \E s \in SessionIds : VerifyCurrent(r, s)
      PROVE  LInv'
  <2>1. tokens' = tokens
    BY <1>9 DEF LoginRight, LoginWrong, FindToken, VerifyCurrent
  <2>2. OnlyMoves(r) /\ req'[r].pc # "create"
    BY <1>9, CallMoves
  <2> QED
    BY <1>3, <2>1, <2>2
<1>10. CASE Tick \/ UNCHANGED vars
  BY <1>1, <1>10 DEF Tick, vars, Unconsumed, Busy
<1> QED
  BY <1>4, <1>5, <1>6, <1>7, <1>8, <1>9, <1>10 DEF Next, Step, Call, Quiet, Plain

\* However many mails were asked for, and however the requests for them interleave
\* or are cut short, no more reset tokens work than requests can be under way.
THEOREM FewTokensWork == Spec => []OutstandingBounded
<1>1. TInv /\ LInv => OutstandingBounded
  <2> SUFFICES ASSUME TInv, LInv
               PROVE  Cardinality({t \in TokenIds : Usable(t)}) <= Cardinality(Reqs)
    BY DEF OutstandingBounded
  <2>1. {t \in TokenIds : Usable(t)} \subseteq Unconsumed
    BY DEF Usable, Unconsumed
  <2>2. Cardinality({t \in TokenIds : Usable(t)}) <= Cardinality(Unconsumed)
    BY <2>1, NoFewer, UnconsumedFinite
  <2>3. {t \in TokenIds : Usable(t)} \in SUBSET TokenIds
    OBVIOUS
  <2> QED
    BY <2>2, <2>3, SlotSets, UnconsumedFinite DEF LInv
<1>2. Spec => []LInv
  BY InitLInv, TInvInvariant, LInvStep, PTL DEF Spec
<1> QED
  BY <1>1, <1>2, TInvInvariant, PTL

-----------------------------------------------------------------------------
(* How often a reset token is used.                                         *)

\* A row of the table: a token that was created expires at some time.
Real(t) == tokens[t].expiresAt # 0

\* Only tokens of the table are mailed, held or used.
RealInv ==
    /\ \A t \in TokenIds : ~Real(t) => tokens[t].consumed /\ uses[t] = 0
    /\ \A t \in mailed : Real(t)
    /\ \A r \in Reqs : req[r].pc \in {"mail", "update", "consume"} /\ req[r].token # 0
                         => Real(req[r].token)

\* A token that is not consumed was used by requests about to consume it and by
\* requests that died; and each request that holds it, checked, may still use it.
UInv ==
    \A t \in TokenIds :
      /\ ~tokens[t].consumed => uses[t] <= Cardinality(Using(t, "consume")) + faults
      /\ uses[t] + Cardinality(Using(t, "update")) <= Cardinality(Reqs) + faults

LEMMA InitUInv == Init => RealInv /\ UInv
<1> SUFFICES ASSUME Init PROVE RealInv /\ UInv
  OBVIOUS
<1>1. RealInv
  BY DEF Init, RealInv, NoToken, Idle
<1>2. \A t \in TokenIds : tokens[t].consumed /\ uses[t] = 0 /\ Using(t, "update") = {}
  BY DEF Init, NoToken, Using, Idle
<1> QED
  BY <1>1, <1>2, FS_EmptySet, SlotSets DEF UInv, Init

\* A step that uses no token and creates none.
LEMMA RealKept ==
  ASSUME TInv, RealInv, NEW r \in Reqs, OnlyMoves(r),
         \A t \in TokenIds : /\ tokens'[t].expiresAt = tokens[t].expiresAt
                             /\ tokens[t].consumed => tokens'[t].consumed
                             /\ ~Real(t) => uses'[t] = uses[t],
         \A t \in mailed' : t \in TokenIds /\ Real(t),
         req'[r].pc \in {"mail", "update", "consume"} /\ req'[r].token # 0
           => req'[r].token \in TokenIds /\ Real(req'[r].token)
  PROVE  RealInv'
<1>1. \A q \in Reqs : req[q].token # 0 => req[q].token \in TokenIds
  BY DEF TInv, TypeOK, Slot
<1> QED
  BY <1>1 DEF RealInv, OnlyMoves, Real

LEMMA RealInvStep == TInv /\ RealInv /\ [Next]_vars => RealInv'
<1> SUFFICES ASSUME TInv, RealInv, [Next]_vars PROVE RealInv'
  OBVIOUS
<1>0. /\ \A t \in mailed : t \in TokenIds /\ Real(t)
      /\ \A q \in Reqs : req[q].token # 0 => req[q].token \in TokenIds
  BY DEF TInv, TypeOK, Slot, RealInv
\* A slot that comes to hold no token.
<1>1. ASSUME NEW r \in Reqs, OnlyMoves(r),
             req'[r].pc \notin {"mail", "update", "consume"} \/ req'[r].token = 0,
             UNCHANGED <<tokens, uses, mailed>>
      PROVE  RealInv'
  BY <1>0, <1>1, RealKept
<1>2. ASSUME NEW r \in Reqs, Plain(r) PROVE RealInv'
  <2>1. CASE SendMail(r)
    <3>1. Done(r) /\ mailed' = mailed \cup {req[r].token} /\ UNCHANGED <<tokens, uses>>
      BY <2>1 DEF SendMail, history
    <3>2. req[r].token \in TokenIds /\ Real(req[r].token)
      BY <2>1 DEF SendMail, At, TInv, HasToken, RealInv, TokenIds
    <3>3. OnlyMoves(r) /\ req'[r].pc = "idle"
      BY <3>1, DoneMoves
    <3> QED
      BY <1>0, <3>1, <3>2, <3>3, RealKept
  <2>2. CASE ~SendMail(r)
    <3>1. mailed' = mailed
      BY <1>2, <2>2 DEF Plain, RecordSuccess, OpenSession, ReadCounter, CountFailure,
         ListSessions, RevokeSessions
    <3> QED
      BY <1>1, <1>2, <3>1, PlainMoves
  <2> QED
    BY <2>1, <2>2
<1>3. ASSUME NEW r \in Reqs, Abort(r) PROVE RealInv'
  <2>1. Done(r) /\ UNCHANGED <<tokens, uses, mailed>>
    BY <1>3 DEF Abort, history
  <2> QED
    BY <1>1, <2>1, DoneMoves
<1>4. ASSUME NEW r \in Reqs, LoginRight(r) \/ LoginWrong(r) PROVE RealInv'
  <2>1. UNCHANGED <<tokens, uses, mailed>>
    BY <1>4 DEF LoginRight, LoginWrong, history
  <2> QED
    BY <1>1, <1>4, <2>1, CallMoves
<1>5. ASSUME NEW r \in Reqs, RequestReset(r) PROVE RealInv'
  <2>1. UNCHANGED <<uses, mailed>>
    BY <1>5 DEF RequestReset, history
  <2>2. \A t \in TokenIds : /\ tokens'[t].expiresAt = tokens[t].expiresAt
                            /\ tokens[t].consumed => tokens'[t].consumed
    BY <1>5 DEF RequestReset, Invalidated, TInv, TypeOK, Token
  <2>3. OnlyMoves(r) /\ req'[r].pc = "create"
    BY <1>5, CallMoves
  <2> QED
    BY <1>0, <2>1, <2>2, <2>3, RealKept
<1>6. ASSUME NEW r \in Reqs, NEW t \in TokenIds, FindToken(r, t) PROVE RealInv'
  <2>1. UNCHANGED <<tokens, uses, mailed>> /\ t \in mailed
    BY <1>6 DEF FindToken, history
  <2>2. OnlyMoves(r) /\ req'[r].token = t
    BY <1>6, CallMoves
  <2> QED
    BY <1>0, <2>1, <2>2, RealKept
<1>7. ASSUME NEW r \in Reqs, NEW s \in SessionIds, VerifyCurrent(r, s) PROVE RealInv'
  <2>1. UNCHANGED <<tokens, uses, mailed>>
    BY <1>7 DEF VerifyCurrent, history
  <2>2. OnlyMoves(r) /\ req'[r].token = 0
    BY <1>7, CallMoves
  <2> QED
    BY <1>1, <2>1, <2>2
<1>8. ASSUME NEW r \in Reqs, CreateToken(r) PROVE RealInv'
  <2>1. PICK t \in TokenIds :
          /\ tokens' = [tokens EXCEPT ![t] = [consumed |-> FALSE,
                                              expiresAt |-> now + ResetTtl]]
          /\ req' = [req EXCEPT ![r].pc = "mail", ![r].token = t]
    BY <1>8 DEF CreateToken
  <2>2. UNCHANGED <<uses, mailed>>
    BY <1>8 DEF CreateToken, history
  <2>3. OnlyMoves(r) /\ req'[r].pc = "mail" /\ req'[r].token = t
    BY <2>1, StepMoves
  <2>4. Real(t)'
    BY <2>1, ResetAssumption DEF Real, TInv, TypeOK, Times
  <2>5. \A u \in TokenIds \ {t} : tokens'[u] = tokens[u]
    BY <2>1 DEF TInv, TypeOK
  <2>6. \A u \in TokenIds : ~Real(u)' => tokens'[u].consumed /\ uses'[u] = 0
    BY <2>2, <2>4, <2>5 DEF RealInv, Real
  <2>7. \A u \in mailed' : Real(u)'
    BY <1>0, <2>2, <2>4, <2>5 DEF Real
  <2>8. \A q \in Reqs \ {r} : req'[q].pc \in {"mail", "update", "consume"} /\ req'[q].token # 0
                                => tokens'[req'[q].token].expiresAt # 0
    BY <1>0, <2>3, <2>4, <2>5 DEF RealInv, Real, OnlyMoves
  <2> QED
    BY <2>3, <2>4, <2>6, <2>7, <2>8 DEF RealInv, Real
<1>9. ASSUME NEW r \in Reqs, UpdatePassword(r) PROVE RealInv'
  <2>1. UNCHANGED <<tokens, mailed>> /\ req[r].pc = "update"
    BY <1>9 DEF UpdatePassword, At
  <2>2. OnlyMoves(r) /\ req'[r].token = req[r].token
    BY <1>9, UpdateMoves
  <2>3. req[r].token # 0 => Real(req[r].token)
    BY <2>1 DEF RealInv
  <2>4. \A t \in TokenIds : ~Real(t) => uses'[t] = uses[t]
    BY <1>9, <2>3 DEF UpdatePassword, TokenIds
  <2> QED
    BY <1>0, <2>1, <2>2, <2>3, <2>4, RealKept
<1>10. ASSUME NEW r \in Reqs, Consume(r) PROVE RealInv'
  <2>1. UNCHANGED <<uses, mailed>>
    BY <1>10 DEF Consume, history
  <2>2. \A t \in TokenIds : /\ tokens'[t].expiresAt = tokens[t].expiresAt
                            /\ tokens[t].consumed => tokens'[t].consumed
    BY <1>10 DEF Consume, Consumed, TInv, TypeOK, Token
  <2>3. OnlyMoves(r) /\ req'[r].pc = "list"
    BY <1>10, GotoMoves DEF Consume
  <2> QED
    BY <1>0, <2>1, <2>2, <2>3, RealKept
<1>11. CASE Tick \/ UNCHANGED vars
  BY <1>11 DEF Tick, vars, history, RealInv, Real
<1> QED
  BY <1>2, <1>3, <1>4, <1>5, <1>6, <1>7, <1>8, <1>9, <1>10, <1>11
     DEF Next, Step, Call, Quiet, Plain

\* What UInv counts, as numbers.
LEMMA UsesNumbers ==
  ASSUME TInv, NEW t \in TokenIds
  PROVE  /\ uses[t] \in Nat /\ faults \in Nat /\ Cardinality(Reqs) \in Nat
         /\ Cardinality(Using(t, "consume")) \in Nat
         /\ Cardinality(Using(t, "update")) \in Nat
         /\ Cardinality(Using(t, "consume")') \in Nat
         /\ Cardinality(Using(t, "update")') \in Nat
  BY SlotSets, SlotSetsNext DEF TInv, TypeOK

\* A step that uses no token.
LEMMA UsesKept ==
  ASSUME TInv, UInv, uses' = uses, faults' = faults,
         \A t \in TokenIds :
           /\ Using(t, "update")' \subseteq Using(t, "update")
           /\ ~tokens'[t].consumed => /\ ~tokens[t].consumed
                                      /\ Using(t, "consume") \subseteq Using(t, "consume")'
  PROVE  UInv'
<1> SUFFICES ASSUME NEW t \in TokenIds
             PROVE  /\ ~tokens'[t].consumed =>
                         uses[t] <= Cardinality(Using(t, "consume")') + faults
                    /\ uses[t] + Cardinality(Using(t, "update")') <= Cardinality(Reqs) + faults
  BY DEF UInv
<1>1. Cardinality(Using(t, "update")') <= Cardinality(Using(t, "update"))
  BY NoFewer, SlotSets
<1>2. ~tokens'[t].consumed =>
        Cardinality(Using(t, "consume")) <= Cardinality(Using(t, "consume")')
  BY NoFewer, SlotSetsNext
<1> QED
  BY <1>1, <1>2, UsesNumbers DEF UInv

\* The holders of a token do not change when a slot passes that holds none.
LEMMA HoldersKept ==
  ASSUME NEW r \in Reqs, OnlyMoves(r), NEW t \in TokenIds,
         req[r].pc \notin {"update", "consume"} \/ req[r].token # t,
         req'[r].pc \notin {"update", "consume"} \/ req'[r].token # t
  PROVE  /\ Using(t, "update")' = Using(t, "update")
         /\ Using(t, "consume")' = Using(t, "consume")
  BY DEF Using, OnlyMoves

LEMMA UpdateUInv ==
  ASSUME TInv, UInv, NEW r \in Reqs, UpdatePassword(r)
  PROVE  UInv'
<1>1. OnlyMoves(r) /\ req'[r].token = req[r].token
  BY UpdateMoves
<1>2. req[r].pc = "update" /\ UNCHANGED <<tokens, faults>>
  BY DEF UpdatePassword, At
<1> SUFFICES ASSUME NEW t \in TokenIds
             PROVE  /\ ~tokens[t].consumed =>
                         uses'[t] <= Cardinality(Using(t, "consume")') + faults
                    /\ uses'[t] + Cardinality(Using(t, "update")') <= Cardinality(Reqs) + faults
  BY <1>2 DEF UInv
<1>3. CASE t = req[r].token
  <2>1. uses'[t] = uses[t] + 1 /\ t # 0
    BY <1>3 DEF UpdatePassword, TokenIds
  <2>2. req'[r].pc = "consume"
    BY <1>3, <2>1, UpdateMoves
  <2>3. Using(t, "update")' = Using(t, "update") \ {r} /\ r \in Using(t, "update")
    BY <1>1, <1>2, <1>3, <2>2 DEF Using, OnlyMoves
  <2>4. Using(t, "consume") = Using(t, "consume")' \ {r} /\ r \in Using(t, "consume")'
    BY <1>1, <1>2, <1>3, <2>2 DEF Using, OnlyMoves
  <2>5. Cardinality(Using(t, "update")') + 1 <= Cardinality(Using(t, "update"))
    BY <2>3, Leaves, SlotSets
  <2>6. Cardinality(Using(t, "consume")) + 1 <= Cardinality(Using(t, "consume")')
    BY <2>4, Leaves, SlotSetsNext
  <2> QED
    BY <2>1, <2>5, <2>6, UsesNumbers DEF UInv
<1>4. CASE t # req[r].token
  <2>1. uses'[t] = uses[t]
    BY <1>4 DEF UpdatePassword
  <2>2. /\ Using(t, "update")' = Using(t, "update")
        /\ Using(t, "consume")' = Using(t, "consume")
    BY <1>1, <1>4, HoldersKept
  <2> QED
    BY <2>1, <2>2 DEF UInv
<1> QED
  BY <1>3, <1>4

LEMMA FindTokenUInv ==
  ASSUME TInv, UInv, NEW r \in Reqs, NEW u \in TokenIds, FindToken(r, u)
  PROVE  UInv'
<1>1. OnlyMoves(r) /\ req'[r].pc = "update" /\ req'[r].token = u
  BY CallMoves
<1>2. ~tokens[u].consumed /\ UNCHANGED <<tokens, uses, faults>> /\ req[r].pc = "idle"
  BY DEF FindToken, Usable, At, history
<1> SUFFICES ASSUME NEW t \in TokenIds
             PROVE  /\ ~tokens[t].consumed =>
                         uses[t] <= Cardinality(Using(t, "consume")') + faults
                    /\ uses[t] + Cardinality(Using(t, "update")') <= Cardinality(Reqs) + faults
  BY <1>2 DEF UInv
<1>3. CASE t = u
  <2>1. Using(t, "consume")' = Using(t, "consume")
    BY <1>1, <1>2 DEF Using, OnlyMoves
  <2>2. Cardinality(Using(t, "consume")') + Cardinality(Using(t, "update")')
          <= Cardinality(Reqs)
    <3>1. Using(t, "consume")' \cap Using(t, "update")' = {}
      BY DEF Using
    <3>2. Cardinality(Using(t, "consume")' \cup Using(t, "update")')
            = Cardinality(Using(t, "consume")') + Cardinality(Using(t, "update")')
      BY <3>1, FS_Union, FS_EmptySet, SlotSetsNext
    <3>3. Using(t, "consume")' \cup Using(t, "update")' \in SUBSET Reqs
      BY DEF Using
    <3> QED
      BY <3>2, <3>3, ReqsAssumption, NoFewer
  <2>3. uses[t] <= Cardinality(Using(t, "consume")) + faults
    BY <1>2, <1>3 DEF UInv
  <2> QED
    BY <2>1, <2>2, <2>3, UsesNumbers
<1>4. CASE t # u
  BY <1>1, <1>2, <1>4, HoldersKept DEF UInv
<1> QED
  BY <1>3, <1>4

LEMMA AbortUInv ==
  ASSUME TInv, UInv, NEW r \in Reqs, Abort(r)
  PROVE  UInv'
<1>1. OnlyMoves(r) /\ req'[r].pc = "idle"
  BY DoneMoves DEF Abort
<1>2. UNCHANGED <<tokens, uses>> /\ faults' = faults + 1
  BY DEF Abort, history
<1> SUFFICES ASSUME NEW t \in TokenIds
             PROVE  /\ ~tokens[t].consumed =>
                         uses[t] <= Cardinality(Using(t, "consume")') + faults + 1
                    /\ uses[t] + Cardinality(Using(t, "update")')
                         <= Cardinality(Reqs) + faults + 1
  BY <1>2, UsesNumbers DEF UInv
<1>3. Using(t, "update")' \subseteq Using(t, "update")
  BY <1>1, Shift
<1>4. Using(t, "consume") \subseteq Using(t, "consume")' \cup {r}
  BY <1>1, Shift
<1>5. Cardinality(Using(t, "update")') <= Cardinality(Using(t, "update"))
  BY <1>3, NoFewer, SlotSets
<1>6. Cardinality(Using(t, "consume")) <= Cardinality(Using(t, "consume")') + 1
  BY <1>4, Joins, SlotSetsNext
<1> QED
  BY <1>5, <1>6, UsesNumbers DEF UInv

LEMMA UInvStep == TInv /\ RealInv /\ UInv /\ [Next]_vars => UInv'
<1> SUFFICES ASSUME TInv, RealInv, UInv, [Next]_vars PROVE UInv'
  OBVIOUS
<1>0. \A t \in TokenIds : t # 0
  BY DEF TokenIds
<1>1. ASSUME NEW r \in Reqs, Plain(r) PROVE UInv'
  <2>1. req[r].pc \notin {"update", "consume"}
    BY <1>1 DEF Plain, RecordSuccess, OpenSession, ReadCounter, CountFailure, SendMail,
       ListSessions, RevokeSessions, At
  <2> QED
    BY <1>1, <2>1, PlainMoves, HoldersKept, UsesKept
<1>2. ASSUME NEW r \in Reqs,
             LoginRight(r) \/ LoginWrong(r) \/ \E s \in SessionIds : VerifyCurrent(r, s)
      PROVE  UInv'
  <2>1. UNCHANGED <<tokens, uses, faults>> /\ req[r].pc = "idle"
    BY <1>2 DEF LoginRight, LoginWrong, VerifyCurrent, history, At
  <2>2. OnlyMoves(r) /\ req'[r].token = 0
    BY <1>2, CallMoves
  <2> QED
    BY <1>0, <2>1, <2>2, HoldersKept, UsesKept
<1>3. ASSUME NEW r \in Reqs, RequestReset(r) PROVE UInv'
  <2>1. UNCHANGED <<uses, faults>> /\ req[r].pc = "idle"
    BY <1>3 DEF RequestReset, history, At
  <2>2. \A t \in TokenIds : tokens'[t].consumed
    BY <1>3 DEF RequestReset, Invalidated, TInv, TypeOK, Token
  <2>3. OnlyMoves(r) /\ req'[r].pc = "create"
    BY <1>3, CallMoves
  <2> QED
    BY <2>1, <2>2, <2>3, HoldersKept, UsesKept
<1>4. ASSUME NEW r \in Reqs, CreateToken(r) PROVE UInv'
  <2>1. PICK t \in TokenIds :
          /\ Lowest(t, Unissued)
          /\ tokens' = [tokens EXCEPT ![t] = [consumed |-> FALSE,
                                              expiresAt |-> now + ResetTtl]]
          /\ req' = [req EXCEPT ![r].pc = "mail", ![r].token = t]
    BY <1>4 DEF CreateToken
  <2>2. UNCHANGED <<uses, faults>> /\ req[r].pc = "create"
    BY <1>4 DEF CreateToken, history, At
  <2>3. uses[t] = 0
    BY <2>1 DEF Lowest, Unissued, Issued, NoToken, RealInv, Real
  <2>4. OnlyMoves(r) /\ req'[r].pc = "mail"
    BY <2>1, StepMoves
  <2>5. \A u \in TokenIds : /\ Using(u, "update")' = Using(u, "update")
                            /\ Using(u, "consume")' = Using(u, "consume")
    BY <2>2, <2>4, HoldersKept
  <2>6. \A u \in TokenIds \ {t} : tokens'[u] = tokens[u]
    BY <2>1 DEF TInv, TypeOK
  <2>7. 0 <= Cardinality(Using(t, "consume")) + faults
    BY UsesNumbers
  <2> QED
    BY <2>2, <2>3, <2>5, <2>6, <2>7 DEF UInv
<1>5. ASSUME NEW r \in Reqs, Consume(r) PROVE UInv'
  <2>1. UNCHANGED <<uses, faults>> /\ req[r].pc = "consume"
    BY <1>5 DEF Consume, history, At
  <2>2. OnlyMoves(r) /\ req'[r].pc = "list"
    BY <1>5, GotoMoves DEF Consume
  <2>3. \A t \in TokenIds : /\ tokens[t].consumed => tokens'[t].consumed
                            /\ t = req[r].token => tokens'[t].consumed
    BY <1>5 DEF Consume, Consumed, TInv, TypeOK, Token
  <2>4. \A t \in TokenIds : Using(t, "update")' = Using(t, "update")
    BY <2>1, <2>2 DEF Using, OnlyMoves
  <2>5. \A t \in TokenIds : t # req[r].token => Using(t, "consume")' = Using(t, "consume")
    BY <2>2, HoldersKept
  <2> QED
    BY <2>1, <2>3, <2>4, <2>5, UsesKept
<1>6. CASE Tick \/ UNCHANGED vars
  <2>1. UNCHANGED <<tokens, uses, faults, req>>
    BY <1>6 DEF Tick, vars, history
  <2> QED
    BY <2>1 DEF UInv, Using
<1> QED
  BY <1>1, <1>2, <1>3, <1>4, <1>5, <1>6, UpdateUInv, FindTokenUInv, AbortUInv
     DEF Next, Step, Call, Quiet, Plain

\* However requests interleave, a reset token changes the password at most once for
\* each request that can be under way at a time and once for each that died half way.
THEOREM UsesOfATokenBounded == Spec => []UsesBounded
<1>1. TInv /\ UInv => UsesBounded
  <2> SUFFICES ASSUME TInv, UInv, NEW t \in TokenIds
               PROVE  uses[t] <= Cardinality(Reqs) + faults
    BY DEF UsesBounded
  <2> QED
    BY UsesNumbers DEF UInv
<1>2. Spec => [](TInv /\ RealInv /\ UInv)
  BY InitTInv, InitUInv, TInvStep, RealInvStep, UInvStep, PTL DEF Spec
<1> QED
  BY <1>1, <1>2, PTL

-----------------------------------------------------------------------------
(* One request at a time.                                                   *)

\* What the next three theorems assume: no two requests are ever under way at once.
OneAtATime == \A q, r \in Reqs : q = r

\* No password changes between the acceptance of a login and its session.
StrayFree ==
    /\ \A s \in SessionIds : ~sessions[s].stray
    /\ \A r \in Reqs : ~req[r].stray

LEMMA StrayFreeStep ==
  ASSUME OneAtATime
  PROVE  TInv /\ StrayFree /\ [Next]_vars => StrayFree'
<1> SUFFICES ASSUME TInv, StrayFree, [Next]_vars PROVE StrayFree'
  OBVIOUS
\* A slot that changes alone, to a record that is not stray.
<1>1. ASSUME NEW r \in Reqs, ~req'[r].stray, sessions' = sessions PROVE StrayFree'
  BY <1>1 DEF StrayFree, OneAtATime
<1>2. ASSUME NEW r \in Reqs, Done(r) PROVE ~req'[r].stray
  BY <1>2 DEF Done, Idle, TInv, TypeOK
<1>3. ASSUME NEW r \in Reqs, NEW pc, Goto(r, pc) PROVE ~req'[r].stray
  BY <1>3 DEF Goto, StrayFree, TInv, TypeOK, Slot
<1>4. ASSUME NEW r \in Reqs, Call(r) PROVE StrayFree'
  <2>1. sessions' = sessions
    BY <1>4 DEF Call, LoginRight, LoginWrong, RequestReset, FindToken, VerifyCurrent
  <2>2. ~req'[r].stray
    <3>1. CASE LoginRight(r)
      BY <3>1 DEF LoginRight, Idle, TInv, TypeOK
    <3>2. CASE LoginWrong(r)
      BY <3>2 DEF LoginWrong, Idle, TInv, TypeOK
    <3>3. CASE RequestReset(r)
      BY <3>3 DEF RequestReset, Idle, TInv, TypeOK
    <3>4. CASE \E t \in TokenIds : FindToken(r, t)
      BY <3>4 DEF FindToken, Idle, TInv, TypeOK
    <3>5. CASE \E s \in SessionIds : VerifyCurrent(r, s)
      BY <3>5 DEF VerifyCurrent, Idle, TInv, TypeOK
    <3> QED
      BY <1>4, <3>1, <3>2, <3>3, <3>4, <3>5 DEF Call
  <2> QED
    BY <1>1, <2>1, <2>2
<1>5. ASSUME NEW r \in Reqs, RecordSuccess(r) \/ Consume(r) PROVE StrayFree'
  BY <1>1, <1>3, <1>5 DEF RecordSuccess, Consume
<1>6. ASSUME NEW r \in Reqs, CountFailure(r) \/ SendMail(r) \/ Abort(r) PROVE StrayFree'
  BY <1>1, <1>2, <1>6 DEF CountFailure, SendMail, Abort
<1>7. ASSUME NEW r \in Reqs, ReadCounter(r) \/ CreateToken(r) PROVE StrayFree'
  <2>1. sessions' = sessions
    BY <1>7 DEF ReadCounter, CreateToken
  <2>2. ~req'[r].stray
    BY <1>7 DEF ReadCounter, CreateToken, StrayFree, TInv, TypeOK, Slot
  <2> QED
    BY <1>1, <2>1, <2>2
<1>8. ASSUME NEW r \in Reqs, OpenSession(r) PROVE StrayFree'
  <2>1. \A s \in SessionIds : ~sessions'[s].stray
    BY <1>8 DEF OpenSession, StrayFree, TInv, TypeOK
  <2>2. ~req'[r].stray
    BY <1>2, <1>8 DEF OpenSession
  <2> QED
    BY <2>1, <2>2 DEF StrayFree, OneAtATime
<1>9. ASSUME NEW r \in Reqs, UpdatePassword(r) PROVE StrayFree'
  <2>1. ASSUME NEW s \in SessionIds PROVE ~sessions'[s].stray
    <3>1. sessions[s] \in Session /\ ~sessions[s].stray
      BY DEF TInv, TypeOK, StrayFree
    <3>2. sessions'[s] = IF s = req[r].session THEN [sessions[s] EXCEPT !.pw = password']
                                               ELSE sessions[s]
      BY <1>9 DEF UpdatePassword
    <3> QED
      BY <3>1, <3>2 DEF Session
  <2>2. ~req'[r].stray
    <3> DEFINE p == IF req[r].token # 0 THEN "consume" ELSE "list"
    <3>1. req'[r] = [req[r] EXCEPT !.pw = password', !.pc = p] /\ req[r] \in Slot
      BY <1>9 DEF UpdatePassword, TInv, TypeOK
    <3> HIDE DEF p
    <3> QED
      BY <3>1 DEF Slot, StrayFree
  <2> QED
    BY <2>1, <2>2 DEF StrayFree, OneAtATime
<1>10. ASSUME NEW r \in Reqs, ListSessions(r) PROVE StrayFree'
  <2>1. CASE Done(r)
    BY <1>1, <1>2, <1>10, <2>1 DEF ListSessions
  <2>2. CASE ~Done(r)
    <3>1. req' = [req EXCEPT ![r].pc = "revoke", ![r].todo = ActiveExcept(req[r].session)]
      BY <1>10, <2>2 DEF ListSessions, Answer
    <3>2. ~req'[r].stray
      BY <3>1 DEF StrayFree, TInv, TypeOK, Slot
    <3> QED
      BY <1>1, <1>10, <3>2 DEF ListSessions
  <2> QED
    BY <2>1, <2>2
<1>11. ASSUME NEW r \in Reqs, RevokeSessions(r) PROVE StrayFree'
  <2>1. ASSUME NEW s \in SessionIds PROVE ~sessions'[s].stray
    BY <1>11 DEF RevokeSessions, StrayFree, TInv, TypeOK, Session
  <2>2. ~req'[r].stray
    BY <1>2, <1>11 DEF RevokeSessions, Answer
  <2> QED
    BY <2>1, <2>2 DEF StrayFree, OneAtATime
<1>12. CASE Tick \/ UNCHANGED vars
  BY <1>12 DEF Tick, vars, StrayFree
<1> QED
  BY <1>4, <1>5, <1>6, <1>7, <1>8, <1>9, <1>10, <1>11, <1>12 DEF Next, Step, Quiet

\* When requests come one at a time, and wherever they are cut short, a reset or a
\* change that was answered has left no session active from an older password.
THEOREM NoOldSession ==
  ASSUME OneAtATime
  PROVE  Spec => []OldSessionsEnd
<1>1. Init => StrayFree
  BY DEF Init, StrayFree, NoSession, Idle
<1>2. TInv /\ OInv /\ StrayFree => OldSessionsEnd
  <2> SUFFICES ASSUME TInv, OInv, StrayFree, NEW s \in SessionIds, Opened(s),
                      ~sessions[s].revoked
               PROVE  sessions[s].pw >= cleared
    BY DEF OldSessionsEnd
  <2>1. cleared <= sessions[s].pw
    BY DEF OInv, ActiveRow, Opened, StrayFree
  <2>2. cleared \in Nat /\ sessions[s].pw \in Nat
    BY DEF TInv, TypeOK, Passwords, Session
  <2> QED
    BY <2>1, <2>2
<1>3. Spec => [](TInv /\ OInv /\ StrayFree)
  BY <1>1, InitTInv, InitOInv, TInvStep, OInvStep, StrayFreeStep, PTL DEF Spec
<1> QED
  BY <1>2, <1>3, PTL

-----------------------------------------------------------------------------
(* A reset token is used once, when no request is cut short either.         *)

\* Tokens are created in order and only the last one may be unconsumed; none is
\* once a reset was asked for, the one a request holds is until the password is
\* written, and one already used is about to be consumed.
SInv ==
    /\ \A t, u \in TokenIds : Real(t) /\ u < t => Real(u)
    /\ \A t, u \in TokenIds : ~tokens[t].consumed /\ Real(u) => u <= t
    /\ \A r \in Reqs : At(r, "create") => \A t \in TokenIds : tokens[t].consumed
    /\ \A r \in Reqs : At(r, "update") =>
         \A t \in TokenIds : t = req[r].token => ~tokens[t].consumed
    /\ \A t \in TokenIds : ~tokens[t].consumed /\ uses[t] # 0 =>
         \E r \in Reqs : At(r, "consume") /\ req[r].token = t

LEMMA IssuedIsReal ==
  ASSUME TInv, RealInv, NEW t \in TokenIds
  PROVE  Issued(t) <=> Real(t)
<1>1. tokens[t] \in Token
  BY DEF TInv, TypeOK
<1>2. CASE Real(t)
  BY <1>2 DEF Real, Issued, NoToken
<1>3. CASE ~Real(t)
  <2>1. tokens[t].consumed = TRUE /\ tokens[t].expiresAt = 0
    BY <1>1, <1>3 DEF RealInv, Real, Token
  <2>2. tokens[t] = NoToken
    BY <1>1, <2>1 DEF Token, NoToken
  <2> QED
    BY <1>3, <2>2 DEF Issued
<1> QED
  BY <1>2, <1>3

\* A step that creates no token and uses none: what is unconsumed stays so while
\* a request holds it.
LEMMA SingleKept ==
  ASSUME OneAtATime, TInv, SInv, NEW r \in Reqs, uses' = uses,
         \A t \in TokenIds : /\ tokens'[t].expiresAt = tokens[t].expiresAt
                             /\ tokens[t].consumed => tokens'[t].consumed,
         req[r].pc = "consume" =>
           \A t \in TokenIds : t = req[r].token => tokens'[t].consumed,
         req'[r].pc = "create" => \A t \in TokenIds : tokens'[t].consumed,
         req'[r].pc = "update" =>
           \A t \in TokenIds : t = req'[r].token => ~tokens'[t].consumed
  PROVE  SInv'
<1>1. \A q \in Reqs : q = r
  BY DEF OneAtATime
<1>2. /\ \A t, u \in TokenIds : Real(t)' /\ u < t => Real(u)'
      /\ \A t, u \in TokenIds : ~tokens'[t].consumed /\ Real(u)' => u <= t
  BY DEF SInv, Real
<1>3. \A t \in TokenIds : ~tokens'[t].consumed => uses'[t] = 0
  BY <1>1 DEF SInv, At
<1> QED
  BY <1>1, <1>2, <1>3 DEF SInv, At

LEMMA UpdateSingle ==
  ASSUME OneAtATime, TInv, RealInv, SInv, NEW r \in Reqs, UpdatePassword(r)
  PROVE  /\ SInv'
         /\ \A t \in TokenIds : uses'[t] # uses[t] =>
              uses[t] = 0 /\ \A u \in TokenIds : Issued(u) => u <= t
<1>1. \A q \in Reqs : q = r
  BY DEF OneAtATime
<1>2. req[r].pc = "update" /\ tokens' = tokens
  BY DEF UpdatePassword, At
<1>3. /\ req'[r].token = req[r].token
      /\ req'[r].pc = IF req[r].token # 0 THEN "consume" ELSE "list"
  BY UpdateMoves
<1>4. \A t \in TokenIds : t # req[r].token => uses'[t] = uses[t]
  BY DEF UpdatePassword
<1>5. \A t \in TokenIds : ~tokens[t].consumed => uses[t] = 0
  BY <1>1, <1>2 DEF SInv, At
<1>6. \A t \in TokenIds : t = req[r].token => ~tokens[t].consumed
  BY <1>2 DEF SInv, At
<1>7. \A t \in TokenIds : ~tokens'[t].consumed /\ uses'[t] # 0 =>
        req'[r].pc = "consume" /\ req'[r].token = t
  BY <1>2, <1>3, <1>4, <1>5 DEF TokenIds
<1>8. SInv'
  BY <1>1, <1>2, <1>3, <1>7 DEF SInv, Real, At
<1>9. ASSUME NEW t \in TokenIds, uses'[t] # uses[t]
      PROVE  uses[t] = 0 /\ \A u \in TokenIds : Issued(u) => u <= t
  <2>1. ~tokens[t].consumed
    BY <1>4, <1>6, <1>9
  <2> QED
    BY <1>5, <2>1, IssuedIsReal DEF SInv
<1> QED
  BY <1>8, <1>9

LEMMA CreateSingle ==
  ASSUME OneAtATime, TInv, RealInv, SInv, NEW r \in Reqs, CreateToken(r)
  PROVE  SInv'
<1>1. \A q \in Reqs : q = r
  BY DEF OneAtATime
<1>2. PICK t \in TokenIds :
        /\ Lowest(t, Unissued)
        /\ tokens' = [tokens EXCEPT ![t] = [consumed |-> FALSE,
                                            expiresAt |-> now + ResetTtl]]
        /\ req' = [req EXCEPT ![r].pc = "mail", ![r].token = t]
  BY DEF CreateToken
<1>3. uses' = uses /\ req[r].pc = "create"
  BY DEF CreateToken, At, history
<1>4. req'[r].pc = "mail"
  BY <1>2, StepMoves
<1>5. ~Real(t) /\ uses[t] = 0 /\ \A u \in TokenIds : ~Real(u) => t <= u
  BY <1>2, IssuedIsReal DEF Lowest, Unissued, RealInv
<1>6. /\ Real(t)' /\ ~tokens'[t].consumed
      /\ \A u \in TokenIds \ {t} : tokens'[u] = tokens[u] /\ tokens'[u].consumed
  BY <1>2, <1>3, ResetAssumption DEF Real, TInv, TypeOK, Times, SInv, At
<1>7. \A u \in TokenIds : (Real(u)' <=> Real(u) \/ u = t) /\ u \in Nat
  BY <1>6 DEF Real, TokenIds
<1>8. \A u \in TokenIds : Real(u) => u < t
  BY <1>5, <1>7 DEF SInv
<1>9. \A u, v \in TokenIds : Real(u)' /\ v < u => Real(v)'
  BY <1>5, <1>7, <1>8
<1>10. \A u, v \in TokenIds : ~tokens'[u].consumed /\ Real(v)' => v <= u
  BY <1>6, <1>7, <1>8
<1>11. \A u \in TokenIds : ~tokens'[u].consumed => uses'[u] = 0
  BY <1>3, <1>5, <1>6
<1> QED
  BY <1>1, <1>4, <1>9, <1>10, <1>11 DEF SInv, At

LEMMA SInvStep ==
  ASSUME OneAtATime, MaxFaults = 0
  PROVE  TInv /\ RealInv /\ SInv /\ [Next]_vars =>
           /\ SInv'
           /\ \A t \in TokenIds : uses'[t] # uses[t] =>
                uses[t] = 0 /\ \A u \in TokenIds : Issued(u) => u <= t
<1> SUFFICES ASSUME TInv, RealInv, SInv, [Next]_vars
             PROVE  /\ SInv'
                    /\ \A t \in TokenIds : uses'[t] # uses[t] =>
                         uses[t] = 0 /\ \A u \in TokenIds : Issued(u) => u <= t
  OBVIOUS
<1>0. \A t \in TokenIds : t # 0
  BY DEF TokenIds
<1>1. ASSUME NEW r \in Reqs, Plain(r) PROVE SInv' /\ uses' = uses
  <2>1. req[r].pc # "consume"
    BY <1>1 DEF Plain, RecordSuccess, OpenSession, ReadCounter, CountFailure, SendMail,
       ListSessions, RevokeSessions, At
  <2> QED
    BY <1>1, <2>1, PlainMoves, SingleKept
<1>2. ASSUME NEW r \in Reqs,
             LoginRight(r) \/ LoginWrong(r) \/ \E s \in SessionIds : VerifyCurrent(r, s)
      PROVE  SInv' /\ uses' = uses
  <2>1. UNCHANGED <<tokens, uses>> /\ req[r].pc = "idle"
    BY <1>2 DEF LoginRight, LoginWrong, VerifyCurrent, history, At
  <2>2. req'[r].pc # "create" /\ req'[r].token = 0
    BY <1>2, CallMoves
  <2> QED
    BY <1>0, <2>1, <2>2, SingleKept
<1>3. ASSUME NEW r \in Reqs, NEW t \in TokenIds, FindToken(r, t)
      PROVE  SInv' /\ uses' = uses
  <2>1. UNCHANGED <<tokens, uses>> /\ req[r].pc = "idle" /\ ~tokens[t].consumed
    BY <1>3 DEF FindToken, Usable, history, At
  <2>2. req'[r].pc = "update" /\ req'[r].token = t
    BY <1>3, CallMoves
  <2> QED
    BY <2>1, <2>2, SingleKept
<1>4. ASSUME NEW r \in Reqs, RequestReset(r) PROVE SInv' /\ uses' = uses
  <2>1. uses' = uses /\ req[r].pc = "idle"
    BY <1>4 DEF RequestReset, history, At
  <2>2. \A t \in TokenIds : /\ tokens'[t].expiresAt = tokens[t].expiresAt
                            /\ tokens'[t].consumed
    BY <1>4 DEF RequestReset, Invalidated, TInv, TypeOK, Token
  <2>3. req'[r].pc = "create"
    BY <1>4, CallMoves
  <2> QED
    BY <2>1, <2>2, <2>3, SingleKept
<1>5. ASSUME NEW r \in Reqs, CreateToken(r) PROVE SInv' /\ uses' = uses
  BY <1>5, CreateSingle DEF CreateToken, history
<1>6. ASSUME NEW r \in Reqs, Consume(r) PROVE SInv' /\ uses' = uses
  <2>1. uses' = uses
    BY <1>6 DEF Consume, history
  <2>2. \A t \in TokenIds : /\ tokens'[t].expiresAt = tokens[t].expiresAt
                            /\ tokens[t].consumed => tokens'[t].consumed
                            /\ t = req[r].token => tokens'[t].consumed
    BY <1>6 DEF Consume, Consumed, TInv, TypeOK, Token
  <2>3. req'[r].pc = "list"
    BY <1>6, GotoMoves DEF Consume
  <2> QED
    BY <2>1, <2>2, <2>3, SingleKept
<1>7. ASSUME NEW r \in Reqs, Abort(r) PROVE FALSE
  BY <1>7 DEF Abort, TInv, TypeOK
<1>8. CASE Tick \/ UNCHANGED vars
  <2>1. UNCHANGED <<tokens, uses, req>>
    BY <1>8 DEF Tick, vars, history
  <2> QED
    BY <2>1 DEF SInv, Real, At
<1> QED
  BY <1>1, <1>2, <1>3, <1>4, <1>5, <1>6, <1>7, <1>8, UpdateSingle
     DEF Next, Step, Call, Quiet, Plain

\* When requests come one at a time and none is cut short, a reset token changes the
\* password once, and not at all after a newer one was created.
THEOREM ResetTokensWorkOnce ==
  ASSUME OneAtATime, MaxFaults = 0
  PROVE  Spec => ResetTokenSingleUse
<1>1. Init => SInv
  BY DEF Init, SInv, NoToken, Idle, Real, At
<1>2. TInv /\ RealInv /\ SInv /\ [Next]_vars =>
        [\A t \in TokenIds : uses'[t] # uses[t] =>
           uses[t] = 0 /\ \A u \in TokenIds : Issued(u) => u <= t]_vars
  BY SInvStep
<1>3. Spec => [](TInv /\ RealInv /\ SInv)
  BY <1>1, InitTInv, InitUInv, TInvStep, RealInvStep, SInvStep, PTL DEF Spec
<1> QED
  BY <1>2, <1>3, PTL DEF Spec, ResetTokenSingleUse

-----------------------------------------------------------------------------
(* How many passwords can be guessed.                                       *)

\* The guesses no lock has answered yet, and those of the last LockDuration.
Counted == {g \in guesses : lockedUntil < g.at + LockDuration}
InWindow == {g \in guesses : now < g.at + LockDuration}

\* A wrong password has been verified and is not counted yet.
Guessing == \E r \in Reqs : req[r].pc \in {"read", "count"}

\* The counter counts the guesses since the last lock, the one that is being
\* counted is added to the row as it is, and no guess is verified under a lock.
GInv ==
    /\ \A g \in guesses : g.at <= now
    /\ Cardinality(Counted) <= IF Guessing THEN failed + 1 ELSE failed
    /\ \A r \in Reqs : At(r, "count") => req[r].failed = failed /\ req[r].lock = lockedUntil
    /\ Locked => ~Guessing /\ Cardinality(InWindow) <= MaxAttempts

LEMMA GuessesFinite ==
  ASSUME TInv
  PROVE  /\ IsFiniteSet(Counted) /\ Cardinality(Counted) \in Nat
         /\ IsFiniteSet(InWindow) /\ Cardinality(InWindow) \in Nat
<1>1. \A S \in SUBSET guesses : IsFiniteSet(S) /\ Cardinality(S) \in Nat
  BY FS_Subset, FS_CardinalityType DEF TInv, TypeOK
<1> QED
  BY <1>1 DEF Counted, InWindow

\* While no lock is set, the guesses of the window are among those that count.
LEMMA OpenWindow ==
  ASSUME TInv, ~Locked
  PROVE  Cardinality(InWindow) <= Cardinality(Counted)
<1>1. ASSUME NEW g \in guesses, now < g.at + LockDuration
      PROVE  lockedUntil < g.at + LockDuration
  <2>1. /\ g.at \in Nat /\ now \in Nat /\ lockedUntil \in Nat /\ LockDuration \in Nat
        /\ lockedUntil <= now
    BY LockoutAssumption DEF TInv, TypeOK, Guess, Times, Locked
  <2> QED
    BY <1>1, <2>1
<1>2. InWindow \in SUBSET Counted
  BY <1>1 DEF InWindow, Counted
<1> QED
  BY <1>2, NoFewer, GuessesFinite

\* A step that leaves the guesses, the counter and the lock alone.
LEMMA GuessesKept ==
  ASSUME OneAtATime, TInv, GInv, NEW r \in Reqs,
         UNCHANGED <<now, failed, lockedUntil, guesses>>,
         req[r].pc \notin {"read", "count"}, req'[r].pc \notin {"read", "count"}
  PROVE  GInv'
<1>1. ~Guessing /\ ~Guessing'
  BY DEF Guessing, OneAtATime
<1>2. Counted' = Counted /\ InWindow' = InWindow /\ (Locked' <=> Locked)
  BY DEF Counted, InWindow, Locked
<1>3. \A q \in Reqs : ~At(q, "count")'
  BY DEF At, OneAtATime
<1> QED
  BY <1>1, <1>2, <1>3 DEF GInv

\* A new password, or an accepted one: the counter, the lock and the history are cleared.
LEMMA GuessesCleared ==
  ASSUME OneAtATime, TInv, NEW r \in Reqs, now' = now, failed' = 0, lockedUntil' = 0,
         guesses' = {}, req'[r].pc \notin {"read", "count"}
  PROVE  GInv'
<1>1. ~Guessing' /\ \A q \in Reqs : ~At(q, "count")'
  BY DEF Guessing, At, OneAtATime
<1>2. Counted' = {} /\ ~Locked'
  BY DEF Counted, Locked, TInv, TypeOK, Times
<1>3. Cardinality(Counted') = 0
  BY <1>2, FS_EmptySet
<1> QED
  BY <1>1, <1>2, <1>3 DEF GInv

LEMMA CountFailureGInv ==
  ASSUME OneAtATime, TInv, GInv, NEW r \in Reqs, CountFailure(r)
  PROVE  GInv'
<1>1. req'[r].pc = "idle"
  BY DoneMoves DEF CountFailure
<1>2. ~Guessing' /\ \A q \in Reqs : ~At(q, "count")'
  BY <1>1 DEF Guessing, At, OneAtATime
<1>3. Guessing /\ ~Locked /\ req[r].failed = failed /\ req[r].lock = lockedUntil
  BY DEF CountFailure, At, Guessing, GInv
<1>4. /\ failed \in Nat /\ failed < MaxAttempts /\ MaxAttempts \in Nat /\ now \in Nat
      /\ LockDuration \in Nat /\ lockedUntil \in Nat /\ lockedUntil <= now
  BY <1>3, LockoutAssumption DEF TInv, TypeOK, Times, Locked
<1>5. Cardinality(Counted) <= failed + 1
  BY <1>3 DEF GInv
<1>6. UNCHANGED <<now, guesses>>
  BY DEF CountFailure, history
<1>7. CASE ShouldLock(failed + 1)
  <2>1. failed' = 0 /\ lockedUntil' = now + LockDuration
    BY <1>3, <1>7 DEF CountFailure, LockEnd
  <2>2. \A g \in guesses : g.at \in Nat /\ g.at <= now
    BY DEF GInv, TInv, TypeOK, Guess, Times
  <2>3. Counted' = {}
    BY <1>4, <1>6, <2>1, <2>2 DEF Counted
  <2>4. Cardinality(Counted') = 0
    BY <2>3, FS_EmptySet
  <2>5. Cardinality(InWindow) <= MaxAttempts
    BY <1>3, <1>4, <1>5, OpenWindow, GuessesFinite
  <2>6. InWindow' = InWindow
    BY <1>6 DEF InWindow
  <2> QED
    BY <1>2, <1>6, <2>1, <2>2, <2>4, <2>5, <2>6 DEF GInv
<1>8. CASE ~ShouldLock(failed + 1)
  <2>1. failed' = failed + 1 /\ lockedUntil' = lockedUntil
    BY <1>3, <1>8 DEF CountFailure
  <2>2. Counted' = Counted /\ ~Locked'
    BY <1>3, <1>6, <2>1 DEF Counted, Locked
  <2> QED
    BY <1>2, <1>5, <1>6, <2>1, <2>2 DEF GInv
<1> QED
  BY <1>7, <1>8

LEMMA LoginWrongGInv ==
  ASSUME OneAtATime, TInv, GInv, NEW r \in Reqs, LoginWrong(r)
  PROVE  GInv'
<1> DEFINE g == [number |-> Cardinality(guesses), at |-> now]
<1>1. guesses' = guesses \cup {g} /\ UNCHANGED <<now, failed, lockedUntil>> /\ g.at = now
  BY DEF LoginWrong, account
<1> HIDE DEF g
<1>2. req[r].pc = "idle" /\ req'[r].pc = "read"
  BY CallMoves DEF LoginWrong, At
<1>3. ~Guessing /\ Guessing' /\ \A q \in Reqs : ~At(q, "count")'
  BY <1>2 DEF Guessing, At, OneAtATime
<1>4. ~Locked /\ ~Locked'
  BY <1>1 DEF LoginWrong, Locked
<1>5. Counted' \subseteq Counted \cup {g}
  BY <1>1 DEF Counted
<1>6. Cardinality(Counted') <= Cardinality(Counted) + 1 /\ IsFiniteSet(Counted')
  BY <1>5, Joins, GuessesFinite
<1>7. Cardinality(Counted) <= failed
  BY <1>3 DEF GInv
<1>8. Cardinality(Counted') <= failed' + 1
  BY <1>1, <1>6, <1>7, GuessesFinite, FS_CardinalityType DEF TInv, TypeOK
<1>9. \A h \in guesses' : h.at <= now'
  BY <1>1 DEF GInv, TInv, TypeOK, Times
<1> QED
  BY <1>3, <1>4, <1>8, <1>9 DEF GInv

LEMMA ReadCounterGInv ==
  ASSUME OneAtATime, TInv, GInv, NEW r \in Reqs, ReadCounter(r)
  PROVE  GInv'
<1>1. UNCHANGED <<now, failed, lockedUntil, guesses>> /\ req[r].pc = "read"
  BY DEF ReadCounter, account, history, At
<1>2. req'[r].pc = "count" /\ req'[r].failed = failed /\ req'[r].lock = lockedUntil
  BY DEF ReadCounter, TInv, TypeOK, Slot
<1>3. Guessing /\ Guessing' /\ \A q \in Reqs : q = r
  BY <1>1, <1>2 DEF Guessing, OneAtATime
<1>4. Counted' = Counted /\ ~Locked'
  BY <1>1, <1>3 DEF Counted, Locked, GInv
<1> QED
  BY <1>1, <1>2, <1>3, <1>4 DEF GInv, At

LEMMA TickGInv ==
  ASSUME TInv, GInv, Tick
  PROVE  GInv'
<1>1. UNCHANGED <<failed, lockedUntil, guesses, req>> /\ now' = now + 1
  BY DEF Tick, account, history
<1>2. Counted' = Counted /\ (Guessing' <=> Guessing)
  BY <1>1 DEF Counted, Guessing
<1>3. /\ now \in Nat /\ lockedUntil \in Nat /\ LockDuration \in Nat /\ MaxAttempts \in Nat
      /\ \A g \in guesses : g.at \in Nat
  BY LockoutAssumption DEF TInv, TypeOK, Guess, Times
<1>4. Locked' => Locked
  BY <1>1, <1>3 DEF Locked
<1>5. InWindow' \in SUBSET InWindow
  BY <1>1, <1>3 DEF InWindow
<1>6. Cardinality(InWindow') <= Cardinality(InWindow) /\ Cardinality(InWindow') \in Nat
  BY <1>5, NoFewer, GuessesFinite, FS_Subset, FS_CardinalityType
<1>7. Locked' => ~Guessing' /\ Cardinality(InWindow') <= MaxAttempts
  BY <1>2, <1>3, <1>4, <1>6, GuessesFinite DEF GInv
<1>8. \A g \in guesses' : g.at <= now'
  BY <1>1, <1>3 DEF GInv
<1>9. \A q \in Reqs : At(q, "count")' => req'[q].failed = failed' /\ req'[q].lock = lockedUntil'
  BY <1>1 DEF GInv, At
<1>10. Cardinality(Counted') <= IF Guessing' THEN failed' + 1 ELSE failed'
  BY <1>1, <1>2 DEF GInv
<1> QED
  BY <1>7, <1>8, <1>9, <1>10 DEF GInv

LEMMA GInvStep ==
  ASSUME OneAtATime, MaxFaults = 0
  PROVE  TInv /\ GInv /\ [Next]_vars => GInv'
<1> SUFFICES ASSUME TInv, GInv, [Next]_vars PROVE GInv'
  OBVIOUS
<1>1. ASSUME NEW r \in Reqs, RecordSuccess(r) PROVE GInv'
  BY <1>1, GotoMoves, GuessesCleared DEF RecordSuccess
<1>2. ASSUME NEW r \in Reqs, UpdatePassword(r) PROVE GInv'
  <2>1. req'[r].pc \in {"consume", "list"}
    BY <1>2, UpdateMoves
  <2> QED
    BY <1>2, <2>1, GuessesCleared DEF UpdatePassword
<1>3. ASSUME NEW r \in Reqs,
             \/ OpenSession(r) \/ SendMail(r) \/ ListSessions(r) \/ RevokeSessions(r)
             \/ Consume(r) \/ CreateToken(r)
      PROVE  GInv'
  <2>1. UNCHANGED <<now, failed, lockedUntil, guesses>>
    BY <1>3 DEF OpenSession, SendMail, ListSessions, RevokeSessions, Consume, CreateToken,
       account, history
  <2>2. req[r].pc \notin {"read", "count"}
    BY <1>3 DEF OpenSession, SendMail, ListSessions, RevokeSessions, Consume, CreateToken, At
  <2>3. req'[r].pc \notin {"read", "count"}
    <3>1. CASE OpenSession(r) \/ SendMail(r) \/ RevokeSessions(r)
      BY <3>1, DoneMoves DEF OpenSession, SendMail, RevokeSessions, Answer
    <3>2. CASE Consume(r)
      BY <3>2, GotoMoves DEF Consume
    <3>3. CASE CreateToken(r) \/ ListSessions(r)
      BY <3>3, StepMoves DEF CreateToken
    <3> QED
      BY <1>3, <3>1, <3>2, <3>3
  <2> QED
    BY <2>1, <2>2, <2>3, GuessesKept
<1>4. ASSUME NEW r \in Reqs,
             \/ LoginRight(r) \/ RequestReset(r)
             \/ \E t \in TokenIds : FindToken(r, t)
             \/ \E s \in SessionIds : VerifyCurrent(r, s)
      PROVE  GInv'
  <2>1. UNCHANGED <<now, failed, lockedUntil, guesses>> /\ req[r].pc = "idle"
    BY <1>4 DEF LoginRight, RequestReset, FindToken, VerifyCurrent, account, history, At
  <2>2. req'[r].pc \notin {"read", "count"}
    BY <1>4, CallMoves
  <2> QED
    BY <2>1, <2>2, GuessesKept
<1>5. ASSUME NEW r \in Reqs, Abort(r) PROVE FALSE
  BY <1>5 DEF Abort, TInv, TypeOK
<1>6. CASE UNCHANGED vars
  BY <1>6 DEF vars, GInv, Counted, InWindow, Guessing, Locked, At
<1> QED
  BY <1>1, <1>2, <1>3, <1>4, <1>5, <1>6, CountFailureGInv, LoginWrongGInv,
     ReadCounterGInv, TickGInv DEF Next, Step, Call, Quiet

\* When requests come one at a time and none is cut short, no more than MaxAttempts
\* wrong passwords are verified within any LockDuration without a right one between.
THEOREM FewGuesses ==
  ASSUME OneAtATime, MaxFaults = 0
  PROVE  Spec => []GuessesBounded
<1>1. Init => GInv
  <2> SUFFICES ASSUME Init PROVE GInv
    OBVIOUS
  <2>1. Counted = {} /\ ~Locked /\ ~Guessing /\ \A r \in Reqs : ~At(r, "count")
    BY DEF Init, Counted, Locked, Guessing, At, Idle
  <2> QED
    BY <2>1, FS_EmptySet DEF Init, GInv
<1>2. TInv /\ GInv => GuessesBounded
  <2> SUFFICES ASSUME TInv, GInv PROVE Cardinality(InWindow) <= MaxAttempts
    BY DEF GuessesBounded, InWindow
  <2>1. failed \in Nat /\ failed < MaxAttempts /\ MaxAttempts \in Nat
    BY LockoutAssumption DEF TInv, TypeOK
  <2>2. Cardinality(Counted) <= MaxAttempts
    <3>1. Cardinality(Counted) <= failed + 1
      BY <2>1, GuessesFinite DEF GInv
    <3> QED
      BY <2>1, <3>1, GuessesFinite
  <2> QED
    BY <2>1, <2>2, OpenWindow, GuessesFinite DEF GInv
<1>3. Spec => [](TInv /\ GInv)
  BY <1>1, InitTInv, TInvStep, GInvStep, PTL DEF Spec
<1> QED
  BY <1>2, <1>3, PTL

==============================================================================
