---------------------------- MODULE RequestsProofs ----------------------------
(***************************************************************************)
(* Proofs, for every value of the constants, of every property of Requests *)
(* that its run checks.                                                    *)
(*                                                                         *)
(* Five inductive invariants carry them: the types with the arithmetic of  *)
(* the bucket, what the logins of the present window have to do with its   *)
(* hits, what a refused client was promised, how far a window of wrong     *)
(* passwords has come, and which rows a handler owes between its stretches.*)
(***************************************************************************)
EXTENDS Requests, FiniteSetTheorems, TLAPS

-----------------------------------------------------------------------------
(* The bucket.                                                             *)

\* A key that is there has not expired, and lives for Ttl at most.
Alive(end) == end = 0 \/ end \in now .. now + Ttl
BucketInv ==
    /\ IF bucket.hits = 0 THEN bucket.hitsEnd = 0 ELSE bucket.hitsEnd \in now .. now + Ttl
    /\ Alive(bucket.blockEnd)

\* The duration of a lock is the first thing a request may be in doubt about; only a
\* login is found there.
ArrivalInv == req # Idle /\ req.at = 0 => req.kind \in Logins

TInv == TypeOK /\ BucketInv /\ ArrivalInv

\* What the script makes of a bucket whose keys are alive.
LEMMA HitIs ==
  ASSUME now \in Nat, bucket \in Bucket, BucketInv
  PROVE  Hit = [hits     |-> bucket.hits + 1,
                hitsEnd  |-> IF bucket.hits = 0 THEN now + Ttl ELSE bucket.hitsEnd,
                blockEnd |-> IF bucket.blockEnd <= now /\ bucket.hits + 1 > Limit
                               THEN now + Ttl ELSE bucket.blockEnd]
<1> DEFINE c == [hits     |-> bucket.hits + 1,
                 hitsEnd  |-> IF bucket.hits = 0 THEN now + Ttl ELSE bucket.hitsEnd,
                 blockEnd |-> bucket.blockEnd]
<1>1. Swept(bucket, now) = bucket
  BY ThrottlerAssumption DEF Swept, BucketInv, Alive, Bucket
<1>2. Counted(bucket, now) = c
  <2> DEFINE h == bucket.hits + 1
             e == IF bucket.hits = 0 THEN now + Ttl ELSE bucket.hitsEnd
             one == [bucket EXCEPT !.hits = h]
  <2>1. Counted(bucket, now) = [one EXCEPT !.hitsEnd = e]
    BY DEF Counted
  <2> HIDE DEF h, e
  <2>2. one = [hits |-> h, hitsEnd |-> bucket.hitsEnd, blockEnd |-> bucket.blockEnd]
    BY DEF Bucket
  <2>3. [one EXCEPT !.hitsEnd = e] = [hits |-> h, hitsEnd |-> e, blockEnd |-> bucket.blockEnd]
    <3> HIDE DEF one
    <3> QED
      BY <2>2
  <2> QED
    BY <2>1, <2>3 DEF h, e
<1>3. Hit = IF ~Blocked(c, now) /\ Exceeds(c) THEN [c EXCEPT !.blockEnd = now + Ttl] ELSE c
  <2> HIDE DEF c
  <2> QED
    BY <1>1, <1>2, Zenon DEF Hit, Increment
<1>4. Blocked(c, now) <=> bucket.blockEnd > now
  BY DEF Blocked
<1>5. Exceeds(c) <=> bucket.hits + 1 > Limit
  BY DEF Exceeds
<1>6. [c EXCEPT !.blockEnd = now + Ttl] =
        [hits |-> c.hits, hitsEnd |-> c.hitsEnd, blockEnd |-> now + Ttl]
  OBVIOUS
<1>7. c.hits = bucket.hits + 1 /\ c.hitsEnd = IF bucket.hits = 0 THEN now + Ttl ELSE bucket.hitsEnd
  OBVIOUS
<1> HIDE DEF c
<1>8. bucket.blockEnd \in Nat
  BY DEF Bucket
<1>9. CASE bucket.blockEnd <= now /\ bucket.hits + 1 > Limit
  BY <1>3, <1>4, <1>5, <1>6, <1>7, <1>8, <1>9
<1>10. CASE ~(bucket.blockEnd <= now /\ bucket.hits + 1 > Limit)
  <2>1. Hit = c
    BY <1>3, <1>4, <1>5, <1>8, <1>10
  <2> QED
    BY <2>1, <1>10 DEF c
<1> QED
  BY <1>9, <1>10

\* A login is refused while a block runs, and when it exceeds the limit.
LEMMA RefusedIff ==
  ASSUME now \in Nat, bucket \in Bucket, BucketInv
  PROVE  /\ Refused <=> bucket.blockEnd > now \/ bucket.hits + 1 > Limit
         /\ Hit \in Bucket
         /\ BucketInv /\ bucket' = Hit /\ now' = now => BucketInv'
<1> USE ThrottlerAssumption
<1>1. Bucket = [hits : Nat, hitsEnd : Nat, blockEnd : Nat]
  BY DEF Bucket
<1>2. /\ bucket.hits \in Nat /\ bucket.hitsEnd \in Nat /\ bucket.blockEnd \in Nat
      /\ now + Ttl \in Nat /\ now + Ttl > now
  BY <1>1
<1>3. /\ Hit.hits = bucket.hits + 1
      /\ Hit.hitsEnd = IF bucket.hits = 0 THEN now + Ttl ELSE bucket.hitsEnd
      /\ Hit.blockEnd = IF bucket.blockEnd <= now /\ bucket.hits + 1 > Limit
                          THEN now + Ttl ELSE bucket.blockEnd
  BY HitIs
<1>4. Hit \in Bucket
  BY HitIs, <1>1, <1>2
<1>5. Refused <=> bucket.blockEnd > now \/ bucket.hits + 1 > Limit
  BY <1>2, <1>3 DEF Refused, Blocked
<1>6. BucketInv /\ bucket' = Hit /\ now' = now => BucketInv'
  BY <1>2, <1>3 DEF BucketInv, Alive
<1> QED
  BY <1>4, <1>5, <1>6

\* Retry-After is not shorter than the block.
LEMMA RoundedUp ==
  ASSUME NEW x \in Nat
  PROVE  /\ ((x + Second - 1) \div Second) * Second \in Nat
         /\ ((x + Second - 1) \div Second) * Second >= x
  BY ThrottlerAssumption, SMTT(30)

-----------------------------------------------------------------------------
(* The handlers.                                                           *)

Kinds == {"register", "login_right", "login_wrong", "login_locked", "login_unknown",
          "refresh", "refresh_reused", "verify_email", "reset_password",
          "change_password", "logout", "revoke_session", "revoke_others",
          "change_role", "change_permission"}

LEMMA KindsAre == DOMAIN Handlers = Kinds
  BY DEF Handlers, Kinds

LEMMA RowsFinite == IsFiniteSet(DueRows)
<1> DEFINE T == {"audit_logs", "login_history"}
           A == {"USER_REGISTERED", "USER_LOGGED_IN", "USER_LOGGED_OUT"}
           B == {"TOKEN_REUSE_DETECTED", "EMAIL_VERIFIED", "PASSWORD_CHANGED"}
           C == {"SESSION_REVOKED", "ALL_SESSIONS_REVOKED", "SUCCESS"}
           D == {"FAILED_PASSWORD", "FAILED_LOCKED", "FAILED_NOT_FOUND"}
           E == {"ROLE_CHANGED", "PERMISSION_CHANGED"}
           N == ((A \cup B) \cup (C \cup D)) \cup E
<1>1. \A x, y, z : IsFiniteSet({x, y, z}) /\ IsFiniteSet({x, y})
  <2> TAKE x, y, z
  <2>1. IsFiniteSet({x}) /\ IsFiniteSet({y}) /\ IsFiniteSet({z})
    BY FS_Singleton
  <2>2. IsFiniteSet({x} \cup {y})
    BY <2>1, FS_Union
  <2>3. IsFiniteSet(({x} \cup {y}) \cup {z})
    BY <2>1, <2>2, FS_Union
  <2>4. {x} \cup {y} = {x, y} /\ ({x} \cup {y}) \cup {z} = {x, y, z}
    OBVIOUS
  <2> QED
    BY <2>2, <2>3, <2>4
<1>2. /\ IsFiniteSet(T) /\ IsFiniteSet(A) /\ IsFiniteSet(B) /\ IsFiniteSet(C)
      /\ IsFiniteSet(D) /\ IsFiniteSet(E)
  BY <1>1
<1>3. DueRows \subseteq T \X N
  BY DEF DueRows, Rows, AuditRow, HistoryRow, Actions, LoginStatuses, FailedStatuses
<1> HIDE DEF T, A, B, C, D, E
<1>4. IsFiniteSet(A \cup B) /\ IsFiniteSet(C \cup D)
  BY <1>2, FS_Union
<1>5. IsFiniteSet(N)
  <2>1. IsFiniteSet((A \cup B) \cup (C \cup D))
    BY <1>4, FS_Union
  <2> QED
    BY <1>2, <2>1, FS_Union
<1> HIDE DEF N
<1>6. IsFiniteSet(T \X N)
  BY <1>2, <1>5, FS_Product
<1> QED
  BY <1>3, <1>6, FS_Subset

\* The rows each event starts.
LEMMA RowsOfIs ==
  /\ RowsOf("USER_REGISTERED") = {AuditRow("USER_REGISTERED")}
  /\ RowsOf("USER_LOGGED_IN") = {AuditRow("USER_LOGGED_IN"), HistoryRow("SUCCESS")}
  /\ RowsOf("USER_LOGGED_OUT") = {AuditRow("USER_LOGGED_OUT")}
  /\ RowsOf("TOKEN_REUSE_DETECTED") = {AuditRow("TOKEN_REUSE_DETECTED")}
  /\ RowsOf("EMAIL_VERIFIED") = {AuditRow("EMAIL_VERIFIED")}
  /\ RowsOf("PASSWORD_CHANGED") = {AuditRow("PASSWORD_CHANGED")}
  /\ RowsOf("SESSION_REVOKED") = {AuditRow("SESSION_REVOKED")}
  /\ RowsOf("ALL_SESSIONS_REVOKED") = {AuditRow("ALL_SESSIONS_REVOKED")}
  /\ RowsOf("FAILED_PASSWORD") = {HistoryRow("FAILED_PASSWORD")}
  /\ RowsOf("FAILED_LOCKED") = {HistoryRow("FAILED_LOCKED")}
  /\ RowsOf("FAILED_NOT_FOUND") = {HistoryRow("FAILED_NOT_FOUND")}
  /\ RowsOf("TOKEN_REFRESHED") = {}
  BY DEF RowsOf, Statuses, FailedStatuses, Actions

\* The rows each deed makes due.
LEMMA DueIs ==
  /\ DueFor("") = {}
  /\ DueFor("attempts_cleared") = {}
  /\ DueFor("signed_up") = {AuditRow("USER_REGISTERED")}
  /\ DueFor("signed_in") = {AuditRow("USER_LOGGED_IN"), HistoryRow("SUCCESS")}
  /\ DueFor("attempt_counted") = {HistoryRow("FAILED_PASSWORD")}
  /\ DueFor("locked_out") = {HistoryRow("FAILED_LOCKED")}
  /\ DueFor("not_found") = {HistoryRow("FAILED_NOT_FOUND")}
  /\ DueFor("reuse_answered") = {AuditRow("TOKEN_REUSE_DETECTED")}
  /\ DueFor("email_confirmed") = {AuditRow("EMAIL_VERIFIED")}
  /\ DueFor("password_written") = {AuditRow("PASSWORD_CHANGED")}
  /\ DueFor("sessions_revoked") = {AuditRow("ALL_SESSIONS_REVOKED")}
  /\ DueFor("session_revoked") = {AuditRow("SESSION_REVOKED")}
  /\ DueFor("signed_out") = {AuditRow("USER_LOGGED_OUT")}
  /\ DueFor("role_changed") = {AuditRow("ROLE_CHANGED")}
  /\ DueFor("permission_changed") = {AuditRow("PERMISSION_CHANGED")}
  BY DEF DueFor, Due

\* The rows of changes of roles and permissions are none that the listener writes.
LEMMA Unheard ==
  AuditRow("ROLE_CHANGED") \notin Rows /\ AuditRow("PERMISSION_CHANGED") \notin Rows
  BY DEF Rows, AuditRow, HistoryRow, Actions

\* What emit starts: one insert of each row of the events, which have none in common.
LEMMA StartedIs ==
  /\ \A row : Started(row, {}) = 0
  /\ \A row, e : Started(row, {e}) = IF row \in RowsOf(e) THEN 1 ELSE 0
  /\ \A row, e, f : RowsOf(e) \cap RowsOf(f) = {} =>
       Started(row, {e, f}) = IF row \in RowsOf(e) \cup RowsOf(f) THEN 1 ELSE 0
<1>1. ASSUME NEW row PROVE Started(row, {}) = 0
  <2>1. {e \in {} : row \in RowsOf(e)} = {}
    OBVIOUS
  <2> QED
    BY <2>1, FS_EmptySet DEF Started
<1>2. ASSUME NEW row, NEW e PROVE Started(row, {e}) = IF row \in RowsOf(e) THEN 1 ELSE 0
  <2> DEFINE S == {x \in {e} : row \in RowsOf(x)}
  <2>1. S = IF row \in RowsOf(e) THEN {e} ELSE {}
    OBVIOUS
  <2> QED
    BY <2>1, FS_EmptySet, FS_Singleton DEF Started
<1>3. ASSUME NEW row, NEW e, NEW f, RowsOf(e) \cap RowsOf(f) = {}
      PROVE  Started(row, {e, f}) = IF row \in RowsOf(e) \cup RowsOf(f) THEN 1 ELSE 0
  <2> DEFINE S == {x \in {e, f} : row \in RowsOf(x)}
  <2>1. S = IF row \in RowsOf(e) THEN {e} ELSE IF row \in RowsOf(f) THEN {f} ELSE {}
    BY <1>3
  <2> QED
    BY <2>1, FS_EmptySet, FS_Singleton DEF Started
<1> QED
  BY <1>1, <1>2, <1>3

\* A handler emits in its last stretch only, and then starts one insert of every row of
\* the listener's that its deeds made due: each of them once, and two at most.
Sound(h) ==
    /\ Len(h) \in Nat \ {0}
    /\ \A i \in 1 .. Len(h) : i # Len(h) => h[i].emits = {}
    /\ \A row : \A i, j \in 1 .. Len(h) :
         row \in DueFor(h[i].deed) /\ row \in DueFor(h[j].deed) => i = j
    /\ \A row \in Rows : Started(row, h[Len(h)].emits) =
                  IF \E i \in 1 .. Len(h) : row \in DueFor(h[i].deed) THEN 1 ELSE 0
    /\ \E x, y : \A i \in 1 .. Len(h) : DueFor(h[i].deed) \subseteq {x, y}

LEMMA SoundOne ==
  ASSUME NEW a, NEW x, DueFor(a.deed) \subseteq {x},
         \A row \in Rows : Started(row, a.emits) = IF row \in DueFor(a.deed) THEN 1 ELSE 0
  PROVE  Sound(<<a>>)
<1> DEFINE h == <<a>>
<1>1. Len(h) = 1 /\ h[1] = a /\ 1 .. Len(h) = {1}
  OBVIOUS
<1> HIDE DEF h
<1>2. \A i \in 1 .. Len(h) : DueFor(h[i].deed) \subseteq {x, x}
  BY <1>1
<1>3. \A row : (\E i \in 1 .. Len(h) : row \in DueFor(h[i].deed)) <=> row \in DueFor(a.deed)
  BY <1>1
<1>4. Sound(h)
  BY <1>1, <1>2, <1>3 DEF Sound
<1> QED
  BY <1>4 DEF h

LEMMA SoundTwo ==
  ASSUME NEW a, NEW b, NEW x, NEW y,
         a.emits = {}, DueFor(a.deed) \subseteq {x, y}, DueFor(b.deed) = {},
         \A row : Started(row, b.emits) = IF row \in DueFor(a.deed) THEN 1 ELSE 0
  PROVE  Sound(<<a, b>>)
<1> DEFINE h == <<a, b>>
<1>1. Len(h) = 2 /\ h[1] = a /\ h[2] = b /\ 1 .. Len(h) = {1, 2}
  OBVIOUS
<1> HIDE DEF h
<1>2. \A i \in 1 .. Len(h) : DueFor(h[i].deed) \subseteq {x, y}
  BY <1>1
<1>3. \A row : (\E i \in 1 .. Len(h) : row \in DueFor(h[i].deed)) <=> row \in DueFor(a.deed)
  BY <1>1
<1>4. \A row : \A i, j \in 1 .. Len(h) :
         row \in DueFor(h[i].deed) /\ row \in DueFor(h[j].deed) => i = j
  BY <1>1
<1>5. Sound(h)
  BY <1>1, <1>2, <1>3, <1>4 DEF Sound
<1> QED
  BY <1>5 DEF h

LEMMA SoundThree ==
  ASSUME NEW a, NEW b, NEW c, NEW x, NEW y,
         a.emits = {}, b.emits = {}, DueFor(c.deed) = {},
         DueFor(a.deed) \subseteq {x, y}, DueFor(b.deed) \subseteq {x, y},
         DueFor(a.deed) \cap DueFor(b.deed) = {},
         \A row : Started(row, c.emits) =
                    IF row \in DueFor(a.deed) \cup DueFor(b.deed) THEN 1 ELSE 0
  PROVE  Sound(<<a, b, c>>)
<1> DEFINE h == <<a, b, c>>
<1>1. Len(h) = 3 /\ h[1] = a /\ h[2] = b /\ h[3] = c /\ 1 .. Len(h) = {1, 2, 3}
  OBVIOUS
<1> HIDE DEF h
<1>2. \A i \in 1 .. Len(h) : DueFor(h[i].deed) \subseteq {x, y}
  BY <1>1
<1>3. \A row : (\E i \in 1 .. Len(h) : row \in DueFor(h[i].deed))
                 <=> row \in DueFor(a.deed) \cup DueFor(b.deed)
  BY <1>1
<1>4. \A row : \A i, j \in 1 .. Len(h) :
         row \in DueFor(h[i].deed) /\ row \in DueFor(h[j].deed) => i = j
  BY <1>1
<1>5. \A row : Started(row, h[Len(h)].emits) =
                 IF \E i \in 1 .. Len(h) : row \in DueFor(h[i].deed) THEN 1 ELSE 0
  BY <1>1, <1>3
<1>6. /\ Len(h) \in Nat \ {0}
      /\ \A i \in 1 .. Len(h) : i # Len(h) => h[i].emits = {}
  BY <1>1
<1>7. Sound(h)
  BY <1>2, <1>4, <1>5, <1>6 DEF Sound
<1> QED
  BY <1>7 DEF h

LEMMA HandlersSound == \A kind \in Kinds : Sound(Handlers[kind])
<1>1. \A deed, events : /\ Did(deed).deed = deed /\ Did(deed).emits = {}
                        /\ Told(events).deed = "" /\ Told(events).emits = events
  BY DEF Did, Told
<1>2. \A deed, event : /\ DidAndTold(deed, event).deed = deed
                       /\ DidAndTold(deed, event).emits = {event}
  BY DEF DidAndTold
<1>3. Sound(Register)
  <2>1. RowsOf("USER_REGISTERED") = DueFor("signed_up")
    BY RowsOfIs, DueIs
  <2>2. \A row : Started(row, {"USER_REGISTERED"}) = IF row \in DueFor("signed_up") THEN 1 ELSE 0
    BY <2>1, StartedIs
  <2> QED
    BY <1>1, <2>2, DueIs, SoundTwo DEF Register
<1>4. Sound(LoginRight)
  <2>1. RowsOf("USER_LOGGED_IN") = DueFor("attempts_cleared") \cup DueFor("signed_in")
    BY RowsOfIs, DueIs
  <2>2. \A row : Started(row, {"USER_LOGGED_IN"}) =
                   IF row \in DueFor("attempts_cleared") \cup DueFor("signed_in") THEN 1 ELSE 0
    BY <2>1, StartedIs
  <2>3. DueFor("signed_in") \subseteq {AuditRow("USER_LOGGED_IN"), HistoryRow("SUCCESS")}
    BY DueIs
  <2> QED
    BY <1>1, <2>2, <2>3, DueIs, SoundThree DEF LoginRight
<1>5. Sound(LoginWrong)
  <2>1. RowsOf("FAILED_PASSWORD") = DueFor("attempt_counted")
    BY RowsOfIs, DueIs
  <2>2. \A row : Started(row, {"FAILED_PASSWORD"}) = IF row \in DueFor("attempt_counted") THEN 1 ELSE 0
    BY <2>1, StartedIs
  <2> QED
    BY <1>1, <2>2, DueIs, SoundTwo DEF LoginWrong
<1>6. Sound(LoginLocked)
  <2>1. RowsOf("FAILED_LOCKED") = DueFor("locked_out")
    BY RowsOfIs, DueIs
  <2>2. \A row : Started(row, {"FAILED_LOCKED"}) = IF row \in DueFor("locked_out") THEN 1 ELSE 0
    BY <2>1, StartedIs
  <2>3. DueFor("locked_out") \subseteq {HistoryRow("FAILED_LOCKED")}
    BY DueIs
  <2> QED
    BY <1>2, <2>2, <2>3, SoundOne DEF LoginLocked
<1>7. Sound(LoginUnknown)
  <2>1. RowsOf("FAILED_NOT_FOUND") = DueFor("not_found")
    BY RowsOfIs, DueIs
  <2>2. \A row : Started(row, {"FAILED_NOT_FOUND"}) = IF row \in DueFor("not_found") THEN 1 ELSE 0
    BY <2>1, StartedIs
  <2>3. DueFor("not_found") \subseteq {HistoryRow("FAILED_NOT_FOUND")}
    BY DueIs
  <2> QED
    BY <1>2, <2>2, <2>3, SoundOne DEF LoginUnknown
<1>8. Sound(Refresh)
  <2>1. RowsOf("TOKEN_REFRESHED") = {} /\ DueFor("") = {}
    BY RowsOfIs, DueIs
  <2>2. \A row : Started(row, {"TOKEN_REFRESHED"}) = IF row \in DueFor("") THEN 1 ELSE 0
    BY <2>1, StartedIs, Zenon
  <2>3. DueFor("") \subseteq {0}
    BY DueIs
  <2> QED
    BY <1>1, <2>2, <2>3, SoundOne DEF Refresh
<1>9. Sound(RefreshReused)
  <2>1. RowsOf("TOKEN_REUSE_DETECTED") = DueFor("reuse_answered")
    BY RowsOfIs, DueIs
  <2>2. \A row : Started(row, {"TOKEN_REUSE_DETECTED"}) = IF row \in DueFor("reuse_answered") THEN 1 ELSE 0
    BY <2>1, StartedIs
  <2> QED
    BY <1>1, <2>2, DueIs, SoundTwo DEF RefreshReused
<1>10. Sound(VerifyEmail)
  <2>1. RowsOf("EMAIL_VERIFIED") = DueFor("email_confirmed")
    BY RowsOfIs, DueIs
  <2>2. \A row : Started(row, {"EMAIL_VERIFIED"}) = IF row \in DueFor("email_confirmed") THEN 1 ELSE 0
    BY <2>1, StartedIs
  <2> QED
    BY <1>1, <2>2, DueIs, SoundTwo DEF VerifyEmail
<1>11. Sound(<<Did("password_written"), Did("sessions_revoked"),
               Told({"ALL_SESSIONS_REVOKED", "PASSWORD_CHANGED"})>>)
  <2>1. AuditRow("ALL_SESSIONS_REVOKED") # AuditRow("PASSWORD_CHANGED")
    BY DEF AuditRow
  <2>2. /\ RowsOf("ALL_SESSIONS_REVOKED") = DueFor("sessions_revoked")
        /\ RowsOf("PASSWORD_CHANGED") = DueFor("password_written")
    BY RowsOfIs, DueIs
  <2>3. DueFor("password_written") \cap DueFor("sessions_revoked") = {}
    BY <2>1, DueIs
  <2>4. \A row : Started(row, {"ALL_SESSIONS_REVOKED", "PASSWORD_CHANGED"}) =
                   IF row \in DueFor("password_written") \cup DueFor("sessions_revoked")
                   THEN 1 ELSE 0
    BY <2>2, <2>3, StartedIs
  <2>5. \E x, y : /\ DueFor("password_written") \subseteq {x, y}
                  /\ DueFor("sessions_revoked") \subseteq {x, y}
    BY DueIs
  <2>6. PICK x, y : /\ DueFor("password_written") \subseteq {x, y}
                    /\ DueFor("sessions_revoked") \subseteq {x, y}
    BY <2>5
  <2>7. DueFor("") = {}
    BY DueIs
  <2> QED
    BY <1>1, <2>3, <2>4, <2>6, <2>7, SoundThree
<1>12. Sound(ResetPassword) /\ Sound(ChangePassword)
  BY <1>11 DEF ResetPassword, ChangePassword
<1>13. Sound(Logout)
  <2>1. RowsOf("USER_LOGGED_OUT") = DueFor("signed_out")
    BY RowsOfIs, DueIs
  <2>2. \A row : Started(row, {"USER_LOGGED_OUT"}) = IF row \in DueFor("signed_out") THEN 1 ELSE 0
    BY <2>1, StartedIs
  <2> QED
    BY <1>1, <2>2, DueIs, SoundTwo DEF Logout
<1>14. Sound(RevokeSession)
  <2>1. RowsOf("SESSION_REVOKED") = DueFor("session_revoked")
    BY RowsOfIs, DueIs
  <2>2. \A row : Started(row, {"SESSION_REVOKED"}) = IF row \in DueFor("session_revoked") THEN 1 ELSE 0
    BY <2>1, StartedIs
  <2> QED
    BY <1>1, <2>2, DueIs, SoundTwo DEF RevokeSession
<1>15. Sound(RevokeAllOtherSessions)
  <2>1. RowsOf("ALL_SESSIONS_REVOKED") = DueFor("sessions_revoked")
    BY RowsOfIs, DueIs
  <2>2. \A row : Started(row, {"ALL_SESSIONS_REVOKED"}) = IF row \in DueFor("sessions_revoked") THEN 1 ELSE 0
    BY <2>1, StartedIs
  <2> QED
    BY <1>1, <2>2, DueIs, SoundTwo DEF RevokeAllOtherSessions
<1>16. Sound(ChangeRole)
  <2>1. \A row \in Rows : Started(row, {}) = IF row \in DueFor("role_changed") THEN 1 ELSE 0
    BY DueIs, Unheard, StartedIs
  <2>2. DueFor("role_changed") \subseteq {AuditRow("ROLE_CHANGED")}
    BY DueIs
  <2> QED
    BY <1>1, <2>1, <2>2, SoundOne DEF ChangeRole
<1>17. Sound(ChangePermission)
  <2>1. \A row \in Rows :
          Started(row, {}) = IF row \in DueFor("permission_changed") THEN 1 ELSE 0
    BY DueIs, Unheard, StartedIs
  <2>2. DueFor("permission_changed") \subseteq {AuditRow("PERMISSION_CHANGED")}
    BY DueIs
  <2> QED
    BY <1>1, <2>1, <2>2, SoundOne DEF ChangePermission
<1> QED
  BY <1>3, <1>4, <1>5, <1>6, <1>7, <1>8, <1>9, <1>10, <1>12, <1>13, <1>14, <1>15, <1>16,
     <1>17 DEF Kinds, Handlers

\* What a stretch starts.
LEMMA StretchStarts ==
  ASSUME NEW kind \in Kinds, NEW at \in 1 .. Len(Handlers[kind]), NEW row \in Rows
  PROVE  Started(row, Handlers[kind][at].emits) =
           IF /\ at = Len(Handlers[kind])
              /\ \E i \in 1 .. Len(Handlers[kind]) : row \in DueFor(Handlers[kind][i].deed)
           THEN 1 ELSE 0
<1>1. Sound(Handlers[kind])
  BY HandlersSound
<1>2. CASE at = Len(Handlers[kind])
  BY <1>1, <1>2 DEF Sound
<1>3. CASE at # Len(Handlers[kind])
  <2>1. Handlers[kind][at].emits = {}
    BY <1>1, <1>3 DEF Sound
  <2> QED
    BY <2>1, <1>3, StartedIs
<1> QED
  BY <1>2, <1>3

-----------------------------------------------------------------------------
(* Types.                                                                  *)

LEMMA ConstantsAre ==
  /\ Limit \in Nat /\ Limit >= 2 /\ Ttl \in Nat /\ Ttl >= 1
  /\ MaxAttempts \in Nat /\ MaxAttempts >= 1 /\ MaxAttempts < Limit
  /\ LockDuration \in Nat /\ Ttl < LockDuration
  /\ MaxTime \in Nat /\ MaxLogins \in Nat /\ MaxOthers \in Nat /\ MaxFaults \in Nat
  BY ThrottlerAssumption, LockoutAssumption, RequestsBounds

LEMMA InitTInv == Init => TInv
<1> SUFFICES ASSUME Init PROVE TInv
  OBVIOUS
<1> USE ConstantsAre DEF Init
<1>1. bucket \in Bucket /\ account \in Account
  BY DEF Bucket, Empty, Account
<1>2. TypeOK
  BY <1>1 DEF TypeOK, Empty, Never
<1>3. BucketInv
  BY DEF BucketInv, Empty, Alive
<1> QED
  BY <1>2, <1>3 DEF TInv, ArrivalInv

\* What every login does before it is admitted or refused.
Knock(kind) ==
    /\ req = Idle /\ logins < MaxLogins
    /\ logins' = logins + 1
    /\ bucket' = Hit
    /\ now' = now
    /\ \/ Refused /\ Remember(kind, FALSE)
       \/ ~Refused /\ Remember(kind, TRUE)
    /\ UNCHANGED <<others, account, record, faults>>

LEMMA LoginKnocks ==
  ASSUME NEW kind \in Logins, TooMany(kind) \/ Admit(kind)
  PROVE  Knock(kind)
  BY DEF TooMany, Admit, Knock, Room

LEMMA KnockTypes ==
  ASSUME TInv, NEW kind \in Logins, Knock(kind)
  PROVE  /\ BucketInv'
         /\ now' \in 0 .. MaxTime
         /\ bucket' \in Bucket /\ bucket'.hitsEnd <= now' + Ttl /\ bucket'.blockEnd <= now' + Ttl
         /\ account' \in Account /\ account'.lockedUntil <= now' + LockDuration
         /\ pending' \in [Rows -> Nat] /\ owed' \in [DueRows -> Int] /\ lost' \in Int
         /\ logins' \in 0 .. MaxLogins /\ others' \in 0 .. MaxOthers /\ faults' \in 0 .. MaxFaults
         /\ recent' \subseteq Login
         /\ \A login \in recent' : login.number <= logins' /\ login.at \in now' - Ttl .. now'
         /\ burst' \in Int
         /\ campaign' \in [pure : BOOLEAN, surfaced : BOOLEAN]
<1> USE ConstantsAre
<1>1. now \in Nat /\ bucket \in Bucket /\ BucketInv
  BY DEF TInv, TypeOK
<1>2. bucket' \in Bucket /\ BucketInv'
  BY <1>1, RefusedIff DEF Knock
<1>3. bucket'.hitsEnd <= now' + Ttl /\ bucket'.blockEnd <= now' + Ttl
  BY <1>1, <1>2 DEF BucketInv, Alive, Bucket, Knock
<1>4. PICK admitted \in BOOLEAN : Remember(kind, admitted)
  BY DEF Knock
<1> DEFINE new == [number |-> logins', at |-> now, admitted |-> admitted]
<1>5. recent' = recent \cup {new}
  BY <1>4 DEF Remember
<1>6. logins \in Nat /\ logins' = logins + 1 /\ logins' <= MaxLogins /\ now' = now
  BY DEF TInv, TypeOK, Knock
<1>7. recent' \subseteq Login
  BY <1>1, <1>5, <1>6 DEF TInv, TypeOK, Login
<1>8. \A login \in recent' : login.number <= logins' /\ login.at \in now' - Ttl .. now'
  <2>1. ASSUME NEW login \in recent
        PROVE  login.number <= logins' /\ login.at \in now' - Ttl .. now'
    <3>1. login.number \in Nat /\ login.number <= logins /\ login.at \in now - Ttl .. now
      BY DEF TInv, TypeOK, Login
    <3> QED
      BY <3>1, <1>6
  <2>2. new.number <= logins' /\ new.at \in now' - Ttl .. now'
    BY <1>1, <1>6
  <2> QED
    BY <1>5, <2>1, <2>2
<1>9. burst' \in Int
  BY <1>1, <1>4 DEF Remember, TInv, TypeOK
<1>10. campaign' \in [pure : BOOLEAN, surfaced : BOOLEAN]
  BY <1>4 DEF Remember, TInv, TypeOK
<1>11. UNCHANGED <<others, account, record, faults>>
  BY DEF Knock
<1> QED
  BY <1>1, <1>2, <1>3, <1>6, <1>7, <1>8, <1>9, <1>10, <1>11 DEF TInv, TypeOK, record

LEMMA TooManyTInv ==
  ASSUME TInv, NEW kind \in Logins, TooMany(kind)
  PROVE  TInv'
<1>1. Knock(kind)
  BY LoginKnocks
<1>2. req' = req
  BY DEF TooMany
<1>3. promise' \in [until : Nat, refusals : 0 .. Limit + 1]
  <2> USE ConstantsAre
  <2>1. now \in Nat /\ Hit \in Bucket
    BY RefusedIff DEF TInv, TypeOK
  <2>2. now <= Hit.blockEnd
    <3>1. bucket \in Bucket /\ BucketInv
      BY DEF TInv, TypeOK
    <3>2. bucket.blockEnd > now \/ bucket.hits + 1 > Limit
      BY <2>1, <3>1, RefusedIff DEF TooMany
    <3>3. Hit.blockEnd = IF bucket.blockEnd <= now /\ bucket.hits + 1 > Limit
                           THEN now + Ttl ELSE bucket.blockEnd
      BY <2>1, <3>1, HitIs
    <3>4. bucket.blockEnd \in Nat /\ bucket.hits \in Nat
      BY <3>1 DEF Bucket
    <3> QED
      BY <2>1, <3>2, <3>3, <3>4
  <2>3. Hit.blockEnd - now \in Nat
    BY <2>1, <2>2 DEF Bucket
  <2>4. RetryAfter(Hit, now) \in Nat
    BY <2>3, RoundedUp DEF RetryAfter
  <2>5. promise.refusals \in 0 .. Limit + 1
    BY DEF TInv, TypeOK
  <2> QED
    BY <2>1, <2>4, <2>5 DEF TooMany
<1>4. TypeOK'
  BY <1>1, <1>2, <1>3, KnockTypes DEF TypeOK, TInv
<1>5. ArrivalInv'
  BY <1>2 DEF TInv, ArrivalInv
<1> QED
  BY <1>1, <1>4, <1>5, KnockTypes DEF TInv

LEMMA AdmitTInv ==
  ASSUME TInv, NEW kind \in Logins, Admit(kind)
  PROVE  TInv'
<1>1. Knock(kind)
  BY LoginKnocks
<1>2. req' = [kind |-> kind, at |-> 0] /\ promise' = [until |-> 0, refusals |-> 0]
  BY DEF Admit
<1>3. kind \in Kinds
  BY DEF Logins, Kinds
<1>4. req' \in [kind : DOMAIN Handlers, at : Nat] /\ req'.kind = kind /\ req'.at = 0
  BY <1>2, <1>3, KindsAre
<1>5. req'.at <= Len(Handlers[req'.kind])
  BY <1>3, <1>4, HandlersSound DEF Sound
<1>6. TypeOK'
  BY <1>1, <1>2, <1>4, <1>5, KnockTypes, ConstantsAre DEF TypeOK
<1>7. ArrivalInv'
  BY <1>4 DEF ArrivalInv
<1> QED
  BY <1>1, <1>6, <1>7, KnockTypes DEF TInv

LEMMA AcceptTInv ==
  ASSUME TInv, NEW kind \in Others, Accept(kind)
  PROVE  TInv'
<1>1. kind \in Kinds
  BY KindsAre DEF Others
<1>2. req' = [kind |-> kind, at |-> 1]
  BY DEF Accept
<1>3. req' \in [kind : DOMAIN Handlers, at : Nat] /\ req'.kind = kind /\ req'.at = 1
  BY <1>1, <1>2, KindsAre
<1>4. req'.at <= Len(Handlers[req'.kind])
  BY <1>1, <1>3, HandlersSound DEF Sound
<1>5. others' \in 0 .. MaxOthers
  BY ConstantsAre DEF Accept, TInv, TypeOK
<1>6. UNCHANGED <<now, logins, bucket, account, record, faults, history>>
  BY DEF Accept
<1>7. TypeOK'
  BY <1>3, <1>4, <1>5, <1>6 DEF TInv, TypeOK, record, history
<1>8. BucketInv'
  BY <1>6 DEF TInv, BucketInv, Alive
<1> QED
  BY <1>3, <1>7, <1>8 DEF TInv, ArrivalInv

LEMMA FindUserTInv ==
  ASSUME TInv, FindUser
  PROVE  TInv'
<1> DEFINE k == IF Locked /\ req.kind # "login_unknown" THEN "login_locked" ELSE req.kind
<1>1. req' = [kind |-> k, at |-> 1]
  BY DEF FindUser
<1>2. req.kind \in Kinds
  BY KindsAre DEF FindUser, TInv, ArrivalInv, Logins, Kinds
<1>3. k \in Kinds
  BY <1>2 DEF Kinds
<1> HIDE DEF k
<1>4. req' \in [kind : DOMAIN Handlers, at : Nat] /\ req'.kind = k /\ req'.at = 1
  BY <1>1, <1>3, KindsAre
<1>5. req'.at <= Len(Handlers[req'.kind])
  BY <1>3, <1>4, HandlersSound DEF Sound
<1>6. UNCHANGED <<now, bucket, account, record, logins, others, faults, history>>
  BY DEF FindUser
<1>7. TypeOK'
  BY <1>4, <1>5, <1>6 DEF TInv, TypeOK, record, history
<1>8. BucketInv'
  BY <1>6 DEF TInv, BucketInv, Alive
<1> QED
  BY <1>4, <1>7, <1>8 DEF TInv, ArrivalInv

\* What a request under way is.
LEMMA ReqIs ==
  ASSUME TInv, req # Idle
  PROVE  /\ req.kind \in Kinds /\ req.at \in Nat
         /\ req.at <= Len(Handlers[req.kind])
         /\ Len(Handlers[req.kind]) \in Nat
         /\ req = [kind |-> req.kind, at |-> req.at]
<1>1. req \in [kind : DOMAIN Handlers, at : Nat] /\ req.at <= Len(Handlers[req.kind])
  BY DEF TInv, TypeOK
<1> QED
  BY <1>1, KindsAre, HandlersSound DEF Sound

\* The next stretch: which one it is, and where the request stands after it.
LEMMA ProceedIs ==
  ASSUME TInv, Proceed
  PROVE  /\ req.kind \in Kinds
         /\ req.at \in 1 .. Len(Handlers[req.kind])
         /\ Len(Handlers[req.kind]) \in Nat
         /\ req' = IF req.at = Len(Handlers[req.kind])
                     THEN Idle ELSE [kind |-> req.kind, at |-> req.at + 1]
<1>1. req # Idle /\ req.at > 0
  BY DEF Proceed
<1>2. /\ req.kind \in Kinds /\ req.at \in Nat /\ req.at <= Len(Handlers[req.kind])
      /\ Len(Handlers[req.kind]) \in Nat
      /\ req = [kind |-> req.kind, at |-> req.at]
  BY <1>1, ReqIs
<1>3. [req EXCEPT !.at = @ + 1] = [kind |-> req.kind, at |-> req.at + 1]
  BY <1>2
<1>4. req' = IF req.at = Len(Handlers[req.kind]) THEN Idle ELSE [req EXCEPT !.at = @ + 1]
  BY DEF Proceed
<1> QED
  BY <1>1, <1>2, <1>3, <1>4

LEMMA AccountTypes ==
  ASSUME TInv, NEW deed
  PROVE  /\ AccountAfter(deed) \in Account
         /\ AccountAfter(deed).lockedUntil <= now + LockDuration
<1> USE ConstantsAre
<1>1. now \in Nat /\ account \in Account /\ account.lockedUntil <= now + LockDuration
  BY DEF TInv, TypeOK
<1>2. account.failures \in 0 .. MaxAttempts - 1 /\ account.lockedUntil \in Nat
  BY <1>1 DEF Account
<1>3. Attempted(account) \in Account /\ Attempted(account).lockedUntil <= now + LockDuration
  <2>1. CASE LocksAt(account.failures + 1)
    <3>1. Attempted(account) = [failures |-> 0, lockedUntil |-> now + LockDuration]
      BY <2>1 DEF Attempted
    <3> QED
      BY <1>1, <3>1 DEF Account
  <2>2. CASE ~LocksAt(account.failures + 1)
    <3>1. account.failures + 1 \in 0 .. MaxAttempts - 1
      BY <1>2, <2>2 DEF LocksAt
    <3>2. Attempted(account) = [account EXCEPT !.failures = account.failures + 1]
      BY <2>2 DEF Attempted
    <3>3. Attempted(account) = [failures |-> account.failures + 1, lockedUntil |-> account.lockedUntil]
      BY <1>1, <3>2 DEF Account
    <3> QED
      BY <1>1, <1>2, <3>1, <3>3 DEF Account
  <2> QED
    BY <2>1, <2>2
<1>4. /\ [failures |-> 0, lockedUntil |-> 0] \in Account
      /\ [failures |-> 0, lockedUntil |-> 0].lockedUntil <= now + LockDuration
  BY <1>1 DEF Account
<1>5. AccountAfter(deed) \in {Attempted(account), [failures |-> 0, lockedUntil |-> 0], account}
  BY DEF AccountAfter
<1> QED
  BY <1>1, <1>3, <1>4, <1>5

LEMMA ProceedTInv ==
  ASSUME TInv, Proceed
  PROVE  TInv'
<1> DEFINE steps == Handlers[req.kind]
           stretch == steps[req.at]
<1>1. /\ req.kind \in Kinds /\ req.at \in 1 .. Len(steps) /\ Len(steps) \in Nat
      /\ req' = IF req.at = Len(steps) THEN Idle ELSE [kind |-> req.kind, at |-> req.at + 1]
  BY ProceedIs
<1>2. account' = AccountAfter(stretch.deed)
  BY DEF Proceed
<1>3. owed' = [row \in DueRows |-> owed[row] + (IF row \in DueFor(stretch.deed) THEN 1 ELSE 0)]
  BY DEF Proceed
<1>4. pending' = [row \in Rows |-> pending[row] + Started(row, stretch.emits)]
  BY DEF Proceed
<1>5. ASSUME NEW row \in Rows PROVE Started(row, stretch.emits) \in Nat
  <2>1. Started(row, Handlers[req.kind][req.at].emits) =
          IF /\ req.at = Len(Handlers[req.kind])
             /\ \E i \in 1 .. Len(Handlers[req.kind]) : row \in DueFor(Handlers[req.kind][i].deed)
          THEN 1 ELSE 0
    BY <1>1, StretchStarts
  <2> QED
    BY <2>1
<1>6. campaign' \in [pure : BOOLEAN, surfaced : BOOLEAN]
  <2>1. campaign'.pure \in BOOLEAN /\ campaign'.surfaced \in BOOLEAN
    BY DEF Proceed, TInv, TypeOK
  <2> QED
    BY <2>1 DEF Proceed
<1>7. UNCHANGED <<now, bucket, lost, logins, others, faults, recent, burst, promise>>
  BY DEF Proceed
<1> HIDE DEF stretch
<1>8. account' \in Account /\ account'.lockedUntil <= now' + LockDuration
  BY <1>2, <1>7, AccountTypes
<1>9. owed' \in [DueRows -> Int] /\ pending' \in [Rows -> Nat]
  BY <1>3, <1>4, <1>5 DEF TInv, TypeOK
<1>10. CASE req.at = Len(steps)
  <2>1. req' = Idle
    BY <1>1, <1>10
  <2>2. TypeOK'
    BY <1>6, <1>7, <1>8, <1>9, <2>1 DEF TInv, TypeOK
  <2>3. BucketInv'
    BY <1>7 DEF TInv, BucketInv, Alive
  <2> QED
    BY <2>1, <2>2, <2>3 DEF TInv, ArrivalInv
<1>11. CASE req.at # Len(steps)
  <2>1. /\ req' \in [kind : DOMAIN Handlers, at : Nat]
        /\ req'.kind = req.kind /\ req'.at = req.at + 1
    BY <1>1, <1>11, KindsAre
  <2>2. req'.at <= Len(Handlers[req'.kind]) /\ req'.at # 0
    BY <1>1, <1>11, <2>1
  <2>3. TypeOK'
    BY <1>6, <1>7, <1>8, <1>9, <2>1, <2>2 DEF TInv, TypeOK
  <2>4. BucketInv'
    BY <1>7 DEF TInv, BucketInv, Alive
  <2> QED
    BY <2>2, <2>3, <2>4 DEF TInv, ArrivalInv
<1> QED
  BY <1>10, <1>11

LEMMA AbortTInv ==
  ASSUME TInv, Abort
  PROVE  TInv'
<1>1. IsFiniteSet({row \in DueRows : Untold(row)})
  BY RowsFinite, FS_Subset
<1>2. lost' \in Int
  BY <1>1, FS_CardinalityType DEF Abort, TInv, TypeOK
<1>3. owed' \in [DueRows -> Int] /\ pending' \in [Rows -> Nat]
  <2>1. owed \in [DueRows -> Int]
    BY DEF TInv, TypeOK
  <2>2. owed' = [row \in DueRows |-> IF Untold(row) THEN owed[row] - 1 ELSE owed[row]]
    BY DEF Abort
  <2> QED
    BY <2>1, <2>2 DEF Abort, TInv, TypeOK
<1>4. faults' \in 0 .. MaxFaults
  BY ConstantsAre DEF Abort, TInv, TypeOK
<1>5. TypeOK'
  BY <1>2, <1>3, <1>4 DEF Abort, TInv, TypeOK
<1>6. BucketInv'
  BY DEF Abort, TInv, BucketInv, Alive
<1> QED
  BY <1>5, <1>6 DEF TInv, ArrivalInv, Abort

LEMMA InsertTInv ==
  ASSUME TInv, NEW row \in Rows, Insert(row) \/ InsertFails(row)
  PROVE  TInv'
<1>1. pending[row] \in Nat /\ pending[row] > 0 /\ owed[row] \in Int
  BY DEF Insert, InsertFails, TInv, TypeOK, DueRows
<1>2. /\ pending' = [pending EXCEPT ![row] = @ - 1]
      /\ owed' = [owed EXCEPT ![row] = @ - 1]
  BY DEF Insert, InsertFails
<1>3. pending' \in [Rows -> Nat] /\ owed' \in [DueRows -> Int]
  <2>1. pending \in [Rows -> Nat] /\ owed \in [DueRows -> Int]
    BY DEF TInv, TypeOK
  <2>2. pending[row] - 1 \in Nat /\ owed[row] - 1 \in Int
    BY <1>1
  <2> QED
    BY <1>2, <2>1, <2>2
<1>4. lost' \in Int /\ faults' \in 0 .. MaxFaults
  BY ConstantsAre DEF Insert, InsertFails, TInv, TypeOK
<1>5. UNCHANGED <<now, service, logins, others, history>>
  BY DEF Insert, InsertFails
<1>6. TypeOK'
  BY <1>3, <1>4, <1>5 DEF TInv, TypeOK, service, history
<1>7. BucketInv'
  BY <1>5 DEF TInv, BucketInv, Alive, service
<1> QED
  BY <1>5, <1>6, <1>7 DEF TInv, ArrivalInv, service

\* What is left of a bucket after a tick: a key either stays as it is or is gone.
LEMMA TickKeys ==
  ASSUME TInv, Tick
  PROVE  /\ now \in Nat /\ now' = now + 1 /\ now' \in 0 .. MaxTime
         /\ bucket' \in Bucket /\ BucketInv'
         /\ bucket.hitsEnd < now' => bucket'.hits = 0 /\ bucket'.hitsEnd = 0
         /\ bucket.hitsEnd >= now' =>
              bucket'.hits = bucket.hits /\ bucket'.hitsEnd = bucket.hitsEnd
         /\ bucket.blockEnd < now' => bucket'.blockEnd = 0
         /\ bucket.blockEnd >= now' => bucket'.blockEnd = bucket.blockEnd
<1> USE ConstantsAre
<1>1. now \in 0 .. MaxTime /\ now < MaxTime /\ now' = now + 1 /\ bucket' = Swept(bucket, now')
  BY DEF TInv, TypeOK, Tick
<1>2. bucket.hits \in Nat /\ bucket.hitsEnd \in Nat /\ bucket.blockEnd \in Nat
  BY DEF TInv, TypeOK, Bucket
<1>3. bucket' = [hits     |-> IF bucket.hitsEnd < now' THEN 0 ELSE bucket.hits,
                 hitsEnd  |-> IF bucket.hitsEnd < now' THEN 0 ELSE bucket.hitsEnd,
                 blockEnd |-> IF bucket.blockEnd < now' THEN 0 ELSE bucket.blockEnd]
  BY <1>1 DEF Swept
<1>4. bucket' \in Bucket
  BY <1>2, <1>3 DEF Bucket
<1>5. BucketInv
  BY DEF TInv
<1>6. IF bucket'.hits = 0 THEN bucket'.hitsEnd = 0 ELSE bucket'.hitsEnd \in now' .. now' + Ttl
  BY <1>1, <1>2, <1>3, <1>5 DEF BucketInv
<1>7. bucket'.blockEnd = 0 \/ bucket'.blockEnd \in now' .. now' + Ttl
  BY <1>1, <1>2, <1>3, <1>5 DEF BucketInv, Alive
<1>8. BucketInv'
  BY <1>6, <1>7 DEF BucketInv, Alive
<1> QED
  BY <1>1, <1>2, <1>3, <1>4, <1>8

LEMMA TickTInv ==
  ASSUME TInv, Tick
  PROVE  TInv'
<1> USE ConstantsAre
<1>1. /\ now \in Nat /\ now' = now + 1 /\ now' \in 0 .. MaxTime
      /\ bucket' \in Bucket /\ BucketInv'
  BY TickKeys
<1>2. bucket'.hitsEnd <= now' + Ttl /\ bucket'.blockEnd <= now' + Ttl
  BY <1>1 DEF BucketInv, Alive, Bucket
<1>3. UNCHANGED <<account, req, record, logins, others, faults, campaign>>
  BY DEF Tick
<1>4. account'.lockedUntil <= now' + LockDuration
  BY <1>1, <1>3 DEF TInv, TypeOK, Account
<1>5. recent' = {login \in recent : login.at >= now' - Ttl}
  BY DEF Tick
<1>6. recent' \subseteq Login
  BY <1>5 DEF TInv, TypeOK
<1>7. \A login \in recent' : login.number <= logins' /\ login.at \in now' - Ttl .. now'
  <2> TAKE login \in recent'
  <2>1. login \in recent /\ login.at >= now' - Ttl
    BY <1>5
  <2>2. login.number <= logins /\ login.at \in now - Ttl .. now
    BY <2>1 DEF TInv, TypeOK
  <2> QED
    BY <1>1, <1>3, <2>1, <2>2
<1>8. burst' \in Int
  <2>1. burst' \in {Never, burst}
    BY DEF Tick
  <2>2. Never \in Int /\ burst \in Int
    BY DEF Never, TInv, TypeOK
  <2> QED
    BY <2>1, <2>2
<1>9. promise' \in [until : Nat, refusals : 0 .. Limit + 1]
  BY DEF Tick, TInv, TypeOK
<1>10. TypeOK'
  BY <1>1, <1>2, <1>3, <1>4, <1>6, <1>7, <1>8, <1>9 DEF TInv, TypeOK, record
<1> QED
  BY <1>1, <1>3, <1>10 DEF TInv, ArrivalInv

LEMMA TInvStep == TInv /\ [Next]_vars => TInv'
<1> SUFFICES ASSUME TInv, [Next]_vars PROVE TInv'
  OBVIOUS
<1>1. ASSUME NEW kind \in Logins, TooMany(kind) PROVE TInv'
  BY <1>1, TooManyTInv
<1>2. ASSUME NEW kind \in Logins, Admit(kind) PROVE TInv'
  BY <1>2, AdmitTInv
<1>3. ASSUME NEW kind \in Others, Accept(kind) PROVE TInv'
  BY <1>3, AcceptTInv
<1>4. CASE FindUser
  BY <1>4, FindUserTInv
<1>5. CASE Proceed
  BY <1>5, ProceedTInv
<1>6. CASE Abort
  BY <1>6, AbortTInv
<1>7. ASSUME NEW row \in Rows, Insert(row) \/ InsertFails(row) PROVE TInv'
  BY <1>7, InsertTInv
<1>8. CASE Tick
  BY <1>8, TickTInv
<1>9. CASE UNCHANGED vars
  BY <1>9 DEF vars, service, record, history, TInv, TypeOK, BucketInv, Alive, ArrivalInv
<1> QED
  BY <1>1, <1>2, <1>3, <1>4, <1>5, <1>6, <1>7, <1>8, <1>9 DEF Next, Arrive, Quiet

LEMMA TInvAlways == Spec => []TInv
  BY InitTInv, TInvStep, PTL DEF Spec

\* Rows, requests and history keep their types; no key of the bucket and no lock lives
\* longer than its duration, and the failed attempts stop short of the number that
\* locks (redis-throttler-storage.service.ts:28-46, users.repository.ts:54-69).
THEOREM RequestsTypeCorrect == Spec => []TypeOK
<1>1. TInv => TypeOK
  BY DEF TInv
<1> QED
  BY <1>1, TInvAlways, PTL

-----------------------------------------------------------------------------
(* What a refused client was promised.                                     *)

\* While the client counts its refusals no block outlasts the promise, a block runs for
\* nobody else, and either the block covers the window that was exceeded, or the hits of
\* the present window are refusals, fewer than the last one.
PromiseInv ==
    /\ promise.refusals > 0 => bucket.blockEnd <= promise.until
    /\ bucket.blockEnd > now => promise.refusals > 0
    /\ promise.refusals \in 1 .. Limit =>
         \/ bucket.hits > Limit /\ bucket.hitsEnd <= bucket.blockEnd
         \/ bucket.hits <= promise.refusals - 1

LEMMA InitPromise == Init => PromiseInv
  BY DEF Init, PromiseInv, Empty

\* The arithmetic of a login.
LEMMA KnockIs ==
  ASSUME TInv, NEW kind \in Logins, Knock(kind)
  PROVE  /\ now \in Nat /\ now' = now
         /\ bucket.hits \in Nat /\ bucket.hitsEnd \in Nat /\ bucket.blockEnd \in Nat
         /\ bucket.hitsEnd <= now + Ttl /\ bucket.blockEnd <= now + Ttl
         /\ bucket.hits = 0 => bucket.hitsEnd = 0
         /\ bucket.hits # 0 => bucket.hitsEnd >= now
         /\ Hit \in Bucket /\ bucket' = Hit
         /\ bucket'.hits = bucket.hits + 1
         /\ bucket'.hitsEnd = IF bucket.hits = 0 THEN now + Ttl ELSE bucket.hitsEnd
         /\ bucket'.blockEnd = IF bucket.blockEnd <= now /\ bucket.hits + 1 > Limit
                                 THEN now + Ttl ELSE bucket.blockEnd
         /\ Refused <=> bucket.blockEnd > now \/ bucket.hits + 1 > Limit
<1> USE ConstantsAre
<1>1. now \in Nat /\ bucket \in Bucket /\ BucketInv
  BY DEF TInv, TypeOK
<1>2. Hit \in Bucket /\ (Refused <=> bucket.blockEnd > now \/ bucket.hits + 1 > Limit)
  BY <1>1, RefusedIff
<1>3. bucket' = [hits     |-> bucket.hits + 1,
                 hitsEnd  |-> IF bucket.hits = 0 THEN now + Ttl ELSE bucket.hitsEnd,
                 blockEnd |-> IF bucket.blockEnd <= now /\ bucket.hits + 1 > Limit
                                THEN now + Ttl ELSE bucket.blockEnd]
  BY <1>1, HitIs DEF Knock
<1>4. /\ bucket.hitsEnd <= now + Ttl /\ bucket.blockEnd <= now + Ttl
      /\ bucket.hits = 0 => bucket.hitsEnd = 0
      /\ bucket.hits # 0 => bucket.hitsEnd >= now
  BY <1>1 DEF TInv, TypeOK, BucketInv
<1>5. bucket' = Hit /\ now' = now
  BY DEF Knock
<1> QED
  BY <1>1, <1>2, <1>3, <1>4, <1>5 DEF Bucket

LEMMA RefusedPromise ==
  ASSUME TInv, PromiseInv, NEW kind \in Logins, TooMany(kind)
  PROVE  PromiseInv'
<1> USE ConstantsAre
<1>1. Knock(kind)
  BY LoginKnocks
<1>2. promise' = [until |-> now + RetryAfter(Hit, now),
                  refusals |-> IF promise.refusals > Limit
                                 THEN promise.refusals ELSE promise.refusals + 1]
  BY DEF TooMany
<1>3. promise.refusals \in 0 .. Limit + 1
  BY DEF TInv, TypeOK
<1>4. promise'.refusals = IF promise.refusals > Limit
                            THEN promise.refusals ELSE promise.refusals + 1
  BY <1>2
<1>5. bucket.blockEnd > now \/ bucket.hits + 1 > Limit
  BY <1>1, KnockIs DEF TooMany
<1>6. bucket'.blockEnd > now
  BY <1>1, <1>5, KnockIs
<1>7. RetryAfter(Hit, now) \in Nat /\ RetryAfter(Hit, now) >= bucket'.blockEnd - now
  <2>1. Hit.blockEnd - now \in Nat
    BY <1>1, <1>6, KnockIs DEF Bucket
  <2> QED
    BY <1>1, <2>1, RoundedUp, KnockIs DEF RetryAfter
<1>8. bucket'.blockEnd <= promise'.until
  <2>1. promise'.until = now + RetryAfter(Hit, now)
    BY <1>2
  <2>2. bucket'.blockEnd \in Nat /\ now \in Nat
    BY <1>1, KnockIs
  <2> QED
    BY <1>7, <2>1, <2>2
<1>9. promise'.refusals > 0
  BY <1>3, <1>4
<1>10. ASSUME promise'.refusals \in 1 .. Limit
       PROVE  \/ bucket'.hits > Limit /\ bucket'.hitsEnd <= bucket'.blockEnd
              \/ bucket'.hits <= promise'.refusals - 1
  <2>1. promise'.refusals = promise.refusals + 1
    BY <1>3, <1>4, <1>10
  <2>2. CASE promise.refusals = 0
    <3>1. bucket.blockEnd <= now
      BY <1>1, <2>2, KnockIs DEF PromiseInv
    <3> QED
      BY <1>1, <1>5, <3>1, KnockIs
  <2>3. CASE promise.refusals # 0
    <3>1. promise.refusals \in 1 .. Limit
      BY <1>3, <1>10, <2>1, <2>3
    <3>2. CASE bucket.hits > Limit /\ bucket.hitsEnd <= bucket.blockEnd
      BY <1>1, <3>2, KnockIs
    <3>3. CASE bucket.hits <= promise.refusals - 1
      <4>1. bucket'.hits <= promise'.refusals - 1
        BY <1>1, <1>3, <2>1, <3>3, KnockIs
      <4> QED
        BY <4>1
    <3> QED
      BY <3>1, <3>2, <3>3 DEF PromiseInv
  <2> QED
    BY <2>2, <2>3
<1> QED
  BY <1>8, <1>9, <1>10 DEF PromiseInv

LEMMA PromiseStep == TInv /\ PromiseInv /\ [Next]_vars => PromiseInv'
<1> SUFFICES ASSUME TInv, PromiseInv, [Next]_vars PROVE PromiseInv'
  OBVIOUS
<1> USE ConstantsAre
<1>1. ASSUME NEW kind \in Logins, TooMany(kind) PROVE PromiseInv'
  BY <1>1, RefusedPromise
<1>2. ASSUME NEW kind \in Logins, Admit(kind) PROVE PromiseInv'
  <2>1. Knock(kind)
    BY <1>2, LoginKnocks
  <2>2. promise' = [until |-> 0, refusals |-> 0]
    BY <1>2 DEF Admit
  <2>3. bucket.blockEnd <= now /\ bucket.hits + 1 <= Limit
    BY <1>2, <2>1, KnockIs DEF Admit
  <2>4. bucket'.blockEnd <= now'
    BY <2>1, <2>3, KnockIs
  <2>5. bucket'.blockEnd \in Nat /\ now' \in Nat
    BY <2>1, <2>3, KnockIs
  <2> QED
    BY <2>2, <2>4, <2>5 DEF PromiseInv
<1>3. CASE Tick
  <2>1. promise' = IF promise.until < now' THEN [promise EXCEPT !.until = 0] ELSE promise
    BY <1>3 DEF Tick
  <2>2. promise.until \in Nat /\ promise.refusals \in 0 .. Limit + 1
    BY DEF TInv, TypeOK
  <2>3. promise'.refusals = promise.refusals
    BY <2>1 DEF TInv, TypeOK
  <2>4. promise'.until = IF promise.until < now' THEN 0 ELSE promise.until
    BY <2>1 DEF TInv, TypeOK
  <2>5. bucket.hits \in Nat /\ bucket.hitsEnd \in Nat /\ bucket.blockEnd \in Nat
    BY DEF TInv, TypeOK, Bucket
  <2>6. promise'.refusals > 0 => bucket'.blockEnd <= promise'.until
    BY <1>3, <2>2, <2>3, <2>4, <2>5, TickKeys DEF PromiseInv
  <2>7. bucket'.blockEnd > now' => promise'.refusals > 0
    BY <1>3, <2>2, <2>3, <2>5, TickKeys DEF PromiseInv
  <2>8. promise'.refusals \in 1 .. Limit =>
          \/ bucket'.hits > Limit /\ bucket'.hitsEnd <= bucket'.blockEnd
          \/ bucket'.hits <= promise'.refusals - 1
    BY <1>3, <2>2, <2>3, <2>5, TickKeys DEF PromiseInv
  <2> QED
    BY <2>6, <2>7, <2>8 DEF PromiseInv
<1>4. ASSUME UNCHANGED <<now, bucket, promise>> PROVE PromiseInv'
  BY <1>4 DEF PromiseInv
<1>5. ASSUME NEW kind \in Others, Accept(kind) PROVE PromiseInv'
  BY <1>4, <1>5 DEF Accept, history
<1>6. CASE FindUser \/ Proceed \/ Abort
  BY <1>4, <1>6 DEF FindUser, Proceed, Abort, history
<1>7. ASSUME NEW row \in Rows, Insert(row) \/ InsertFails(row) PROVE PromiseInv'
  BY <1>4, <1>7 DEF Insert, InsertFails, service, history
<1>8. CASE UNCHANGED vars
  BY <1>4, <1>8 DEF vars, service, history
<1> QED
  BY <1>1, <1>2, <1>3, <1>5, <1>6, <1>7, <1>8 DEF Next, Arrive, Quiet

\* A client that was refused, did not fill a whole window while it was, and then waits
\* for longer than Retry-After says, is let in.
THEOREM WaitingIsHonoured == Spec => RetryAfterHonoured
<1>1. TInv /\ PromiseInv /\ [Next]_vars =>
        [\A kind \in Logins : TooMany(kind) =>
           ~(promise.refusals \in 1 .. Limit /\ promise.until < now)]_vars
  <2> SUFFICES ASSUME TInv, PromiseInv, NEW kind \in Logins, TooMany(kind),
                      promise.refusals \in 1 .. Limit, promise.until < now
               PROVE  FALSE
    OBVIOUS
  <2> USE ConstantsAre
  <2>1. Knock(kind)
    BY LoginKnocks
  <2>2. bucket.blockEnd > now \/ bucket.hits + 1 > Limit
    BY <2>1, KnockIs DEF TooMany
  <2>3. promise.until \in Nat
    BY DEF TInv, TypeOK
  <2>4. bucket.blockEnd < now
    BY <2>1, <2>3, KnockIs DEF PromiseInv
  <2>5. bucket.hits + 1 > Limit
    BY <2>1, <2>2, <2>4, KnockIs
  <2>6. ~(bucket.hits <= promise.refusals - 1)
    BY <2>1, <2>5, KnockIs
  <2>7. bucket.hits > Limit /\ bucket.hitsEnd <= bucket.blockEnd
    BY <2>6 DEF PromiseInv
  <2> QED
    BY <2>1, <2>4, <2>7, KnockIs
<1> QED
  BY <1>1, TInvAlways, InitPromise, PromiseStep, PTL DEF Spec, RetryAfterHonoured

-----------------------------------------------------------------------------
(* The logins of a window.                                                 *)

WindowStart == bucket.hitsEnd - Ttl
Window == {login \in recent : login.at >= WindowStart}
After == {login \in recent : login.at > WindowStart}
Before == {login \in recent : login.at < WindowStart}

Admitted(S) == Cardinality({login \in S : login.admitted})

\* Every hit of the present window is a recent login, and a block began when more than
\* Limit of them were recent.
BurstInv ==
    /\ bucket.hits > 0 => bucket.hits <= Cardinality(Window)
    /\ bucket.hits = 0 => \A login \in recent : login.at < now
    /\ bucket.blockEnd > 0 => burst >= bucket.blockEnd - Ttl

\* The window admits Limit logins at most, the one that opened it among them; of what
\* was admitted before it, one at least is out of reach: the one that opened the window
\* before.
AdmittedInv ==
    /\ bucket.hits = 0 => Admitted(recent) <= Limit - 1
    /\ bucket.hits > 0 =>
         /\ Admitted(Window) <= bucket.hits /\ Admitted(Window) <= Limit
         /\ Admitted(After) <= bucket.hits - 1 /\ Admitted(After) <= Limit - 1
         /\ Admitted(Before) <= Limit - 1

WindowInv == IsFiniteSet(recent) /\ BurstInv /\ AdmittedInv

LEMMA AdmittedSubset ==
  ASSUME NEW S, IsFiniteSet(S), NEW T, T \subseteq S
  PROVE  Admitted(T) \in Nat /\ Admitted(S) \in Nat /\ Admitted(T) <= Admitted(S)
<1> DEFINE A == {login \in S : login.admitted}
           B == {login \in T : login.admitted}
<1>1. B \subseteq A /\ A \subseteq S
  OBVIOUS
<1> HIDE DEF A, B
<1>2. IsFiniteSet(A)
  BY <1>1, FS_Subset
<1>3. IsFiniteSet(B) /\ Cardinality(B) <= Cardinality(A)
  BY <1>1, <1>2, FS_Subset
<1>4. Cardinality(A) \in Nat /\ Cardinality(B) \in Nat
  BY <1>2, <1>3, FS_CardinalityType
<1>5. Admitted(S) = Cardinality(A) /\ Admitted(T) = Cardinality(B)
  BY DEF Admitted, A, B
<1> QED
  BY <1>3, <1>4, <1>5

LEMMA AdmittedUnion ==
  ASSUME NEW S, IsFiniteSet(S), NEW T, IsFiniteSet(T)
  PROVE  Admitted(S \cup T) <= Admitted(S) + Admitted(T)
<1> DEFINE A == {login \in S : login.admitted}
           B == {login \in T : login.admitted}
           C == {login \in S \cup T : login.admitted}
<1>1. C = A \cup B /\ A \subseteq S /\ B \subseteq T
  OBVIOUS
<1>2. Admitted(S) = Cardinality(A) /\ Admitted(T) = Cardinality(B) /\ Admitted(S \cup T) = Cardinality(C)
  BY DEF Admitted
<1> HIDE DEF A, B, C
<1>3. IsFiniteSet(A) /\ IsFiniteSet(B)
  BY <1>1, FS_Subset
<1>4. IsFiniteSet(A \cap B)
  BY <1>3, FS_Intersection
<1>5. Cardinality(C) = Cardinality(A) + Cardinality(B) - Cardinality(A \cap B)
  BY <1>1, <1>3, FS_Union
<1>6. Cardinality(A) \in Nat /\ Cardinality(B) \in Nat /\ Cardinality(A \cap B) \in Nat
  BY <1>3, <1>4, FS_CardinalityType
<1> QED
  BY <1>2, <1>5, <1>6

LEMMA AdmittedOne ==
  ASSUME NEW login
  PROVE  /\ IsFiniteSet({login})
         /\ Admitted({login}) \in Nat /\ Admitted({login}) <= 1
         /\ ~login.admitted => Admitted({login}) = 0
<1> DEFINE A == {l \in {login} : l.admitted}
<1>1. A = IF login.admitted THEN {login} ELSE {}
  OBVIOUS
<1>2. Admitted({login}) = Cardinality(A)
  BY DEF Admitted
<1> HIDE DEF A
<1>3. Cardinality({login}) = 1 /\ Cardinality({}) = 0 /\ IsFiniteSet({login})
  BY FS_EmptySet, FS_Singleton
<1>4. CASE login.admitted
  <2>1. Admitted({login}) = 1
    BY <1>1, <1>2, <1>3, <1>4
  <2> QED
    BY <1>3, <1>4, <2>1
<1>5. CASE ~login.admitted
  <2>1. Admitted({login}) = 0
    BY <1>1, <1>2, <1>3, <1>5
  <2> QED
    BY <1>3, <2>1
<1> QED
  BY <1>4, <1>5

\* A login is not among the recent ones before it comes.
LEMMA KnockAdds ==
  ASSUME TInv, NEW kind \in Logins, Knock(kind), NEW admitted \in BOOLEAN, Remember(kind, admitted)
  PROVE  \E new : /\ new \notin recent /\ recent' = recent \cup {new}
                  /\ new.at = now /\ new.admitted = admitted
<1> DEFINE new == [number |-> logins', at |-> now, admitted |-> admitted]
<1>1. recent' = recent \cup {new}
  BY DEF Remember
<1>2. logins \in Nat /\ logins' = logins + 1
  BY DEF TInv, TypeOK, Knock
<1>3. \A login \in recent : login.number <= logins
  BY DEF TInv, TypeOK
<1>4. new \notin recent
  <2> SUFFICES ASSUME new \in recent PROVE FALSE
    OBVIOUS
  <2>1. new.number <= logins
    BY <1>3
  <2> QED
    BY <1>2, <2>1
<1> QED
  BY <1>1, <1>4

LEMMA KnockBurst ==
  ASSUME TInv, WindowInv, NEW kind \in Logins, Knock(kind)
  PROVE  /\ IsFiniteSet(recent') /\ BurstInv'
         /\ bucket'.hits <= Cardinality(recent')
<1> USE ConstantsAre
<1>1. PICK admitted \in BOOLEAN : Remember(kind, admitted)
  BY DEF Knock
<1>2. PICK new : /\ new \notin recent /\ recent' = recent \cup {new}
                 /\ new.at = now /\ new.admitted = admitted
  BY <1>1, KnockAdds
<1>3. IsFiniteSet(recent')
  BY <1>2, FS_AddElement DEF WindowInv
<1>4. Window' \subseteq recent' /\ IsFiniteSet(Window')
  <2>1. Window' \subseteq recent'
    BY DEF Window
  <2> QED
    BY <1>3, <2>1, FS_Subset
<1>5. bucket'.hits > 0 /\ bucket'.hits <= Cardinality(Window')
  <2>1. CASE bucket.hits = 0
    <3>1. bucket'.hits = 1 /\ WindowStart' = now
      BY <2>1, KnockIs DEF WindowStart
    <3>2. new \in Window'
      BY <1>2, <3>1, KnockIs DEF Window
    <3>3. Cardinality(Window') \in Nat /\ Cardinality(Window') # 0
      BY <1>4, <3>2, FS_CardinalityType, FS_EmptySet
    <3> QED
      BY <3>1, <3>3
  <2>2. CASE bucket.hits # 0
    <3>1. WindowStart' = WindowStart /\ bucket'.hits = bucket.hits + 1 /\ WindowStart <= now
      BY <2>2, KnockIs DEF WindowStart
    <3>2. Window' = Window \cup {new}
      BY <1>2, <3>1, KnockIs DEF Window
    <3>3. new \notin Window /\ IsFiniteSet(Window)
      BY <1>2, FS_Subset DEF Window, WindowInv
    <3>4. Cardinality(Window') = Cardinality(Window) + 1 /\ Cardinality(Window) \in Nat
      BY <3>2, <3>3, FS_AddElement, FS_CardinalityType
    <3>5. bucket.hits \in Nat /\ bucket.hits <= Cardinality(Window)
      BY <2>2, KnockIs DEF WindowInv, BurstInv
    <3> QED
      BY <3>1, <3>4, <3>5
  <2> QED
    BY <2>1, <2>2
<1>6. Cardinality(Window') \in Nat /\ Cardinality(recent') \in Nat
      /\ Cardinality(Window') <= Cardinality(recent')
  BY <1>3, <1>4, FS_Subset, FS_CardinalityType
<1>7. bucket'.hits \in Nat
  BY KnockIs
<1>8. bucket'.hits <= Cardinality(recent')
  BY <1>5, <1>6, <1>7
<1>9. burst' = IF Cardinality(recent') > Limit THEN now ELSE burst
  BY <1>1 DEF Remember
<1>10. burst \in Int
  BY DEF TInv, TypeOK
<1>11. ASSUME bucket'.blockEnd > 0 PROVE burst' >= bucket'.blockEnd - Ttl
  <2>1. CASE bucket.blockEnd <= now /\ bucket.hits + 1 > Limit
    <3>1. bucket'.blockEnd = now + Ttl /\ bucket'.hits > Limit
      BY <2>1, KnockIs
    <3>2. burst' = now
      BY <1>6, <1>7, <1>8, <1>9, <3>1
    <3> QED
      BY <3>1, <3>2, KnockIs
  <2>2. CASE ~(bucket.blockEnd <= now /\ bucket.hits + 1 > Limit)
    <3>1. bucket'.blockEnd = bucket.blockEnd /\ bucket.blockEnd <= now + Ttl
      BY <2>2, KnockIs
    <3>2. burst >= bucket.blockEnd - Ttl
      BY <1>11, <3>1 DEF WindowInv, BurstInv
    <3>3. bucket.blockEnd \in Nat /\ now \in Nat
      BY KnockIs
    <3>4. now >= bucket.blockEnd - Ttl
      BY <3>1, <3>3
    <3>5. burst' \in {now, burst}
      BY <1>9
    <3> QED
      BY <3>1, <3>2, <3>4, <3>5
  <2> QED
    BY <2>1, <2>2
<1> QED
  BY <1>3, <1>5, <1>7, <1>8, <1>11 DEF BurstInv

LEMMA KnockAdmitted ==
  ASSUME TInv, WindowInv, NEW kind \in Logins, Knock(kind)
  PROVE  AdmittedInv'
<1> USE ConstantsAre
<1>1. PICK admitted \in BOOLEAN : /\ Remember(kind, admitted)
                                  /\ admitted => bucket.hits + 1 <= Limit
  <2>1. /\ Refused <=> bucket.blockEnd > now \/ bucket.hits + 1 > Limit
        /\ bucket.hits \in Nat
    BY KnockIs
  <2>2. CASE Refused /\ Remember(kind, FALSE)
    BY <2>2, Zenon
  <2>3. CASE ~Refused /\ Remember(kind, TRUE)
    <3>1. bucket.hits + 1 <= Limit
      BY <2>1, <2>3
    <3> QED
      BY <2>3, <3>1, Zenon
  <2> QED
    BY <2>2, <2>3 DEF Knock
<1>2. PICK new : /\ new \notin recent /\ recent' = recent \cup {new}
                 /\ new.at = now /\ new.admitted = admitted
  BY <1>1, KnockAdds
<1>3. /\ IsFiniteSet({new}) /\ Admitted({new}) \in Nat /\ Admitted({new}) <= 1
      /\ ~admitted => Admitted({new}) = 0
  BY <1>2, AdmittedOne
<1>4. IsFiniteSet(recent) /\ BurstInv /\ AdmittedInv
  BY DEF WindowInv
<1>5. bucket'.hits = bucket.hits + 1 /\ bucket.hits \in Nat
  BY KnockIs
<1>6. CASE bucket.hits = 0
  <2>1. WindowStart' = now /\ now \in Nat
    BY <1>6, KnockIs DEF WindowStart
  <2>2. \A login \in recent : login.at < now /\ login.at \in Int
    BY <1>4, <1>6 DEF BurstInv, TInv, TypeOK
  <2>3. Window' \subseteq {new} /\ After' \subseteq {} /\ Before' \subseteq recent
    BY <1>2, <2>1, <2>2 DEF Window, After, Before
  <2>4. /\ Admitted(Window') \in Nat /\ Admitted(Window') <= 1
        /\ Admitted(After') = 0
        /\ Admitted(Before') \in Nat /\ Admitted(Before') <= Limit - 1
    <3>1. Admitted(Window') \in Nat /\ Admitted(Window') <= Admitted({new})
      BY <1>3, <2>3, AdmittedSubset
    <3>2. Admitted({}) = 0
      BY FS_EmptySet DEF Admitted
    <3>3. After' = {}
      BY <2>3
    <3>4. /\ Admitted(Before') \in Nat /\ Admitted(recent) \in Nat
          /\ Admitted(Before') <= Admitted(recent)
      BY <1>4, <2>3, AdmittedSubset
    <3>5. Admitted(recent) <= Limit - 1
      BY <1>4, <1>6 DEF AdmittedInv
    <3> QED
      BY <1>3, <3>1, <3>2, <3>3, <3>4, <3>5
  <2>5. /\ Admitted(Window)' <= bucket'.hits /\ Admitted(Window)' <= Limit
        /\ Admitted(After)' <= bucket'.hits - 1 /\ Admitted(After)' <= Limit - 1
        /\ Admitted(Before)' <= Limit - 1
    BY <1>5, <1>6, <2>4 DEF Admitted
  <2> QED
    BY <1>5, <2>5 DEF AdmittedInv
<1>7. CASE bucket.hits # 0
  <2>1. WindowStart' = WindowStart /\ WindowStart <= now /\ WindowStart \in Int /\ now \in Nat
    BY <1>7, KnockIs DEF WindowStart
  <2>2. Window' = Window \cup {new} /\ After' \subseteq After \cup {new} /\ Before' = Before
    BY <1>2, <2>1 DEF Window, After, Before
  <2>3. Window \subseteq recent /\ After \subseteq recent /\ Before \subseteq recent
    BY DEF Window, After, Before
  <2>4. IsFiniteSet(Window) /\ IsFiniteSet(After) /\ IsFiniteSet(After \cup {new})
    BY <1>3, <1>4, <2>3, FS_Subset, FS_Union
  <2>5. /\ Admitted(Window) <= bucket.hits /\ Admitted(Window) <= Limit
        /\ Admitted(After) <= bucket.hits - 1 /\ Admitted(After) <= Limit - 1
        /\ Admitted(Before) <= Limit - 1
    BY <1>4, <1>5, <1>7 DEF AdmittedInv
  <2>6. Admitted(Window) \in Nat /\ Admitted(After) \in Nat
    BY <2>4, AdmittedSubset
  <2>7. Admitted(Window \cup {new}) <= Admitted(Window) + Admitted({new})
    BY <1>3, <2>4, AdmittedUnion
  <2>8. Admitted(After') <= Admitted(After) + Admitted({new})
    <3>1. /\ Admitted(After') \in Nat /\ Admitted(After \cup {new}) \in Nat
          /\ Admitted(After') <= Admitted(After \cup {new})
      BY <2>2, <2>4, AdmittedSubset
    <3>2. Admitted(After \cup {new}) <= Admitted(After) + Admitted({new})
      BY <1>3, <2>4, AdmittedUnion
    <3> QED
      BY <1>3, <2>6, <3>1, <3>2
  <2>9. Admitted(Window') \in Nat /\ Admitted(After') \in Nat
    <3>1. IsFiniteSet(Window')
      BY <1>3, <2>2, <2>4, FS_Union
    <3> QED
      BY <2>2, <2>4, <3>1, AdmittedSubset
  <2>10. /\ Admitted(Window') <= bucket'.hits /\ Admitted(Window') <= Limit
         /\ Admitted(After') <= bucket'.hits - 1 /\ Admitted(After') <= Limit - 1
    <3>1. CASE admitted
      <4>1. bucket.hits + 1 <= Limit
        BY <1>1, <3>1
      <4> QED
        BY <1>3, <1>5, <2>2, <2>5, <2>6, <2>7, <2>8, <2>9, <4>1
    <3>2. CASE ~admitted
      <4>1. Admitted({new}) = 0
        BY <1>3, <3>2
      <4> QED
        BY <1>5, <2>2, <2>5, <2>6, <2>7, <2>8, <2>9, <4>1
    <3> QED
      BY <3>1, <3>2
  <2>11. Admitted(Before') <= Limit - 1
    BY <2>2, <2>5
  <2>12. /\ Admitted(Window)' <= bucket'.hits /\ Admitted(Window)' <= Limit
         /\ Admitted(After)' <= bucket'.hits - 1 /\ Admitted(After)' <= Limit - 1
         /\ Admitted(Before)' <= Limit - 1
    BY <2>10, <2>11 DEF Admitted
  <2> QED
    BY <1>5, <2>12 DEF AdmittedInv
<1> QED
  BY <1>6, <1>7

LEMMA TickWindow ==
  ASSUME TInv, WindowInv, Tick
  PROVE  WindowInv'
<1> USE ConstantsAre
<1>1. recent' = {login \in recent : login.at >= now' - Ttl}
  BY DEF Tick
<1>2. /\ now \in Nat /\ now' = now + 1
      /\ bucket.hits \in Nat /\ bucket.hitsEnd \in Nat /\ bucket.blockEnd \in Nat
  BY TickKeys DEF TInv, TypeOK, Bucket
<1>3. \A login \in recent : login.at \in Int /\ login.at <= now
  BY DEF TInv, TypeOK
<1>4. IsFiniteSet(recent) /\ BurstInv /\ AdmittedInv
  BY DEF WindowInv
<1>5. recent' \subseteq recent /\ IsFiniteSet(recent')
  <2>1. recent' \subseteq recent
    BY <1>1
  <2> QED
    BY <1>4, <2>1, FS_Subset
<1>6. Window \subseteq recent /\ After \subseteq recent /\ Before \subseteq recent
  BY DEF Window, After, Before
<1>7. IsFiniteSet(Window) /\ IsFiniteSet(After) /\ IsFiniteSet(Before)
  BY <1>4, <1>6, FS_Subset
<1>8. \A login \in recent' : login.at < now'
  BY <1>2, <1>3, <1>5
<1>9. ASSUME bucket'.blockEnd > 0 PROVE burst' >= bucket'.blockEnd - Ttl
  <2>1. bucket'.blockEnd = bucket.blockEnd /\ bucket.blockEnd >= now'
    BY <1>2, <1>9, TickKeys
  <2>2. burst >= bucket.blockEnd - Ttl /\ burst \in Int
    BY <1>2, <1>9, <2>1, <1>4 DEF BurstInv, TInv, TypeOK
  <2>3. ~(burst < now' - Ttl)
    BY <1>2, <2>1, <2>2
  <2>4. burst' = burst
    BY <2>3 DEF Tick
  <2> QED
    BY <2>1, <2>2, <2>4
<1>10. CASE bucket.hits > 0 /\ bucket.hitsEnd >= now'
  <2>1. /\ bucket'.hits = bucket.hits /\ WindowStart' = WindowStart
        /\ WindowStart \in Int /\ WindowStart >= now' - Ttl
    BY <1>2, <1>10, TickKeys DEF WindowStart
  <2>2. Window' = Window /\ After' \subseteq After /\ Before' \subseteq Before
    BY <1>1, <1>2, <1>3, <2>1 DEF Window, After, Before
  <2>3. BurstInv'
    <3>1. bucket.hits <= Cardinality(Window)
      BY <1>4, <1>10 DEF BurstInv
    <3>2. bucket'.hits <= Cardinality(Window')
      BY <2>1, <2>2, <3>1
    <3> QED
      BY <1>2, <1>9, <1>10, <2>1, <3>2 DEF BurstInv
  <2>4. /\ Admitted(Window) <= bucket.hits /\ Admitted(Window) <= Limit
        /\ Admitted(After) <= bucket.hits - 1 /\ Admitted(After) <= Limit - 1
        /\ Admitted(Before) <= Limit - 1
    BY <1>4, <1>10 DEF AdmittedInv
  <2>5. /\ Admitted(After') \in Nat /\ Admitted(After) \in Nat
        /\ Admitted(After') <= Admitted(After)
        /\ Admitted(Before') \in Nat /\ Admitted(Before) \in Nat
        /\ Admitted(Before') <= Admitted(Before)
    BY <1>7, <2>2, AdmittedSubset
  <2>6. /\ Admitted(Window') <= bucket'.hits /\ Admitted(Window') <= Limit
        /\ Admitted(After') <= bucket'.hits - 1 /\ Admitted(After') <= Limit - 1
        /\ Admitted(Before') <= Limit - 1
    BY <1>2, <2>1, <2>2, <2>4, <2>5
  <2>7. /\ Admitted(Window)' <= bucket'.hits /\ Admitted(Window)' <= Limit
        /\ Admitted(After)' <= bucket'.hits - 1 /\ Admitted(After)' <= Limit - 1
        /\ Admitted(Before)' <= Limit - 1
    BY <2>6 DEF Admitted
  <2>8. AdmittedInv'
    BY <1>2, <1>10, <2>1, <2>7 DEF AdmittedInv
  <2> QED
    BY <1>5, <2>3, <2>8 DEF WindowInv
<1>11. CASE ~(bucket.hits > 0 /\ bucket.hitsEnd >= now')
  <2>1. bucket'.hits = 0
    BY <1>2, <1>11, TickKeys DEF TInv, BucketInv
  <2>2. BurstInv'
    BY <1>8, <1>9, <2>1 DEF BurstInv
  <2>3. Admitted(recent') <= Limit - 1
    <3>1. CASE bucket.hits = 0
      <4>1. /\ Admitted(recent') \in Nat /\ Admitted(recent) \in Nat
            /\ Admitted(recent') <= Admitted(recent)
        BY <1>4, <1>5, AdmittedSubset
      <4>2. Admitted(recent) <= Limit - 1
        BY <1>4, <3>1 DEF AdmittedInv
      <4> QED
        BY <4>1, <4>2
    <3>2. CASE bucket.hits # 0
      <4>1. bucket.hits > 0 /\ now' - Ttl > WindowStart /\ WindowStart \in Int
        BY <1>2, <1>11, <3>2 DEF WindowStart
      <4>2. recent' \subseteq After
        BY <1>1, <1>2, <1>3, <4>1 DEF After
      <4>3. /\ Admitted(recent') \in Nat /\ Admitted(After) \in Nat
            /\ Admitted(recent') <= Admitted(After)
        BY <1>7, <4>2, AdmittedSubset
      <4>4. Admitted(After) <= Limit - 1
        BY <1>4, <4>1 DEF AdmittedInv
      <4> QED
        BY <4>3, <4>4
    <3> QED
      BY <3>1, <3>2
  <2>4. Admitted(recent)' <= Limit - 1
    BY <2>3 DEF Admitted
  <2>5. AdmittedInv'
    BY <2>1, <2>4 DEF AdmittedInv
  <2> QED
    BY <1>5, <2>2, <2>5 DEF WindowInv
<1> QED
  BY <1>10, <1>11

LEMMA InitWindow == Init => WindowInv
<1> SUFFICES ASSUME Init PROVE WindowInv
  OBVIOUS
<1> USE ConstantsAre
<1>1. recent = {} /\ bucket.hits = 0 /\ bucket.blockEnd = 0
  BY DEF Init, Empty
<1>2. {login \in recent : login.admitted} = {}
  BY <1>1
<1>3. Admitted(recent) = 0 /\ IsFiniteSet(recent)
  BY <1>1, <1>2, FS_EmptySet DEF Admitted
<1> QED
  BY <1>1, <1>3 DEF WindowInv, BurstInv, AdmittedInv

LEMMA WindowStep == TInv /\ WindowInv /\ [Next]_vars => WindowInv'
<1> SUFFICES ASSUME TInv, WindowInv, [Next]_vars PROVE WindowInv'
  OBVIOUS
<1>1. ASSUME NEW kind \in Logins, TooMany(kind) \/ Admit(kind) PROVE WindowInv'
  BY <1>1, LoginKnocks, KnockBurst, KnockAdmitted DEF WindowInv
<1>2. CASE Tick
  BY <1>2, TickWindow
<1>3. ASSUME UNCHANGED <<now, bucket, recent, burst>> PROVE WindowInv'
  <2>1. WindowStart' = WindowStart
    BY <1>3 DEF WindowStart
  <2>2. Window' = Window /\ After' = After /\ Before' = Before
    BY <1>3, <2>1 DEF Window, After, Before
  <2>3. /\ Admitted(Window)' = Admitted(Window) /\ Admitted(After)' = Admitted(After)
        /\ Admitted(Before)' = Admitted(Before) /\ Admitted(recent)' = Admitted(recent)
    BY <1>3, <2>2 DEF Admitted
  <2> QED
    BY <1>3, <2>2, <2>3 DEF WindowInv, BurstInv, AdmittedInv
<1>4. ASSUME NEW kind \in Others, Accept(kind) PROVE WindowInv'
  BY <1>3, <1>4 DEF Accept, history
<1>5. CASE FindUser \/ Proceed \/ Abort
  BY <1>3, <1>5 DEF FindUser, Proceed, Abort, history
<1>6. ASSUME NEW row \in Rows, Insert(row) \/ InsertFails(row) PROVE WindowInv'
  BY <1>3, <1>6 DEF Insert, InsertFails, service, history
<1>7. CASE UNCHANGED vars
  BY <1>3, <1>7 DEF vars, service, history
<1> QED
  BY <1>1, <1>2, <1>4, <1>5, <1>6, <1>7 DEF Next, Arrive, Quiet

LEMMA WindowInvAlways == Spec => [](TInv /\ WindowInv)
  BY TInvAlways, InitWindow, WindowStep, PTL DEF Spec

\* A client that never sends more than its limit in the length of a window is never
\* refused; one that is refused has done so at most that long ago
\* (redis-throttler-storage.service.ts:28-46).
THEOREM OnlyBurstsRefused == Spec => RefusedOnlyAfterBurst
<1>1. TInv /\ WindowInv /\ [Next]_vars =>
        [\A kind \in Logins : TooMany(kind) => burst' >= now - Ttl]_vars
  <2> SUFFICES ASSUME TInv, WindowInv, NEW kind \in Logins, TooMany(kind)
               PROVE  burst' >= now - Ttl
    OBVIOUS
  <2> USE ConstantsAre
  <2>1. Knock(kind)
    BY LoginKnocks
  <2>2. BurstInv'
    BY <2>1, KnockBurst
  <2>3. bucket'.blockEnd > now
    BY <2>1, KnockIs DEF TooMany
  <2>4. now \in Nat /\ bucket'.blockEnd \in Nat
    BY <2>1, KnockIs DEF Bucket
  <2>5. burst' >= bucket'.blockEnd - Ttl /\ burst' \in Int
    BY <2>1, <2>2, <2>3, <2>4, KnockTypes DEF BurstInv
  <2> QED
    BY <2>3, <2>4, <2>5
<1> QED
  BY <1>1, WindowInvAlways, PTL DEF Spec, RefusedOnlyAfterBurst

\* In no stretch as long as a window are there more than 2 * Limit - 1 logins, however
\* the client spreads them over the end of one window and the beginning of the next.
THEOREM NeverThreeWindows == Spec => []AtMostTwice
<1>1. TInv /\ WindowInv => AtMostTwice
  <2> SUFFICES ASSUME TInv, WindowInv PROVE Admitted(recent) <= 2 * Limit - 1
    BY DEF AtMostTwice, Admitted
  <2> USE ConstantsAre
  <2>1. IsFiniteSet(recent) /\ AdmittedInv /\ bucket.hits \in Nat
    BY DEF WindowInv, TInv, TypeOK, Bucket
  <2>2. CASE bucket.hits = 0
    <3>1. Admitted(recent) \in Nat
      BY <2>1, AdmittedSubset
    <3>2. Admitted(recent) <= Limit - 1
      BY <2>1, <2>2 DEF AdmittedInv
    <3> QED
      BY <3>1, <3>2
  <2>3. CASE bucket.hits > 0
    <3>1. WindowStart \in Int /\ \A login \in recent : login.at \in Int
      BY DEF WindowStart, TInv, TypeOK, Bucket
    <3>2. recent = Window \cup Before /\ Window \subseteq recent /\ Before \subseteq recent
      BY <3>1 DEF Window, Before
    <3>3. /\ IsFiniteSet(Window) /\ IsFiniteSet(Before)
          /\ Admitted(Window) \in Nat /\ Admitted(Before) \in Nat /\ Admitted(recent) \in Nat
      BY <2>1, <3>2, FS_Subset, AdmittedSubset
    <3>4. Admitted(recent) <= Admitted(Window) + Admitted(Before)
      BY <3>2, <3>3, AdmittedUnion
    <3>5. Admitted(Window) <= Limit /\ Admitted(Before) <= Limit - 1
      BY <2>1, <2>3 DEF AdmittedInv
    <3> QED
      BY <3>3, <3>4, <3>5
  <2> QED
    BY <2>1, <2>2, <2>3
<1> QED
  BY <1>1, WindowInvAlways, PTL

-----------------------------------------------------------------------------
(* A window of wrong passwords.                                            *)

\* A wrong password that is admitted and not yet counted, or is being refused for the
\* lock.
Underway ==
    IF (req.kind = "login_wrong" /\ req.at < 2) \/ req.kind = "login_locked" THEN 1 ELSE 0

\* While a window is used for wrong passwords only, and the lock has not shown, every
\* hit of it but the one under way has been counted; or the account is locked for
\* longer than the window lasts, and the next login will be told.
Counting == bucket.hits <= account.failures + Underway
Closing ==
    /\ bucket.hits <= MaxAttempts + Underway
    /\ account.lockedUntil > bucket.hitsEnd
    /\ ~(req.kind = "login_wrong" /\ req.at = 1)
CampaignInv ==
    /\ campaign.pure => req.kind \notin {"login_right", "login_unknown"}
    /\ campaign.pure /\ ~campaign.surfaced =>
         bucket.blockEnd <= now /\ (Counting \/ Closing)

LEMMA InitCampaign == Init => CampaignInv
  BY DEF Init, CampaignInv

\* The deeds that the lockout columns depend on.
LEMMA DeedsAre ==
  ASSUME NEW kind
  PROVE  /\ kind = "login_wrong" => /\ Len(Handlers[kind]) = 2
                                    /\ Handlers[kind][1].deed = "attempt_counted"
                                    /\ Handlers[kind][2].deed = ""
         /\ kind = "login_locked" => /\ Len(Handlers[kind]) = 1
                                     /\ Handlers[kind][1].deed = "locked_out"
<1>1. \A deed, events : /\ Did(deed).deed = deed /\ Told(events).deed = ""
                        /\ DidAndTold(deed, events).deed = deed
  BY DEF Did, Told, DidAndTold
<1>2. CASE kind = "login_wrong"
  <2>1. Handlers[kind] = <<Did("attempt_counted"), Told({"FAILED_PASSWORD"})>>
    BY <1>2 DEF Handlers, LoginWrong
  <2>2. /\ Len(Handlers[kind]) = 2
        /\ Handlers[kind][1] = Did("attempt_counted")
        /\ Handlers[kind][2] = Told({"FAILED_PASSWORD"})
    BY <2>1
  <2>3. kind # "login_locked"
    BY <1>2
  <2> QED
    BY <1>1, <2>2, <2>3
<1>3. CASE kind = "login_locked"
  <2>1. Handlers[kind] = <<DidAndTold("locked_out", "FAILED_LOCKED")>>
    BY <1>3 DEF Handlers, LoginLocked
  <2>2. Len(Handlers[kind]) = 1 /\ Handlers[kind][1] = DidAndTold("locked_out", "FAILED_LOCKED")
    BY <2>1
  <2>3. kind # "login_wrong"
    BY <1>3
  <2> QED
    BY <1>1, <2>2, <2>3
<1> QED
  BY <1>2, <1>3

LEMMA OnlyLoginsCount ==
  ASSUME NEW kind \in Kinds \ {"login_right", "login_wrong"},
         NEW i \in 1 .. Len(Handlers[kind])
  PROVE  Handlers[kind][i].deed \notin {"attempt_counted", "attempts_cleared"}
<1> DEFINE Harmless(h) ==
             \A j \in 1 .. Len(h) : h[j].deed \notin {"attempt_counted", "attempts_cleared"}
<1>1. \A deed, events : Did(deed).deed = deed /\ Told(events).deed = ""
                        /\ DidAndTold(deed, events).deed = deed
  BY DEF Did, Told, DidAndTold
<1>2. ASSUME NEW a, a.deed \notin {"attempt_counted", "attempts_cleared"}
      PROVE  Harmless(<<a>>)
  BY <1>2
<1>3. ASSUME NEW a, NEW b, a.deed \notin {"attempt_counted", "attempts_cleared"},
             b.deed \notin {"attempt_counted", "attempts_cleared"}
      PROVE  Harmless(<<a, b>>)
  BY <1>3
<1>4. ASSUME NEW a, NEW b, NEW c, a.deed \notin {"attempt_counted", "attempts_cleared"},
             b.deed \notin {"attempt_counted", "attempts_cleared"},
             c.deed \notin {"attempt_counted", "attempts_cleared"}
      PROVE  Harmless(<<a, b, c>>)
  BY <1>4
<1> HIDE DEF Harmless
<1>5. /\ Harmless(LoginLocked) /\ Harmless(LoginUnknown) /\ Harmless(Refresh)
      /\ Harmless(ChangeRole) /\ Harmless(ChangePermission)
  BY <1>1, <1>2 DEF LoginLocked, LoginUnknown, Refresh, ChangeRole, ChangePermission
<1>6. /\ Harmless(Register) /\ Harmless(RefreshReused) /\ Harmless(VerifyEmail)
      /\ Harmless(Logout) /\ Harmless(RevokeSession) /\ Harmless(RevokeAllOtherSessions)
  BY <1>1, <1>3 DEF Register, RefreshReused, VerifyEmail, Logout, RevokeSession,
     RevokeAllOtherSessions
<1>7. Harmless(ResetPassword) /\ Harmless(ChangePassword)
  BY <1>1, <1>4 DEF ResetPassword, ChangePassword
<1>8. Harmless(Handlers[kind])
  BY <1>5, <1>6, <1>7 DEF Kinds, Handlers
<1> QED
  BY <1>8 DEF Harmless

\* The login that would be refused in such a window does not exist.
LEMMA KnockCampaign ==
  ASSUME TInv, CampaignInv, NEW kind \in Logins, Knock(kind),
         campaign'.pure, ~campaign'.surfaced
  PROVE  /\ kind = "login_wrong" /\ ~Refused
         /\ bucket'.blockEnd <= now'
         /\ \/ bucket'.hits <= account'.failures + 1
            \/ bucket'.hits <= MaxAttempts + 1 /\ account'.lockedUntil > bucket'.hitsEnd
<1> USE ConstantsAre
<1> DEFINE opens == bucket.hits = 0 /\ ~Blocked(bucket, now)
<1>1. PICK admitted \in BOOLEAN : Remember(kind, admitted)
  BY DEF Knock
<1>2. campaign' = [pure |-> kind = "login_wrong" /\ (opens \/ campaign.pure),
                   surfaced |-> /\ kind = "login_wrong" /\ (opens \/ campaign.pure)
                                /\ ~opens /\ campaign.surfaced]
  BY <1>1 DEF Remember
<1>3. /\ kind = "login_wrong"
      /\ opens \/ campaign.pure
      /\ opens \/ ~campaign.surfaced
  BY <1>2
<1>4. opens <=> bucket.hits = 0 /\ ~(bucket.blockEnd > now)
  BY DEF Blocked
<1> HIDE DEF opens
<1>5. account' = account /\ account.failures \in 0 .. MaxAttempts - 1 /\ account.lockedUntil \in Nat
  BY DEF Knock, TInv, TypeOK, Account
<1>6. req.kind = ""
  BY DEF Knock, Idle
<1>7. Underway = 0
  BY <1>6 DEF Underway
<1>8. CASE opens
  BY <1>3, <1>4, <1>5, <1>8, KnockIs
<1>9. CASE ~opens
  <2>1. bucket.blockEnd <= now /\ (Counting \/ Closing)
    BY <1>3, <1>9 DEF CampaignInv
  <2>2. CASE Counting
    <3>1. bucket.hits <= account.failures
      BY <1>5, <1>7, <2>2 DEF Counting
    <3> QED
      BY <1>3, <1>5, <2>1, <3>1, KnockIs
  <2>3. CASE Closing
    <3>1. bucket.hits <= MaxAttempts /\ account.lockedUntil > bucket.hitsEnd
      BY <1>7, <2>3 DEF Closing
    <3> QED
      BY <1>3, <1>5, <2>1, <3>1, KnockIs
  <2> QED
    BY <2>1, <2>2, <2>3
<1> QED
  BY <1>8, <1>9

LEMMA LoginCampaign ==
  ASSUME TInv, CampaignInv, NEW kind \in Logins, TooMany(kind) \/ Admit(kind)
  PROVE  CampaignInv'
<1> USE ConstantsAre
<1>1. Knock(kind)
  BY LoginKnocks
<1>2. campaign'.pure => kind = "login_wrong"
  <2>1. PICK admitted \in BOOLEAN : Remember(kind, admitted)
    BY <1>1 DEF Knock
  <2> QED
    BY <2>1 DEF Remember
<1>3. CASE campaign'.pure /\ ~campaign'.surfaced
  <2>1. /\ kind = "login_wrong" /\ ~Refused
        /\ bucket'.blockEnd <= now'
        /\ \/ bucket'.hits <= account'.failures + 1
           \/ bucket'.hits <= MaxAttempts + 1 /\ account'.lockedUntil > bucket'.hitsEnd
    BY <1>1, <1>3, KnockCampaign
  <2>2. req' = [kind |-> "login_wrong", at |-> 0]
    BY <2>1 DEF TooMany, Admit
  <2>3. Underway' = 1 /\ req'.kind = "login_wrong" /\ req'.at = 0
    BY <2>2 DEF Underway
  <2>4. Counting' \/ Closing'
    BY <2>1, <2>3 DEF Counting, Closing
  <2> QED
    BY <2>1, <2>3, <2>4 DEF CampaignInv
<1>4. CASE campaign'.pure /\ campaign'.surfaced
  <2>1. kind = "login_wrong"
    BY <1>2, <1>4
  <2>2. req' = req \/ req' = [kind |-> "login_wrong", at |-> 0]
    BY <2>1 DEF TooMany, Admit
  <2>3. req = [kind |-> "", at |-> 0]
    BY <1>1 DEF Knock, Idle
  <2>4. req'.kind \in {"", "login_wrong"}
    <3>1. CASE req' = req
      BY <2>3, <3>1
    <3>2. CASE req' = [kind |-> "login_wrong", at |-> 0]
      BY <3>2
    <3> QED
      BY <2>2, <3>1, <3>2
  <2> QED
    BY <1>4, <2>4 DEF CampaignInv
<1>5. CASE ~campaign'.pure
  BY <1>5 DEF CampaignInv
<1> QED
  BY <1>3, <1>4, <1>5

LEMMA FindUserCampaign ==
  ASSUME TInv, CampaignInv, FindUser
  PROVE  CampaignInv'
<1> USE ConstantsAre
<1>1. UNCHANGED <<now, bucket, account, campaign>>
  BY DEF FindUser, history
<1>2. /\ req # Idle /\ req.at = 0 /\ req.kind \in Logins
      /\ req' = [kind |-> IF Locked /\ req.kind # "login_unknown"
                            THEN "login_locked" ELSE req.kind, at |-> 1]
  BY DEF FindUser, TInv, ArrivalInv
<1>3. req'.at = 1 /\ req'.kind = IF Locked /\ req.kind # "login_unknown"
                                   THEN "login_locked" ELSE req.kind
  BY <1>2
<1>4. SUFFICES ASSUME campaign.pure PROVE CampaignInv'
  BY <1>1 DEF CampaignInv
<1>5. req.kind = "login_wrong"
  BY <1>2, <1>4 DEF CampaignInv, Logins
<1>6. req'.kind = (IF Locked THEN "login_locked" ELSE "login_wrong")
  BY <1>3, <1>5
<1>7. Underway = 1 /\ Underway' = 1
  BY <1>2, <1>3, <1>5, <1>6 DEF Underway
<1>8. ASSUME ~campaign.surfaced PROVE bucket.blockEnd <= now /\ (Counting' \/ Closing')
  <2>1. bucket.blockEnd <= now /\ (Counting \/ Closing)
    BY <1>4, <1>8 DEF CampaignInv
  <2>2. CASE Counting
    BY <1>1, <1>7, <2>1, <2>2 DEF Counting
  <2>3. CASE Closing
    <3>1. /\ bucket.hits \in Nat /\ bucket.hitsEnd \in Nat /\ now \in Nat
          /\ account.lockedUntil \in Nat /\ account.failures \in Nat
          /\ bucket.hits # 0 => bucket.hitsEnd >= now
      BY DEF TInv, TypeOK, BucketInv, Bucket, Account
    <3>2. CASE bucket.hits = 0
      <4>1. Counting'
        BY <1>1, <1>7, <3>1, <3>2 DEF Counting
      <4> QED
        BY <2>1, <4>1
    <3>3. CASE bucket.hits # 0
      <4>1. Locked
        BY <2>3, <3>1, <3>3 DEF Locked, Closing
      <4>2. Closing'
        BY <1>1, <1>6, <1>7, <2>3, <4>1 DEF Closing
      <4> QED
        BY <2>1, <4>2
    <3> QED
      BY <3>2, <3>3
  <2> QED
    BY <2>1, <2>2, <2>3
<1> QED
  BY <1>1, <1>6, <1>8 DEF CampaignInv

\* The wrong password is counted: the lock either is one attempt nearer, or set for
\* longer than the window lasts.
LEMMA CountedCampaign ==
  ASSUME TInv, CampaignInv, Proceed, req.kind = "login_wrong", req.at = 1,
         campaign.pure, ~campaign.surfaced
  PROVE  bucket'.blockEnd <= now' /\ (Counting' \/ Closing')
<1> USE ConstantsAre
<1>1. UNCHANGED <<now, bucket>>
  BY DEF Proceed
<1>2. account' = Attempted(account)
  BY DeedsAre DEF Proceed, AccountAfter
<1>3. req' = [kind |-> "login_wrong", at |-> 2]
  <2>1. Len(Handlers[req.kind]) = 2
    BY DeedsAre
  <2>2. req' = IF req.at = Len(Handlers[req.kind])
                 THEN Idle ELSE [kind |-> req.kind, at |-> req.at + 1]
    BY ProceedIs
  <2> QED
    BY <2>1, <2>2
<1>4. Underway = 1 /\ Underway' = 0
  BY <1>3 DEF Underway
<1>5. bucket.blockEnd <= now /\ bucket.hits <= account.failures + 1
  BY <1>4 DEF CampaignInv, Counting, Closing
<1>6. /\ bucket.hits \in Nat /\ now \in Nat /\ bucket.hitsEnd \in Nat
      /\ bucket.hitsEnd <= now + Ttl
      /\ account \in Account /\ account.failures \in 0 .. MaxAttempts - 1
  BY DEF TInv, TypeOK, Bucket, Account
<1>7. CASE LocksAt(account.failures + 1)
  <2>1. account' = [failures |-> 0, lockedUntil |-> now + LockDuration]
    BY <1>2, <1>7 DEF Attempted
  <2>2. account'.lockedUntil > bucket'.hitsEnd
    BY <1>1, <1>6, <2>1
  <2>3. bucket'.hits <= MaxAttempts + Underway'
    BY <1>1, <1>4, <1>5, <1>6
  <2>4. ~(req'.kind = "login_wrong" /\ req'.at = 1)
    BY <1>3
  <2> QED
    BY <1>1, <1>5, <2>2, <2>3, <2>4 DEF Closing
<1>8. CASE ~LocksAt(account.failures + 1)
  <2>1. account' = [account EXCEPT !.failures = account.failures + 1]
    BY <1>2, <1>8 DEF Attempted
  <2>2. account'.failures = account.failures + 1
    BY <1>6, <2>1 DEF Account
  <2> QED
    BY <1>1, <1>4, <1>5, <1>6, <2>2 DEF Counting
<1> QED
  BY <1>7, <1>8

LEMMA ProceedCampaign ==
  ASSUME TInv, CampaignInv, Proceed
  PROVE  CampaignInv'
<1> USE ConstantsAre
<1> DEFINE deed == Handlers[req.kind][req.at].deed
<1>1. campaign' = [pure |-> campaign.pure /\ deed # "password_written",
                   surfaced |-> /\ campaign.pure /\ deed # "password_written"
                                /\ campaign.surfaced \/ deed = "locked_out"]
  BY DEF Proceed
<1>2. account' = AccountAfter(deed) /\ UNCHANGED <<now, bucket>>
  BY DEF Proceed
<1>3. /\ req.kind \in Kinds /\ req.at \in 1 .. Len(Handlers[req.kind])
      /\ Len(Handlers[req.kind]) \in Nat
      /\ req' = IF req.at = Len(Handlers[req.kind])
                  THEN Idle ELSE [kind |-> req.kind, at |-> req.at + 1]
  BY ProceedIs
<1>4. req'.kind \in {"", req.kind}
  BY <1>3 DEF Idle
<1>5. SUFFICES ASSUME campaign'.pure PROVE CampaignInv'
  BY DEF CampaignInv
<1>6. campaign.pure /\ deed # "password_written" /\ req.kind \notin {"login_right", "login_unknown"}
  BY <1>1, <1>5 DEF CampaignInv
<1>7. req'.kind \notin {"login_right", "login_unknown"}
  BY <1>4, <1>6
<1>8. ASSUME ~campaign'.surfaced PROVE bucket'.blockEnd <= now' /\ (Counting' \/ Closing')
  <2>1. ~campaign.surfaced /\ deed # "locked_out"
    BY <1>1, <1>6, <1>8
  <2>2. bucket.blockEnd <= now /\ (Counting \/ Closing)
    BY <1>6, <2>1 DEF CampaignInv
  <2>3. CASE req.kind = "login_wrong" /\ req.at = 1
    BY <1>6, <2>1, <2>3, CountedCampaign
  <2>4. CASE req.kind = "login_wrong" /\ req.at # 1
    <3>1. req.at = 2
      <4>1. Len(Handlers[req.kind]) = 2
        BY <2>4, DeedsAre
      <4> QED
        BY <1>3, <2>4, <4>1
    <3>2. account' = account
      BY <1>2, <2>4, <3>1, DeedsAre DEF AccountAfter
    <3>3. req'.kind = ""
      BY <1>3, <2>4, <3>1, DeedsAre DEF Idle
    <3>4. Underway = 0 /\ Underway' = 0 /\ ~(req'.kind = "login_wrong" /\ req'.at = 1)
      <4>1. Underway = 0
        BY <2>4, <3>1 DEF Underway
      <4>2. Underway' = 0
        BY <3>3 DEF Underway
      <4> QED
        BY <3>3, <4>1, <4>2
    <3> QED
      BY <1>2, <2>2, <3>2, <3>4 DEF Counting, Closing
  <2>5. CASE req.kind = "login_locked"
    <3>1. req.at = 1
      <4>1. Len(Handlers[req.kind]) = 1
        BY <2>5, DeedsAre
      <4> QED
        BY <1>3, <4>1
    <3> QED
      BY <2>1, <2>5, <3>1, DeedsAre
  <2>6. CASE req.kind \notin {"login_wrong", "login_locked"}
    <3>1. deed \notin {"attempt_counted", "attempts_cleared"}
      BY <1>3, <1>6, <2>6, OnlyLoginsCount
    <3>2. account' = account
      BY <1>2, <1>6, <3>1 DEF AccountAfter
    <3>3. req'.kind \notin {"login_wrong", "login_locked"}
      BY <1>4, <2>6
    <3>4. Underway = 0 /\ Underway' = 0
      BY <2>6, <3>3 DEF Underway
    <3> QED
      BY <1>2, <2>2, <3>2, <3>3, <3>4 DEF Counting, Closing
  <2> QED
    BY <2>3, <2>4, <2>5, <2>6
<1> QED
  BY <1>7, <1>8 DEF CampaignInv

LEMMA TickCampaign ==
  ASSUME TInv, CampaignInv, Tick
  PROVE  CampaignInv'
<1> USE ConstantsAre
<1>1. UNCHANGED <<account, req, campaign>>
  BY DEF Tick
<1>2. Underway' = Underway /\ Underway \in {0, 1}
  BY <1>1 DEF Underway
<1>3. /\ now \in Nat /\ now' = now + 1
      /\ bucket.hits \in Nat /\ bucket.hitsEnd \in Nat /\ bucket.blockEnd \in Nat
      /\ account.failures \in Nat /\ account.lockedUntil \in Nat
  BY TickKeys DEF TInv, TypeOK, Bucket, Account
<1>4. ASSUME campaign.pure, ~campaign.surfaced
      PROVE  bucket'.blockEnd <= now' /\ (Counting' \/ Closing')
  <2>1. bucket.blockEnd <= now /\ (Counting \/ Closing)
    BY <1>4 DEF CampaignInv
  <2>2. bucket'.blockEnd = 0
    BY <1>3, <2>1, TickKeys
  <2>3. CASE bucket.hitsEnd < now'
    <3>1. Counting'
      BY <1>1, <1>2, <1>3, <2>3, TickKeys DEF Counting
    <3> QED
      BY <1>3, <2>2, <3>1
  <2>4. CASE bucket.hitsEnd >= now'
    <3>1. bucket'.hits = bucket.hits /\ bucket'.hitsEnd = bucket.hitsEnd
      BY <2>4, TickKeys
    <3> QED
      BY <1>1, <1>2, <1>3, <2>1, <2>2, <3>1 DEF Counting, Closing
  <2> QED
    BY <1>3, <2>3, <2>4
<1> QED
  BY <1>1, <1>4 DEF CampaignInv

LEMMA CampaignStep == TInv /\ CampaignInv /\ [Next]_vars => CampaignInv'
<1> SUFFICES ASSUME TInv, CampaignInv, [Next]_vars PROVE CampaignInv'
  OBVIOUS
<1>1. ASSUME NEW kind \in Logins, TooMany(kind) \/ Admit(kind) PROVE CampaignInv'
  BY <1>1, LoginCampaign
<1>2. ASSUME NEW kind \in Others, Accept(kind) PROVE CampaignInv'
  <2>1. req.kind = "" /\ UNCHANGED <<now, bucket, account, campaign>>
    BY <1>2 DEF Accept, Room, Idle, history
  <2>2. req' = [kind |-> kind, at |-> 1]
    BY <1>2 DEF Accept
  <2>3. req'.kind = kind /\ kind \notin Logins /\ kind # "login_locked"
    BY <2>2 DEF Others
  <2>4. req'.kind \notin {"login_right", "login_wrong", "login_unknown", "login_locked"}
    BY <2>3 DEF Logins
  <2>5. Underway = 0
    BY <2>1 DEF Underway
  <2>6. Underway' = 0
    BY <2>4 DEF Underway
  <2> QED
    BY <2>1, <2>4, <2>5, <2>6 DEF CampaignInv, Counting, Closing
<1>3. CASE FindUser
  BY <1>3, FindUserCampaign
<1>4. CASE Proceed
  BY <1>4, ProceedCampaign
<1>5. CASE Abort
  <2>1. ~campaign'.pure
    BY <1>5 DEF Abort
  <2> QED
    BY <2>1 DEF CampaignInv
<1>6. CASE Tick
  BY <1>6, TickCampaign
<1>7. ASSUME UNCHANGED <<now, bucket, account, req, campaign>> PROVE CampaignInv'
  BY <1>7 DEF CampaignInv, Counting, Closing, Underway
<1>8. ASSUME NEW row \in Rows, Insert(row) \/ InsertFails(row) PROVE CampaignInv'
  BY <1>7, <1>8 DEF Insert, InsertFails, service, history
<1>9. CASE UNCHANGED vars
  BY <1>7, <1>9 DEF vars, service, history
<1> QED
  BY <1>1, <1>2, <1>3, <1>4, <1>5, <1>6, <1>8, <1>9 DEF Next, Arrive, Quiet

\* The lock of the account shows before the rate limit hides it: in a window used for
\* wrong passwords at one account somebody was told of the lock before anybody is told
\* to slow down (brute-force-throttle.constant.ts).
THEOREM LockShows == Spec => LockoutSurfaces
<1>1. TInv /\ CampaignInv /\ [Next]_vars =>
        [\A kind \in Logins : TooMany(kind) => (campaign'.pure => campaign'.surfaced)]_vars
  <2> SUFFICES ASSUME TInv, CampaignInv, NEW kind \in Logins, TooMany(kind),
                      campaign'.pure, ~campaign'.surfaced
               PROVE  FALSE
    OBVIOUS
  <2>1. Knock(kind)
    BY LoginKnocks
  <2>2. ~Refused
    BY <2>1, KnockCampaign
  <2> QED
    BY <2>2 DEF TooMany
<1> QED
  BY <1>1, TInvAlways, InitCampaign, CampaignStep, PTL DEF Spec, LockoutSurfaces

-----------------------------------------------------------------------------
(* The rows that are due.                                                  *)

\* The rows that the deeds of a request's past stretches made due.
DueBefore(kind, at, row) == \E i \in 1 .. at - 1 : row \in DueFor(Handlers[kind][i].deed)
LEMMA UntoldIs ==
  ASSUME NEW row
  PROVE  /\ Untold(row) <=> req # Idle /\ DueBefore(req.kind, req.at, row)
         /\ Untold(row)' <=> req' # Idle /\ DueBefore(req'.kind, req'.at, row)
  BY DEF Untold, DueBefore

\* What is due of the listener's rows is under way, or will be when the request tells of
\* it; a change of a role or a permission is owed from then on.
OwedInv ==
    /\ \A row \in Rows : owed[row] = pending[row] + (IF Untold(row) THEN 1 ELSE 0)
    /\ \A row \in DueRows : owed[row] >= (IF Untold(row) THEN 1 ELSE 0)
    /\ lost \in 0 .. 2 * faults

LEMMA InitOwed == Init => OwedInv
  BY DEF Init, OwedInv, Untold, DueRows

\* No request owes more than two rows.
LEMMA FewUntold ==
  ASSUME TInv
  PROVE  /\ IsFiniteSet({row \in DueRows : Untold(row)})
         /\ Cardinality({row \in DueRows : Untold(row)}) \in 0 .. 2
<1> DEFINE S == {row \in DueRows : Untold(row)}
<1>1. \E x, y : S \subseteq {x, y}
  <2>1. CASE req = Idle
    BY <2>1 DEF Untold
  <2>2. CASE req # Idle
    <3>1. /\ req.kind \in Kinds /\ req.at \in Nat
          /\ req.at <= Len(Handlers[req.kind]) /\ Len(Handlers[req.kind]) \in Nat
      BY <2>2, ReqIs
    <3>2. PICK x, y : \A i \in 1 .. Len(Handlers[req.kind]) :
                        DueFor(Handlers[req.kind][i].deed) \subseteq {x, y}
      BY <3>1, HandlersSound DEF Sound
    <3>3. ASSUME NEW row \in S PROVE row \in {x, y}
      <4>1. PICK i \in 1 .. req.at - 1 : row \in DueFor(Handlers[req.kind][i].deed)
        BY <3>3 DEF Untold, DueBefore
      <4>2. i \in 1 .. Len(Handlers[req.kind])
        BY <3>1
      <4> QED
        BY <3>2, <4>1, <4>2
    <3> QED
      BY <3>3
  <2> QED
    BY <2>1, <2>2
<1>2. PICK x, y : S \subseteq {x, y}
  BY <1>1
<1> HIDE DEF S
<1>3. IsFiniteSet({x, y}) /\ Cardinality({x, y}) \in 0 .. 2
  <2>1. IsFiniteSet({x}) /\ Cardinality({x}) = 1
    BY FS_Singleton
  <2>2. /\ IsFiniteSet({x} \cup {y})
        /\ Cardinality({x} \cup {y}) = IF y \in {x} THEN 1 ELSE 2
    BY <2>1, FS_AddElement
  <2>3. {x} \cup {y} = {x, y}
    OBVIOUS
  <2> QED
    BY <2>2, <2>3
<1>4. IsFiniteSet(S) /\ Cardinality(S) <= Cardinality({x, y}) /\ Cardinality(S) \in Nat
  BY <1>2, <1>3, FS_Subset, FS_CardinalityType
<1> QED
  BY <1>3, <1>4 DEF S

\* A stretch leaves untold what it has done or found untold, unless it is the last.
LEMMA StretchTells ==
  ASSUME TInv, Proceed, NEW row
  PROVE  /\ ~(row \in DueFor(Handlers[req.kind][req.at].deed) /\ Untold(row))
         /\ Untold(row)' <=>
              /\ req.at # Len(Handlers[req.kind])
              /\ row \in DueFor(Handlers[req.kind][req.at].deed) \/ Untold(row)
<1> DEFINE steps == Handlers[req.kind]
           D == row \in DueFor(steps[req.at].deed)
<1>1. /\ req.kind \in Kinds /\ req.at \in 1 .. Len(steps) /\ Len(steps) \in Nat
      /\ req' = IF req.at = Len(steps) THEN Idle ELSE [kind |-> req.kind, at |-> req.at + 1]
      /\ req # Idle
  BY ProceedIs DEF Proceed
<1>2. Untold(row) <=> DueBefore(req.kind, req.at, row)
  BY <1>1, UntoldIs
<1>3. ASSUME D, Untold(row) PROVE FALSE
  <2>1. PICK i \in 1 .. req.at - 1 : row \in DueFor(steps[i].deed)
    BY <1>2, <1>3 DEF DueBefore
  <2>2. i \in 1 .. Len(steps) /\ i # req.at
    BY <1>1
  <2>3. Sound(steps)
    BY <1>1, HandlersSound
  <2> QED
    BY <1>1, <1>3, <2>1, <2>2, <2>3 DEF Sound
<1>4. CASE req.at = Len(steps)
  <2>1. ~Untold(row)'
    BY <1>1, <1>4, UntoldIs
  <2> QED
    BY <1>3, <1>4, <2>1
<1>5. CASE req.at # Len(steps)
  <2>1. req' = [kind |-> req.kind, at |-> req.at + 1]
    BY <1>1, <1>5
  <2>2. req'.kind = req.kind /\ req'.at = req.at + 1
    BY <2>1
  <2>3. req' # Idle
    BY <1>1, <2>2 DEF Idle, Kinds
  <2>4. Untold(row)' <=> DueBefore(req.kind, req.at + 1, row)
    BY <2>2, <2>3, UntoldIs
  <2>5. 1 .. (req.at + 1) - 1 = (1 .. req.at - 1) \cup {req.at}
    BY <1>1
  <2>6. DueBefore(req.kind, req.at + 1, row) <=>
          \E i \in (1 .. req.at - 1) \cup {req.at} : row \in DueFor(steps[i].deed)
    BY <2>5 DEF DueBefore
  <2>7. DueBefore(req.kind, req.at + 1, row) <=> D \/ DueBefore(req.kind, req.at, row)
    BY <2>6 DEF DueBefore
  <2> QED
    BY <1>2, <1>3, <1>5, <2>4, <2>7
<1> QED
  BY <1>4, <1>5

\* Of a row that the listener writes, a stretch makes due as many as it starts and leaves.
LEMMA StretchOwes ==
  ASSUME TInv, Proceed, NEW row \in Rows
  PROVE  LET deed == Handlers[req.kind][req.at].deed
             events == Handlers[req.kind][req.at].emits
         IN  (IF row \in DueFor(deed) THEN 1 ELSE 0) + (IF Untold(row) THEN 1 ELSE 0)
               = Started(row, events) + (IF Untold(row)' THEN 1 ELSE 0)
<1> DEFINE steps == Handlers[req.kind]
           D == row \in DueFor(steps[req.at].deed)
           U == Untold(row)
           V == Untold(row)'
           A == \E i \in 1 .. Len(steps) : row \in DueFor(steps[i].deed)
           n == Started(row, steps[req.at].emits)
           last == req.at = Len(steps)
<1>1. req.kind \in Kinds /\ req.at \in 1 .. Len(steps) /\ Len(steps) \in Nat /\ req # Idle
  BY ProceedIs DEF Proceed
<1>2. ~(D /\ U) /\ (V <=> ~last /\ (D \/ U))
  BY StretchTells
<1>3. n = IF last /\ A THEN 1 ELSE 0
  BY <1>1, StretchStarts
<1>4. last => (A <=> D \/ U)
  <2> SUFFICES ASSUME last PROVE A <=> D \/ U
    OBVIOUS
  <2>1. U <=> \E i \in 1 .. req.at - 1 : row \in DueFor(steps[i].deed)
    BY <1>1, UntoldIs DEF DueBefore
  <2> QED
    BY <1>1, <2>1
<1> HIDE DEF D, U, V, A, n, last
<1>5. (IF D THEN 1 ELSE 0) + (IF U THEN 1 ELSE 0) = n + (IF V THEN 1 ELSE 0)
  BY <1>2, <1>3, <1>4
<1> QED
  BY <1>5 DEF D, U, V, n

LEMMA ProceedOwed ==
  ASSUME TInv, OwedInv, Proceed
  PROVE  OwedInv'
<1> DEFINE deed == Handlers[req.kind][req.at].deed
           events == Handlers[req.kind][req.at].emits
<1>1. /\ owed' = [row \in DueRows |-> owed[row] + (IF row \in DueFor(deed) THEN 1 ELSE 0)]
      /\ pending' = [row \in Rows |-> pending[row] + Started(row, events)]
      /\ lost' = lost /\ faults' = faults
  BY DEF Proceed
<1>2. ASSUME NEW row \in Rows
      PROVE  owed'[row] = pending'[row] + (IF Untold(row)' THEN 1 ELSE 0)
  <2> DEFINE due == IF row \in DueFor(deed) THEN 1 ELSE 0
             n == Started(row, events)
             before == IF Untold(row) THEN 1 ELSE 0
             after == IF Untold(row)' THEN 1 ELSE 0
  <2>1. due + before = n + after
    BY StretchOwes
  <2>2. due \in Int /\ before \in Int /\ after \in Int
    OBVIOUS
  <2>3. n \in Int
    <3>1. req.kind \in Kinds /\ req.at \in 1 .. Len(Handlers[req.kind])
      BY ProceedIs
    <3>2. n = IF /\ req.at = Len(Handlers[req.kind])
                 /\ \E i \in 1 .. Len(Handlers[req.kind]) :
                      row \in DueFor(Handlers[req.kind][i].deed)
              THEN 1 ELSE 0
      BY <3>1, StretchStarts
    <3> QED
      BY <3>2
  <2>4. row \in DueRows /\ owed[row] \in Int /\ pending[row] \in Int
    BY DEF TInv, TypeOK, DueRows
  <2>5. owed[row] = pending[row] + before
    BY DEF OwedInv
  <2>6. owed'[row] = owed[row] + due /\ pending'[row] = pending[row] + n
    BY <1>1, <2>4
  <2>7. owed'[row] = pending'[row] + after
    <3> HIDE DEF due, n, before, after
    <3> QED
      BY <2>1, <2>2, <2>3, <2>4, <2>5, <2>6
  <2> QED
    BY <2>7 DEF after
<1>3. ASSUME NEW row \in DueRows PROVE owed'[row] >= (IF Untold(row)' THEN 1 ELSE 0)
  <2>1. Untold(row)' => row \in DueFor(deed) \/ Untold(row)
    BY StretchTells
  <2>2. owed[row] \in Int /\ owed[row] >= (IF Untold(row) THEN 1 ELSE 0)
    BY DEF OwedInv, TInv, TypeOK
  <2>3. owed'[row] = owed[row] + (IF row \in DueFor(deed) THEN 1 ELSE 0)
    BY <1>1
  <2> QED
    BY <2>1, <2>2, <2>3
<1> QED
  BY <1>1, <1>2, <1>3 DEF OwedInv

LEMMA AbortOwed ==
  ASSUME TInv, OwedInv, Abort
  PROVE  OwedInv'
<1> DEFINE S == {row \in DueRows : Untold(row)}
<1>1. Cardinality(S) \in 0 .. 2
  BY FewUntold
<1>2. /\ lost' = lost + Cardinality(S) /\ faults' = faults + 1
      /\ owed' = [row \in DueRows |-> IF Untold(row) THEN owed[row] - 1 ELSE owed[row]]
      /\ pending' = pending /\ req' = Idle
  BY DEF Abort
<1> HIDE DEF S
<1>3. lost \in 0 .. 2 * faults /\ faults \in Nat
  BY ConstantsAre DEF OwedInv, TInv, TypeOK
<1>4. lost' \in 0 .. 2 * faults'
  BY <1>1, <1>2, <1>3
<1>5. \A row : ~Untold(row)'
  BY <1>2, UntoldIs
<1>6. ASSUME NEW row \in Rows
      PROVE  owed'[row] = pending'[row] + (IF Untold(row)' THEN 1 ELSE 0)
  <2>1. row \in DueRows /\ owed[row] \in Int /\ pending[row] \in Nat
    BY DEF TInv, TypeOK, DueRows
  <2>2. owed[row] = pending[row] + (IF Untold(row) THEN 1 ELSE 0)
    BY DEF OwedInv
  <2>3. owed'[row] = IF Untold(row) THEN owed[row] - 1 ELSE owed[row]
    BY <1>2, <2>1
  <2> QED
    BY <1>2, <1>5, <2>1, <2>2, <2>3
<1>7. ASSUME NEW row \in DueRows PROVE owed'[row] >= (IF Untold(row)' THEN 1 ELSE 0)
  <2>1. owed[row] \in Int /\ owed[row] >= (IF Untold(row) THEN 1 ELSE 0)
    BY DEF OwedInv, TInv, TypeOK
  <2>2. owed'[row] = IF Untold(row) THEN owed[row] - 1 ELSE owed[row]
    BY <1>2
  <2> QED
    BY <1>5, <2>1, <2>2
<1> QED
  BY <1>4, <1>6, <1>7 DEF OwedInv

LEMMA InsertOwed ==
  ASSUME TInv, OwedInv, NEW row \in Rows, Insert(row) \/ InsertFails(row)
  PROVE  OwedInv'
<1>1. /\ pending' = [pending EXCEPT ![row] = @ - 1]
      /\ owed' = [owed EXCEPT ![row] = @ - 1]
      /\ req' = req
  BY DEF Insert, InsertFails, service
<1>2. ASSUME NEW other \in Rows
      PROVE  owed'[other] = pending'[other] + (IF Untold(other)' THEN 1 ELSE 0)
  <2>1. Untold(other)' <=> Untold(other)
    BY <1>1, UntoldIs
  <2>2. owed[other] = pending[other] + (IF Untold(other) THEN 1 ELSE 0)
    BY DEF OwedInv
  <2>3. other \in DueRows /\ owed[other] \in Int /\ pending[other] \in Int
    BY DEF TInv, TypeOK, DueRows
  <2>4. /\ owed'[other] = IF other = row THEN owed[other] - 1 ELSE owed[other]
        /\ pending'[other] = IF other = row THEN pending[other] - 1 ELSE pending[other]
    BY <1>1, <2>3 DEF TInv, TypeOK
  <2> QED
    BY <2>1, <2>2, <2>3, <2>4
<1>5. ASSUME NEW other \in DueRows
      PROVE  owed'[other] >= (IF Untold(other)' THEN 1 ELSE 0)
  <2>1. CASE other \in Rows
    <3>1. pending'[other] \in Nat
      BY <2>1, InsertTInv DEF TInv, TypeOK
    <3>2. owed'[other] = pending'[other] + (IF Untold(other)' THEN 1 ELSE 0)
      BY <1>2, <2>1
    <3> QED
      BY <3>1, <3>2
  <2>2. CASE other \notin Rows
    <3>1. owed'[other] = owed[other]
      BY <1>1, <2>2 DEF TInv, TypeOK
    <3>2. Untold(other)' <=> Untold(other)
      BY <1>1, UntoldIs
    <3> QED
      BY <3>1, <3>2 DEF OwedInv
  <2> QED
    BY <2>1, <2>2
<1>3. lost \in 0 .. 2 * faults /\ faults \in Nat
  BY ConstantsAre DEF OwedInv, TInv, TypeOK
<1>4. lost' \in 0 .. 2 * faults'
  <2>1. \/ lost' = lost /\ faults' = faults
        \/ lost' = lost + 1 /\ faults' = faults + 1
    BY DEF Insert, InsertFails
  <2> QED
    BY <1>3, <2>1
<1> QED
  BY <1>2, <1>4, <1>5 DEF OwedInv

LEMMA OwedStep == TInv /\ OwedInv /\ [Next]_vars => OwedInv'
<1> SUFFICES ASSUME TInv, OwedInv, [Next]_vars PROVE OwedInv'
  OBVIOUS
<1>1. ASSUME NEW kind \in Logins, Admit(kind) PROVE OwedInv'
  <2>1. req = Idle /\ req' = [kind |-> kind, at |-> 0] /\ UNCHANGED <<record, faults>>
    BY <1>1 DEF Admit, Room
  <2>2. \A row : ~Untold(row) /\ ~Untold(row)'
    BY <2>1, UntoldIs DEF DueBefore
  <2> QED
    BY <2>1, <2>2 DEF OwedInv, record
<1>2. ASSUME NEW kind \in Others, Accept(kind) PROVE OwedInv'
  <2>1. req = Idle /\ req' = [kind |-> kind, at |-> 1] /\ UNCHANGED <<record, faults>>
    BY <1>2 DEF Accept, Room
  <2>2. \A row : ~Untold(row) /\ ~Untold(row)'
    BY <2>1, UntoldIs DEF DueBefore
  <2> QED
    BY <2>1, <2>2 DEF OwedInv, record
<1>3. CASE FindUser
  <2>1. req.at = 0 /\ req'.at = 1 /\ UNCHANGED <<record, faults>>
    BY <1>3 DEF FindUser
  <2>2. \A row : ~Untold(row) /\ ~Untold(row)'
    BY <2>1, UntoldIs DEF DueBefore
  <2> QED
    BY <2>1, <2>2 DEF OwedInv, record
<1>4. CASE Proceed
  BY <1>4, ProceedOwed
<1>5. CASE Abort
  BY <1>5, AbortOwed
<1>6. ASSUME NEW row \in Rows, Insert(row) \/ InsertFails(row) PROVE OwedInv'
  BY <1>6, InsertOwed
<1>7. ASSUME UNCHANGED <<req, pending, owed, lost, faults>> PROVE OwedInv'
  <2>1. \A row : Untold(row)' <=> Untold(row)
    BY <1>7, UntoldIs
  <2> QED
    BY <1>7, <2>1 DEF OwedInv
<1>8. ASSUME NEW kind \in Logins, TooMany(kind) PROVE OwedInv'
  BY <1>7, <1>8 DEF TooMany, record
<1>9. CASE Tick
  BY <1>7, <1>9 DEF Tick, record
<1>10. CASE UNCHANGED vars
  BY <1>7, <1>10 DEF vars, service, record
<1> QED
  BY <1>1, <1>2, <1>3, <1>4, <1>5, <1>6, <1>8, <1>9, <1>10 DEF Next, Arrive, Quiet

LEMMA OwedInvAlways == Spec => [](TInv /\ OwedInv)
  BY TInvAlways, InitOwed, OwedStep, PTL DEF Spec

\* No row is written before what it records has happened, nor twice: on no path does an
\* emit run ahead of the write it tells of (audit.listener.ts, password.service.ts:57-67).
THEOREM NoRowAhead == Spec => []RowHasDeed
<1>1. TInv /\ OwedInv => RowHasDeed
  <2> SUFFICES ASSUME TInv, OwedInv, NEW row \in DueRows PROVE owed[row] >= 0
    BY DEF RowHasDeed
  <2>1. owed[row] \in Int
    BY DEF TInv, TypeOK
  <2>2. owed[row] >= (IF Untold(row) THEN 1 ELSE 0)
    BY DEF OwedInv
  <2> QED
    BY <2>1, <2>2
<1> QED
  BY <1>1, OwedInvAlways, PTL

\* When nothing is under way, every row that the listener can write and that was due is
\* there, except those of what was cut short, and none of these costs more than two rows.
\* The rows of changes of roles and permissions, which README.md:410 lists too, are not
\* meant: no event tells of such a change, and its row never comes.
THEOREM OnlyFaultsLoseRows == Spec => []MissingRowsAreFaults
<1>1. TInv /\ OwedInv => MissingRowsAreFaults
  <2> SUFFICES ASSUME TInv, OwedInv PROVE MissingRowsAreFaults
    OBVIOUS
  <2>1. lost <= 2 * faults
    BY ConstantsAre DEF OwedInv, TInv, TypeOK
  <2>2. ASSUME Resting, NEW row \in Rows PROVE owed[row] = 0
    <3>1. ~Untold(row)
      BY <2>2, UntoldIs DEF Resting
    <3>2. pending[row] = 0
      BY <2>2 DEF Resting, Settled
    <3>3. owed[row] = pending[row] + 0
      BY <3>1 DEF OwedInv
    <3> QED
      BY <3>2, <3>3
  <2> QED
    BY <2>1, <2>2 DEF MissingRowsAreFaults
<1> QED
  BY <1>1, OwedInvAlways, PTL

==============================================================================
