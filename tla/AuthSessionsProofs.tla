------------------------ MODULE AuthSessionsProofs ------------------------
(***************************************************************************)
(* Proofs, for every value of the constants, of the invariants and action  *)
(* properties of AuthSessions that hold under concurrency and faults.      *)
(***************************************************************************)
EXTENDS AuthSessions, TLAPS

-----------------------------------------------------------------------------
(* The strengthening under which the invariants are inductive.              *)

LoggingIn == {"sign", "store"}
Refreshing == {"check", "insert", "retire", "touch", "reissue"}
Reusing == {"family", "reuse"}
Authed == {"verify", "authed", "logout", "blacklist"}

Issuing == LoggingIn \cup Refreshing

\* What a slot's fields refer to.
SlotOK(r) ==
    /\ req[r].pc \in Issuing =>
         /\ req[r].session \in SessionIds
         /\ req[r].grant \in GrantIds
         /\ IsSession(req[r].session)
         /\ req[r].user = sessions[req[r].session].user
    /\ req[r].pc \in Refreshing =>
         /\ req[r].token \in GrantIds
         /\ IsToken(req[r].token)
         /\ tokens[req[r].token].session = req[r].session
    /\ req[r].pc = "store" => IsAccess(req[r].grant)
    /\ req[r].pc \in {"retire", "touch", "reissue"} => IsToken(req[r].grant)
    /\ req[r].pc \in Reusing =>
         /\ req[r].token \in GrantIds
         /\ req[r].session \in SessionIds
         /\ IsSession(req[r].session)
         /\ req[r].user = sessions[req[r].session].user
    /\ req[r].pc \in Authed =>
         /\ req[r].grant \in GrantIds
         /\ IsAccess(req[r].grant)
         /\ req[r].session \in SessionIds
         /\ IsSession(req[r].session)
         /\ req[r].user = sessions[req[r].session].user
    /\ req[r].pc = "revoke" =>
         \A s \in req[r].todo : IsSession(s) /\ sessions[s].user = req[r].user

\* What was written refers to rows that exist.
RowsOK ==
    /\ \A t \in GrantIds : IsToken(t) =>
         /\ tokens[t].session \in SessionIds
         /\ tokens[t].user = sessions[tokens[t].session].user
    /\ \A g \in GrantIds : IsAccess(g) =>
         /\ access[g].session \in SessionIds
         /\ access[g].user = sessions[access[g].session].user
    /\ \A g \in delivered : IsToken(g) /\ IsAccess(g)

\* The grant a slot is making is not there yet, and neither is a token of a
\* session that is being opened.
Fresh(r) ==
    /\ req[r].pc \in Issuing \ {"store"} => ~IsAccess(req[r].grant)
    /\ req[r].pc \in LoggingIn \cup {"check", "insert"} => ~IsToken(req[r].grant)
    /\ req[r].pc \in LoggingIn =>
         \A t \in GrantIds : IsToken(t) => tokens[t].session # req[r].session

\* No two slots make the same grant or open the same session.
Apart(q, r) ==
    /\ req[r].pc \in Issuing => req[q].grant # req[r].grant
    /\ req[r].pc \in LoggingIn /\ req[q].pc \in LoggingIn =>
         req[q].session # req[r].session

SlotsOK == \A r \in Reqs : SlotOK(r)
Reserved == \A r \in Reqs : Fresh(r) /\ \A q \in Reqs \ {r} : Apart(q, r)

\* A family is named after its first token; a rotation stays in it.
FamiliesOK ==
    /\ \A t \in GrantIds : IsToken(t) =>
         /\ tokens[t].family \in GrantIds
         /\ IsToken(tokens[t].family)
         /\ tokens[tokens[t].family].family = tokens[t].family
         /\ tokens[tokens[t].family].session = tokens[t].session
    /\ \A r \in Reqs : req[r].pc \in {"retire", "touch", "reissue"} =>
         tokens[req[r].grant].family = tokens[req[r].token].family

\* A refresh that began late is still to find out.
LateOK == \A r \in Reqs :
    req[r].late => req[r].pc = "check" /\ sessions[req[r].session].revoked

\* A key that stands for a token outlives it.
CutOffCovered == \A g \in cutOff :
    /\ IsAccess(g)
    /\ \/ access[g].exp <= blackJti[g]
       \/ access[g].exp <= blackSession[access[g].session]
       \/ access[g].exp <= now

IInv == SlotsOK /\ RowsOK /\ Reserved

-----------------------------------------------------------------------------
(* Arithmetic of identifiers and of the clock.                              *)

LEMMA ZeroIsNoId == 0 \notin SessionIds /\ 0 \notin GrantIds
  BY BoundsAssumption DEF SessionIds, GrantIds

-----------------------------------------------------------------------------
(* Type correctness.                                                        *)

LEMMA IdleTyped == Idle \in Slot
  BY DEF Idle, Slot, PCs, SessionRefs, GrantRefs

LEMMA InitTypeOK == Init => TypeOK
<1> SUFFICES ASSUME Init PROVE TypeOK
  OBVIOUS
<1>1. /\ sessions \in [SessionIds -> SessionRow]
      /\ tokens \in [GrantIds -> TokenRow]
      /\ access \in [GrantIds -> AccessRow]
  BY DEF Init, NoSession, NoToken, NoAccess, SessionRow, TokenRow, AccessRow,
         SessionRefs, GrantRefs
<1>2. /\ \A s \in SessionIds : sessions[s].expiresAt = 0 /\ blackSession[s] = 0
      /\ \A g \in GrantIds : /\ tokens[g].expiresAt = 0
                             /\ access[g].exp = 0
                             /\ blackJti[g] = 0
  BY DEF Init, NoSession, NoToken, NoAccess
<1>3. req \in [Reqs -> Slot]
  BY IdleTyped DEF Init
<1>4. now + RefreshTtl >= 0 /\ now + AccessTtl >= 0
  BY TtlAssumption DEF Init
<1> QED
  BY <1>1, <1>2, <1>3, <1>4, BoundsAssumption DEF Init, TypeOK

\* The slot updates: each leaves a slot of the right type.
LEMMA GotoTyped ==
  ASSUME TypeOK, NEW r \in Reqs, NEW p \in PCs, Goto(r, p)
  PROVE  req' \in [Reqs -> Slot]
<1>1. ASSUME NEW q \in Slot PROVE [q EXCEPT !.pc = p] \in Slot
  BY DEF Slot
<1> QED
  BY <1>1 DEF TypeOK, Goto

LEMMA DoneTyped ==
  ASSUME TypeOK, NEW r \in Reqs, Done(r)
  PROVE  req' \in [Reqs -> Slot]
  BY IdleTyped DEF TypeOK, Done

LEMMA StartTyped ==
  ASSUME TypeOK, NEW r \in Reqs, NEW q \in Slot, req' = [req EXCEPT ![r] = q]
  PROVE  req' \in [Reqs -> Slot]
  BY DEF TypeOK

LEMMA RevokeTyped ==
  ASSUME TypeOK, NEW r \in Reqs, NEW S \in SUBSET SessionIds,
         req' = [req EXCEPT ![r].pc = "revoke", ![r].todo = S]
  PROVE  req' \in [Reqs -> Slot]
<1>1. ASSUME NEW q \in Slot PROVE [q EXCEPT !.pc = "revoke", !.todo = S] \in Slot
  BY DEF Slot, PCs
<1> QED
  BY <1>1 DEF TypeOK

\* The row updates.
LEMMA RevokeTokensTyped ==
  ASSUME TypeOK, NEW G, RevokeTokens(G)
  PROVE  /\ tokens' \in [GrantIds -> TokenRow]
         /\ \A g \in GrantIds : tokens'[g].expiresAt = tokens[g].expiresAt
<1>1. ASSUME NEW q \in TokenRow
      PROVE  /\ [q EXCEPT !.revoked = TRUE] \in TokenRow
             /\ [q EXCEPT !.revoked = TRUE].expiresAt = q.expiresAt
  BY DEF TokenRow
<1> QED
  BY <1>1 DEF TypeOK, RevokeTokens

LEMMA RevokeSessionTyped ==
  ASSUME TypeOK, NEW s, RevokeSession(s)
  PROVE  /\ sessions' \in [SessionIds -> SessionRow]
         /\ \A i \in SessionIds : sessions'[i].expiresAt = sessions[i].expiresAt
<1>1. ASSUME NEW q \in SessionRow
      PROVE  /\ [q EXCEPT !.revoked = TRUE] \in SessionRow
             /\ [q EXCEPT !.revoked = TRUE].expiresAt = q.expiresAt
  BY DEF SessionRow
<1> QED
  BY <1>1 DEF TypeOK, RevokeSession

\* An access token is signed for AccessTtl from now.
LEMMA SignedTyped ==
  ASSUME TypeOK, NEW g \in GrantIds, NEW u \in Users \cup {NoUser},
         NEW s \in SessionRefs, Signed(g, u, s)
  PROVE  /\ access' \in [GrantIds -> AccessRow]
         /\ \A h \in GrantIds : access'[h].exp <= now + AccessTtl
<1> DEFINE row == [user |-> u, session |-> s, exp |-> AccessExpiry]
<1>1. row \in AccessRow /\ row.exp <= now + AccessTtl
  BY TtlAssumption DEF TypeOK, AccessRow, AccessExpiry
<1>2. access' = [access EXCEPT ![g] = row]
  BY DEF Signed
<1> QED
  BY <1>1, <1>2 DEF TypeOK

-----------------------------------------------------------------------------
LEMMA TypeStep == TypeOK /\ IInv /\ [Next]_vars => TypeOK'
<1> SUFFICES ASSUME TypeOK, IInv, [Next]_vars PROVE TypeOK'
  OBVIOUS
<1> USE TtlAssumption DEF db, redis, history
<1>1. ASSUME NEW r \in Reqs, NEW u \in Users, Login(r, u) PROVE TypeOK'
  <2>1. PICK s \in SessionIds, g \in GrantIds :
          /\ sessions' = [sessions EXCEPT ![s] = [user |-> u, revoked |-> FALSE,
                                                  expiresAt |-> RefreshExpiry]]
          /\ req' = [req EXCEPT ![r] = [Idle EXCEPT !.pc = "sign", !.user = u,
                                                    !.session = s, !.grant = g]]
    BY <1>1 DEF Login
  <2>2. [Idle EXCEPT !.pc = "sign", !.user = u, !.session = s, !.grant = g] \in Slot
    BY DEF Idle, Slot, PCs, SessionRefs, GrantRefs
  <2>3. req' \in [Reqs -> Slot]
    BY <2>1, <2>2, StartTyped
  <2>4. [user |-> u, revoked |-> FALSE, expiresAt |-> RefreshExpiry] \in SessionRow
    BY DEF SessionRow, RefreshExpiry, TypeOK
  <2> QED
    BY <1>1, <2>1, <2>3, <2>4 DEF Login, TypeOK, RefreshExpiry
<1>2. ASSUME NEW r \in Reqs, SignFirst(r) PROVE TypeOK'
  <2>1. req[r] \in Slot /\ req[r].pc \in LoggingIn
    BY <1>2 DEF SignFirst, At, LoggingIn, TypeOK
  <2>2. /\ req[r].grant \in GrantIds
        /\ req[r].user \in Users \cup {NoUser}
        /\ req[r].session \in SessionRefs
    BY <2>1 DEF IInv, SlotsOK, SlotOK, Issuing, Slot
  <2>3. req' \in [Reqs -> Slot]
    BY <1>2, GotoTyped DEF SignFirst, PCs
  <2> QED
    BY <1>2, <2>2, <2>3, SignedTyped DEF SignFirst, TypeOK
<1>3. ASSUME NEW r \in Reqs, StoreFirst(r) PROVE TypeOK'
  <2>1. req[r] \in Slot /\ req[r].pc \in LoggingIn
    BY <1>3 DEF StoreFirst, At, LoggingIn, TypeOK
  <2>2. /\ req[r].grant \in GrantIds
        /\ req[r].user \in Users \cup {NoUser}
        /\ req[r].session \in SessionIds
    BY <2>1 DEF IInv, SlotsOK, SlotOK, Issuing, Slot
  <2> DEFINE row == [user |-> req[r].user, session |-> req[r].session,
                     family |-> req[r].grant, revoked |-> FALSE, replacedBy |-> 0,
                     expiresAt |-> sessions[req[r].session].expiresAt]
  <2>3. row \in TokenRow /\ row.expiresAt <= now + RefreshTtl
    BY <2>2 DEF TypeOK, SessionRow, TokenRow, SessionRefs, GrantRefs
  <2>4. /\ tokens' = [tokens EXCEPT ![req[r].grant] = row]
        /\ delivered' = delivered \cup {req[r].grant}
    BY <1>3 DEF StoreFirst
  <2>5. req' \in [Reqs -> Slot]
    BY <1>3, DoneTyped DEF StoreFirst
  <2> HIDE DEF row
  <2> QED
    BY <1>3, <2>2, <2>3, <2>4, <2>5 DEF StoreFirst, TypeOK
<1>4. ASSUME NEW r \in Reqs, NEW t \in GrantIds, BeginRefresh(r, t) PROVE TypeOK'
  <2>1. PICK g \in GrantIds :
          req' = [req EXCEPT ![r] =
                    [Idle EXCEPT !.pc = "check", !.user = tokens[t].user,
                                 !.session = tokens[t].session, !.token = t,
                                 !.grant = g,
                                 !.late = sessions[tokens[t].session].revoked]]
    BY <1>4 DEF BeginRefresh
  <2>2. tokens[t] \in TokenRow /\ tokens[t].session \in SessionIds
    BY <1>4 DEF BeginRefresh, TypeOK, IInv, RowsOK
  <2>3. sessions[tokens[t].session].revoked \in BOOLEAN
    BY <2>2 DEF TypeOK, SessionRow
  <2>4. [Idle EXCEPT !.pc = "check", !.user = tokens[t].user,
                     !.session = tokens[t].session, !.token = t, !.grant = g,
                     !.late = sessions[tokens[t].session].revoked] \in Slot
    BY <2>2, <2>3 DEF Idle, Slot, PCs, SessionRefs, GrantRefs, TokenRow
  <2>5. req' \in [Reqs -> Slot]
    BY <2>1, <2>4, StartTyped
  <2> QED
    BY <1>4, <2>5 DEF BeginRefresh, TypeOK
<1>5. ASSUME NEW r \in Reqs, NEW t \in GrantIds, DetectReuse(r, t) PROVE TypeOK'
  <2>1. tokens[t] \in TokenRow
    BY DEF TypeOK
  <2>2. [Idle EXCEPT !.pc = "family", !.user = tokens[t].user,
                     !.session = tokens[t].session, !.token = t] \in Slot
    BY <2>1 DEF Idle, Slot, PCs, SessionRefs, GrantRefs, TokenRow
  <2>3. req' \in [Reqs -> Slot]
    BY <1>5, <2>2, StartTyped DEF DetectReuse
  <2> QED
    BY <1>5, <2>3 DEF DetectReuse, TypeOK
<1>6. ASSUME NEW r \in Reqs, CheckSession(r) \/ Validate(r) PROVE TypeOK'
  <2>1. req' \in [Reqs -> Slot]
    BY <1>6, GotoTyped, DoneTyped DEF CheckSession, Validate, PCs
  <2> QED
    BY <1>6, <2>1 DEF CheckSession, Validate, TypeOK
<1>7. ASSUME NEW r \in Reqs, InsertRotated(r) PROVE TypeOK'
  <2>1. req[r] \in Slot /\ req[r].pc \in Refreshing
    BY <1>7 DEF InsertRotated, At, Refreshing, TypeOK
  <2>2. /\ req[r].grant \in GrantIds
        /\ req[r].token \in GrantIds
        /\ req[r].user \in Users \cup {NoUser}
        /\ req[r].session \in SessionRefs
    BY <2>1 DEF IInv, SlotsOK, SlotOK, Issuing, Slot
  <2> DEFINE row == [user |-> req[r].user, session |-> req[r].session,
                     family |-> RotatedFamily(req[r].token, req[r].grant),
                     revoked |-> FALSE, replacedBy |-> 0,
                     expiresAt |-> RefreshExpiry]
  <2>3. row \in TokenRow /\ row.expiresAt <= now + RefreshTtl
    BY <2>2 DEF TypeOK, TokenRow, SessionRefs, GrantRefs, RotatedFamily, RefreshExpiry
  <2>4. tokens' = [tokens EXCEPT ![req[r].grant] = row]
    BY <1>7 DEF InsertRotated
  <2>5. req' \in [Reqs -> Slot]
    BY <1>7, GotoTyped DEF InsertRotated, PCs
  <2> HIDE DEF row
  <2> QED
    BY <1>7, <2>2, <2>3, <2>4, <2>5 DEF InsertRotated, TypeOK
<1>8. ASSUME NEW r \in Reqs, RetireOld(r) PROVE TypeOK'
  <2>1. ASSUME NEW q \in TokenRow
        PROVE  /\ Retired(q, req[r].grant) \in TokenRow
               /\ Retired(q, req[r].grant).expiresAt = q.expiresAt
    BY DEF Retired, TokenRow, TypeOK, Slot
  <2>2. tokens' = [tokens EXCEPT ![req[r].token] =
                     Retired(tokens[req[r].token], req[r].grant)]
    BY <1>8 DEF RetireOld
  <2>3. req' \in [Reqs -> Slot]
    BY <1>8, GotoTyped DEF RetireOld, PCs
  <2>4. /\ tokens' \in [GrantIds -> TokenRow]
        /\ \A g \in GrantIds : tokens'[g].expiresAt = tokens[g].expiresAt
    BY <2>1, <2>2 DEF TypeOK
  <2> QED
    BY <1>8, <2>3, <2>4 DEF RetireOld, TypeOK
<1>9. ASSUME NEW r \in Reqs, TouchSession(r) PROVE TypeOK'
  <2>1. req[r] \in Slot /\ req[r].pc \in Refreshing
    BY <1>9 DEF TouchSession, At, Refreshing, TypeOK
  <2>2. req[r].grant \in GrantIds
    BY <2>1 DEF IInv, SlotsOK, SlotOK, Issuing
  <2>3. tokens[req[r].grant].expiresAt \in Nat
    BY <2>2 DEF TypeOK, TokenRow
  <2>4. ASSUME NEW q \in SessionRow
        PROVE  /\ Touched(q, tokens[req[r].grant].expiresAt) \in SessionRow
               /\ Touched(q, tokens[req[r].grant].expiresAt).expiresAt =
                    tokens[req[r].grant].expiresAt
    BY <2>3 DEF Touched, SessionRow
  <2>5. sessions' = [sessions EXCEPT ![req[r].session] =
                       Touched(sessions[req[r].session], tokens[req[r].grant].expiresAt)]
    BY <1>9 DEF TouchSession
  <2>6. req' \in [Reqs -> Slot]
    BY <1>9, GotoTyped DEF TouchSession, PCs
  <2>7. sessions' \in [SessionIds -> SessionRow]
    BY <2>4, <2>5 DEF TypeOK
  <2>8. ASSUME NEW s \in SessionIds PROVE sessions'[s].expiresAt <= now + RefreshTtl
    BY <2>2, <2>4, <2>5 DEF TypeOK
  <2> QED
    BY <1>9, <2>6, <2>7, <2>8 DEF TouchSession, TypeOK
<1>10. ASSUME NEW r \in Reqs, SignRotated(r) PROVE TypeOK'
  <2>1. req[r] \in Slot /\ req[r].pc \in Refreshing
    BY <1>10 DEF SignRotated, At, Refreshing, TypeOK
  <2>2. /\ req[r].grant \in GrantIds
        /\ req[r].user \in Users \cup {NoUser}
        /\ req[r].session \in SessionRefs
    BY <2>1 DEF IInv, SlotsOK, SlotOK, Issuing, Slot
  <2>3. req' \in [Reqs -> Slot]
    BY <1>10, DoneTyped DEF SignRotated
  <2> QED
    BY <1>10, <2>2, <2>3, SignedTyped DEF SignRotated, TypeOK
<1>11. ASSUME NEW r \in Reqs, RevokeReusedFamily(r) PROVE TypeOK'
  <2>1. req' \in [Reqs -> Slot]
    BY <1>11, GotoTyped DEF RevokeReusedFamily, AfterReusedFamily, PCs
  <2> QED
    BY <1>11, <2>1, RevokeTokensTyped DEF RevokeReusedFamily, TypeOK
<1>12. ASSUME NEW r \in Reqs, RevokeReusedSession(r) PROVE TypeOK'
  <2>1. req' \in [Reqs -> Slot]
    BY <1>12, DoneTyped DEF RevokeReusedSession
  <2>2. ended' \in [SessionIds -> SUBSET Endings]
    BY <1>12 DEF RevokeReusedSession, TypeOK, Endings
  <2> QED
    BY <1>12, <2>1, <2>2, RevokeSessionTyped DEF RevokeReusedSession, TypeOK
<1>13. ASSUME NEW r \in Reqs, NEW g \in GrantIds, Verify(r, g) PROVE TypeOK'
  <2>1. access[g] \in AccessRow
    BY DEF TypeOK
  <2>2. [Idle EXCEPT !.pc = "verify", !.grant = g, !.user = access[g].user,
                     !.session = access[g].session] \in Slot
    BY <2>1 DEF Idle, Slot, PCs, SessionRefs, GrantRefs, AccessRow
  <2>3. req' \in [Reqs -> Slot]
    BY <1>13, <2>2, StartTyped DEF Verify
  <2> QED
    BY <1>13, <2>3 DEF Verify, TypeOK
<1>14. ASSUME NEW r \in Reqs, Answer(r) PROVE TypeOK'
  BY <1>14, DoneTyped DEF Answer, TypeOK
<1>15. ASSUME NEW r \in Reqs, NEW t \in GrantIds, LogoutFamily(r, t) PROVE TypeOK'
  <2>1. req' \in [Reqs -> Slot]
    BY <1>15, GotoTyped DEF LogoutFamily, PCs
  <2>2. ended' \in [SessionIds -> SUBSET Endings]
    BY <1>15 DEF LogoutFamily, TypeOK, Endings
  <2> QED
    BY <1>15, <2>1, <2>2, RevokeTokensTyped DEF LogoutFamily, TypeOK
<1>16. ASSUME NEW r \in Reqs, LogoutSession(r) PROVE TypeOK'
  <2>1. req' \in [Reqs -> Slot]
    BY <1>16, GotoTyped DEF LogoutSession, PCs
  <2> QED
    BY <1>16, <2>1, RevokeSessionTyped DEF LogoutSession, TypeOK
<1>17. ASSUME NEW r \in Reqs, LogoutBlacklist(r) PROVE TypeOK'
  <2>1. req' \in [Reqs -> Slot]
    BY <1>17, DoneTyped DEF LogoutBlacklist
  <2>2. ended' \in [SessionIds -> SUBSET Endings]
    BY <1>17 DEF LogoutBlacklist, TypeOK, Endings
  <2>3. req[r].grant \in GrantIds
    BY <1>17 DEF LogoutBlacklist, At, IInv, SlotsOK, SlotOK, Issuing, Authed
  <2>4. access[req[r].grant].exp \in Nat
    BY <2>3 DEF TypeOK, AccessRow
  <2>5. cutOff' \subseteq GrantIds
    BY <1>17, <2>3 DEF LogoutBlacklist, TypeOK
  <2>6. /\ blackJti' \in [GrantIds -> Nat]
        /\ \A g \in GrantIds : blackJti'[g] <= now + AccessTtl
    BY <1>17, <2>3, <2>4 DEF LogoutBlacklist, TypeOK
  <2> QED
    BY <1>17, <2>1, <2>2, <2>5, <2>6 DEF LogoutBlacklist, TypeOK
<1>18. ASSUME NEW r \in Reqs, NEW s \in SessionIds, RevokeOne(r, s) PROVE TypeOK'
  <2>1. req' \in [Reqs -> Slot]
    <3>1. {s} \in SUBSET SessionIds
      OBVIOUS
    <3> QED
      BY <1>18, <3>1, RevokeTyped DEF RevokeOne
  <2> QED
    BY <1>18, <2>1 DEF RevokeOne, TypeOK
<1>19. ASSUME NEW r \in Reqs, RevokeOthers(r) PROVE TypeOK'
  <2>1. req' \in [Reqs -> Slot]
    BY <1>19, RevokeTyped DEF RevokeOthers, ActiveExcept
  <2> QED
    BY <1>19, <2>1 DEF RevokeOthers, TypeOK
<1>20. ASSUME NEW r \in Reqs, NEW u \in Users, RevokeAllOf(r, u) PROVE TypeOK'
  <2>1. ActiveExcept(u, 0) \in SUBSET SessionIds
    BY DEF ActiveExcept
  <2>2. [Idle EXCEPT !.pc = "revoke", !.user = u, !.todo = ActiveExcept(u, 0)] \in Slot
    BY <2>1 DEF Idle, Slot, PCs, SessionRefs, GrantRefs
  <2>3. req' \in [Reqs -> Slot]
    BY <1>20, <2>2, StartTyped DEF RevokeAllOf
  <2> QED
    BY <1>20, <2>3 DEF RevokeAllOf, TypeOK
<1>21. ASSUME NEW r \in Reqs, RevokeTx(r) PROVE TypeOK'
  <2>1. req' \in [Reqs -> Slot]
    BY <1>21, GotoTyped DEF RevokeTx, PCs
  <2>2. ASSUME NEW q \in SessionRow
        PROVE  /\ [q EXCEPT !.revoked = TRUE] \in SessionRow
               /\ [q EXCEPT !.revoked = TRUE].expiresAt = q.expiresAt
    BY DEF SessionRow
  <2>3. /\ sessions' \in [SessionIds -> SessionRow]
        /\ \A i \in SessionIds : sessions'[i].expiresAt = sessions[i].expiresAt
    BY <1>21, <2>2 DEF RevokeTx, TypeOK
  <2> QED
    BY <1>21, <2>1, <2>3, RevokeTokensTyped DEF RevokeTx, TypeOK
<1>22. ASSUME NEW r \in Reqs, NEW s \in SessionIds, BlacklistSession(r, s) PROVE TypeOK'
  <2>1. ASSUME NEW q \in Slot, NEW S \in SUBSET SessionIds
        PROVE  [q EXCEPT !.todo = S] \in Slot
    BY DEF Slot
  <2>2. StillToDo(req[r].todo, s) \in SUBSET SessionIds
    BY DEF StillToDo, TypeOK, Slot
  <2>3. req' \in [Reqs -> Slot]
    <3>1. \/ Done(r)
          \/ req' = [req EXCEPT ![r].todo = StillToDo(req[r].todo, s)]
      BY <1>22 DEF BlacklistSession
    <3>2. [req[r] EXCEPT !.todo = StillToDo(req[r].todo, s)] \in Slot
      BY <2>1, <2>2 DEF TypeOK
    <3>3. CASE req' = [req EXCEPT ![r].todo = StillToDo(req[r].todo, s)]
      BY <3>2, <3>3 DEF TypeOK
    <3> QED
      BY <3>1, <3>3, DoneTyped
  <2>4. ended' \in [SessionIds -> SUBSET Endings]
    BY <1>22 DEF BlacklistSession, TypeOK, Endings
  <2>5. cutOff' \subseteq GrantIds
    BY <1>22 DEF BlacklistSession, TypeOK
  <2>6. /\ blackSession' \in [SessionIds -> Nat]
        /\ \A i \in SessionIds : blackSession'[i] <= now + AccessTtl
    BY <1>22 DEF BlacklistSession, CutOffExpiry, TypeOK
  <2> QED
    BY <1>22, <2>3, <2>4, <2>5, <2>6 DEF BlacklistSession, TypeOK
<1>23. ASSUME NEW r \in Reqs, Abort(r) PROVE TypeOK'
  BY <1>23, DoneTyped, BoundsAssumption DEF Abort, TypeOK
<1>24. CASE RedisRestart
  BY <1>24, BoundsAssumption DEF RedisRestart, TypeOK
<1>25. CASE Tick
  <2>1. ASSUME NEW n \in Nat, n <= now + RefreshTtl PROVE n <= now' + RefreshTtl
    BY <1>25, <2>1 DEF Tick, TypeOK
  <2>2. ASSUME NEW n \in Nat, n <= now + AccessTtl PROVE n <= now' + AccessTtl
    BY <1>25, <2>2 DEF Tick, TypeOK
  <2> QED
    BY <1>25, <2>1, <2>2, BoundsAssumption
       DEF Tick, TypeOK, SessionRow, TokenRow, AccessRow
<1>26. CASE UNCHANGED vars
  BY <1>26 DEF vars, TypeOK
<1> QED
  BY <1>1, <1>2, <1>3, <1>4, <1>5, <1>6, <1>7, <1>8, <1>9, <1>10, <1>11, <1>12,
     <1>13, <1>14, <1>15, <1>16, <1>17, <1>18, <1>19, <1>20, <1>21, <1>22,
     <1>23, <1>24, <1>25, <1>26
     DEF Next, Step, Call, Quiet

-----------------------------------------------------------------------------
(* What a slot looks like after each kind of update.                        *)

LEMMA GotoEffect ==
  ASSUME TypeOK, NEW r \in Reqs, NEW p, Goto(r, p)
  PROVE  /\ \A q \in Reqs \ {r} : req'[q] = req[q]
         /\ req'[r].pc = p
         /\ req'[r].user = req[r].user
         /\ req'[r].session = req[r].session
         /\ req'[r].token = req[r].token
         /\ req'[r].grant = req[r].grant
         /\ req'[r].todo = req[r].todo
         /\ req'[r].late = req[r].late
<1>1. ASSUME NEW x \in Slot
      PROVE  LET y == [x EXCEPT !.pc = p] IN
             /\ y.pc = p /\ y.user = x.user /\ y.session = x.session
             /\ y.token = x.token /\ y.grant = x.grant /\ y.todo = x.todo
             /\ y.late = x.late
  BY DEF Slot
<1>2. /\ req[r] \in Slot
      /\ req'[r] = [req[r] EXCEPT !.pc = p]
      /\ \A q \in Reqs \ {r} : req'[q] = req[q]
  BY DEF TypeOK, Goto
<1> QED
  BY <1>1, <1>2

LEMMA DoneEffect ==
  ASSUME TypeOK, NEW r \in Reqs, Done(r)
  PROVE  /\ \A q \in Reqs \ {r} : req'[q] = req[q]
         /\ req'[r].pc = "idle"
         /\ req'[r].grant = 0
         /\ req'[r].late = FALSE
  BY DEF TypeOK, Done, Idle

\* The two parts of Reserved about pairs of slots, after slot r has changed.
LEMMA StayApart ==
  ASSUME Reserved, NEW r \in Reqs,
         \A q \in Reqs \ {r} : req'[q] = req[q],
         \A q \in Reqs \ {r} : req[q].pc \in Issuing => req'[r].grant # req[q].grant,
         req'[r].pc \in Issuing =>
           \A q \in Reqs \ {r} : req[q].grant # req'[r].grant,
         req'[r].pc \in LoggingIn =>
           \A q \in Reqs \ {r} :
             req[q].pc \in LoggingIn => req[q].session # req'[r].session
  PROVE  \A p \in Reqs : \A q \in Reqs \ {p} : Apart(q, p)'
<1> TAKE p \in Reqs
<1> TAKE q \in Reqs \ {p}
<1>1. CASE p = r
  BY <1>1 DEF Apart
<1>2. CASE q = r
  BY <1>2 DEF Apart
<1>3. CASE p # r /\ q # r
  BY <1>3 DEF Apart, Reserved
<1> QED
  BY <1>1, <1>2, <1>3

LEMMA GotoApart ==
  ASSUME TypeOK, Reserved, NEW r \in Reqs, NEW p, Goto(r, p),
         p \in Issuing => req[r].pc \in Issuing,
         p \in LoggingIn => req[r].pc \in LoggingIn
  PROVE  \A q \in Reqs : \A x \in Reqs \ {q} : Apart(x, q)'
  BY GotoEffect, StayApart DEF Reserved, Apart

LEMMA DoneApart ==
  ASSUME TypeOK, SlotsOK, Reserved, NEW r \in Reqs, Done(r)
  PROVE  \A q \in Reqs : \A x \in Reqs \ {q} : Apart(x, q)'
<1>1. "idle" \notin Issuing /\ "idle" \notin LoggingIn
  BY DEF Issuing, LoggingIn, Refreshing
<1>2. \A q \in Reqs : req[q].pc \in Issuing => req[q].grant # 0
  BY ZeroIsNoId DEF SlotsOK, SlotOK
<1>3. /\ \A q \in Reqs \ {r} : req'[q] = req[q]
      /\ req'[r].pc = "idle"
      /\ req'[r].grant = 0
  BY DoneEffect
<1>4. \A q \in Reqs \ {r} : req[q].pc \in Issuing => req'[r].grant # req[q].grant
  BY <1>2, <1>3
<1> QED
  BY <1>1, <1>3, <1>4, StayApart

\* A request that starts with a grant nobody is making, or with none.
LEMMA StartApart ==
  ASSUME TypeOK, Reserved, NEW r \in Reqs, NEW x \in Slot,
         req' = [req EXCEPT ![r] = x],
         x.pc \notin Issuing,
         \A q \in Reqs : req[q].pc \in Issuing => x.grant # req[q].grant
  PROVE  \A p \in Reqs : \A q \in Reqs \ {p} : Apart(q, p)'
<1>1. req'[r] = x /\ \A q \in Reqs \ {r} : req'[q] = req[q]
  BY DEF TypeOK
<1>2. x.pc \notin LoggingIn
  BY DEF Issuing
<1> QED
  BY <1>1, <1>2, StayApart

-----------------------------------------------------------------------------
(* Steps that create no row and change no row's owner, session or family.   *)

SameRows ==
    /\ \A s \in SessionIds : sessions'[s].user = sessions[s].user
    /\ \A t \in GrantIds : /\ tokens'[t].user = tokens[t].user
                           /\ tokens'[t].session = tokens[t].session
                           /\ tokens'[t].family = tokens[t].family
    /\ access' = access
    /\ delivered' = delivered

LEMMA SameRowsOK == ASSUME TypeOK, RowsOK, SameRows PROVE RowsOK'
  BY DEF TypeOK, RowsOK, SameRows, IsToken, IsAccess

\* Rows are only added: what a slot refers to is still there.
RowsGrow ==
    /\ \A s \in SessionIds : IsSession(s) => sessions'[s].user = sessions[s].user
    /\ \A t \in GrantIds : IsToken(t) => /\ tokens'[t].user = tokens[t].user
                                         /\ tokens'[t].session = tokens[t].session
                                         /\ tokens'[t].family = tokens[t].family
    /\ \A g \in GrantIds : IsAccess(g) => access'[g] = access[g]

LEMMA GrownSlotOK ==
  ASSUME TypeOK, RowsGrow, NEW q \in Reqs, SlotOK(q), req'[q] = req[q]
  PROVE  SlotOK(q)'
<1>1. req[q].todo \subseteq SessionIds
  BY DEF TypeOK, Slot
<1> QED
  BY <1>1 DEF RowsGrow, SlotOK, IsToken, IsAccess, IsSession, Issuing, LoggingIn,
              Refreshing

LEMMA SameSlotOK ==
  ASSUME TypeOK, SameRows, NEW q \in Reqs, SlotOK(q), Fresh(q), req'[q] = req[q]
  PROVE  SlotOK(q)' /\ Fresh(q)'
<1>1. req[q] \in Slot
  BY DEF TypeOK
<1>2. SlotOK(q)'
  BY GrownSlotOK DEF SameRows, RowsGrow
<1>3. Fresh(q)'
  BY <1>1 DEF SameRows, SlotOK, Fresh, IsToken, IsAccess, Issuing, LoggingIn, Refreshing
<1> QED
  BY <1>2, <1>3

\* Slot r has finished.
LEMMA FinishedOK ==
  ASSUME TypeOK, IInv, SameRows, NEW r \in Reqs, Done(r)
  PROVE  IInv'
<1>1. ASSUME NEW q \in Reqs PROVE SlotOK(q)' /\ Fresh(q)'
  <2>1. CASE q = r
    BY <2>1, DoneEffect DEF SlotOK, Fresh, Issuing, LoggingIn, Refreshing, Reusing, Authed
  <2>2. CASE q # r
    BY <2>2, DoneEffect, SameSlotOK DEF IInv, SlotsOK, Reserved
  <2> QED
    BY <2>1, <2>2
<1> QED
  BY <1>1, SameRowsOK, DoneApart DEF IInv, SlotsOK, Reserved

\* Slot r has moved on, within its operation.
LEMMA MovedOK ==
  ASSUME TypeOK, IInv, SameRows, NEW r \in Reqs, NEW p, Goto(r, p),
         \/ req[r].pc = "check" /\ p = "insert"
         \/ req[r].pc = "retire" /\ p = "touch"
         \/ req[r].pc = "touch" /\ p = "reissue"
         \/ req[r].pc = "family" /\ p = "reuse"
         \/ req[r].pc \in Authed /\ p \in Authed
         \/ p = "cutoff"
  PROVE  IInv'
<1> USE DEF Issuing, LoggingIn, Refreshing, Reusing, Authed
<1>1. ASSUME NEW q \in Reqs PROVE SlotOK(q)' /\ Fresh(q)'
  <2>1. CASE q = r
    BY <2>1, GotoEffect DEF SlotOK, Fresh, IInv, SlotsOK, Reserved, SameRows,
                            TypeOK, Slot, IsToken, IsAccess, IsSession
  <2>2. CASE q # r
    BY <2>2, GotoEffect, SameSlotOK DEF IInv, SlotsOK, Reserved
  <2> QED
    BY <2>1, <2>2
<1>2. \A q \in Reqs : \A x \in Reqs \ {q} : Apart(x, q)'
  BY GotoApart DEF IInv
<1> QED
  BY <1>1, <1>2, SameRowsOK DEF IInv, SlotsOK, Reserved

\* Slot r has taken up a request that issues nothing.
LEMMA StartedOK ==
  ASSUME TypeOK, IInv, SameRows, NEW r \in Reqs, NEW x \in Slot,
         req' = [req EXCEPT ![r] = x],
         x.pc \notin Issuing,
         \A q \in Reqs : req[q].pc \in Issuing => x.grant # req[q].grant,
         SlotOK(r)'
  PROVE  IInv'
<1>1. ASSUME NEW q \in Reqs PROVE SlotOK(q)' /\ Fresh(q)'
  <2>1. CASE q = r
    BY <2>1 DEF Fresh, Issuing, TypeOK, LoggingIn, Refreshing
  <2>2. CASE q # r
    BY <2>2, SameSlotOK DEF IInv, SlotsOK, Reserved, TypeOK
  <2> QED
    BY <2>1, <2>2
<1>2. \A q \in Reqs : \A y \in Reqs \ {q} : Apart(y, q)'
  BY StartApart DEF IInv
<1> QED
  BY <1>1, <1>2, SameRowsOK DEF IInv, SlotsOK, Reserved

\* The row updates that leave owners, sessions and families alone.
LEMMA RevokeTokensSame ==
  ASSUME TypeOK, NEW G, RevokeTokens(G)
  PROVE  \A t \in GrantIds : /\ tokens'[t].user = tokens[t].user
                             /\ tokens'[t].session = tokens[t].session
                             /\ tokens'[t].family = tokens[t].family
                             /\ tokens'[t].replacedBy = tokens[t].replacedBy
                             /\ tokens[t].revoked => tokens'[t].revoked
<1>1. ASSUME NEW x \in TokenRow
      PROVE  LET y == [x EXCEPT !.revoked = TRUE] IN
             /\ y.user = x.user /\ y.session = x.session /\ y.family = x.family
             /\ y.replacedBy = x.replacedBy /\ y.revoked
  BY DEF TokenRow
<1> QED
  BY <1>1 DEF TypeOK, RevokeTokens

LEMMA RevokedRow ==
  ASSUME NEW x \in SessionRow
  PROVE  LET y == [x EXCEPT !.revoked = TRUE] IN y.user = x.user /\ y.revoked
  BY DEF SessionRow

LEMMA RevokeSessionSame ==
  ASSUME TypeOK, NEW s, RevokeSession(s)
  PROVE  \A i \in SessionIds : /\ sessions'[i].user = sessions[i].user
                               /\ sessions[i].revoked => sessions'[i].revoked
  BY RevokedRow DEF TypeOK, RevokeSession

LEMMA RevokeTxSame ==
  ASSUME TypeOK, NEW r \in Reqs, RevokeTx(r)
  PROVE  \A i \in SessionIds : /\ sessions'[i].user = sessions[i].user
                               /\ sessions[i].revoked => sessions'[i].revoked
  BY RevokedRow DEF TypeOK, RevokeTx

LEMMA RetireOldSame ==
  ASSUME TypeOK, NEW r \in Reqs, RetireOld(r)
  PROVE  \A t \in GrantIds : /\ tokens'[t].user = tokens[t].user
                             /\ tokens'[t].session = tokens[t].session
                             /\ tokens'[t].family = tokens[t].family
                             /\ tokens[t].revoked => tokens'[t].revoked
<1>1. ASSUME NEW x \in TokenRow
      PROVE  LET y == Retired(x, req[r].grant) IN
             /\ y.user = x.user /\ y.session = x.session /\ y.family = x.family
             /\ y.revoked
  BY DEF TokenRow, Retired
<1> QED
  BY <1>1 DEF TypeOK, RetireOld

LEMMA TouchSessionSame ==
  ASSUME TypeOK, NEW r \in Reqs, TouchSession(r)
  PROVE  \A i \in SessionIds : /\ sessions'[i].user = sessions[i].user
                               /\ sessions[i].revoked = sessions'[i].revoked
<1>1. ASSUME NEW x \in SessionRow, NEW t
      PROVE  Touched(x, t).user = x.user /\ Touched(x, t).revoked = x.revoked
  BY DEF SessionRow, Touched
<1> QED
  BY <1>1 DEF TypeOK, TouchSession

-----------------------------------------------------------------------------
(* The coherence of slots and rows.                                         *)

LEMMA InitIInv == Init => IInv
  BY DEF Init, IInv, SlotsOK, SlotOK, RowsOK, Reserved, Fresh, Apart, Idle, NoToken,
         NoAccess, IsToken, IsAccess, Issuing, LoggingIn, Refreshing, Reusing, Authed

LEMMA LoginIInv ==
  ASSUME TypeOK, IInv, NEW r \in Reqs, NEW u \in Users, Login(r, u)
  PROVE  IInv'
<1> DEFINE new(s, g) == [Idle EXCEPT !.pc = "sign", !.user = u, !.session = s, !.grant = g]
<1>1. PICK s \in SessionIds \ UsedSessions, g \in GrantIds \ UsedGrants :
        /\ sessions' = [sessions EXCEPT ![s] = [user |-> u, revoked |-> FALSE,
                                                expiresAt |-> RefreshExpiry]]
        /\ req' = [req EXCEPT ![r] = new(s, g)]
  BY DEF Login, Lowest
<1>2. /\ req'[r].pc = "sign" /\ req'[r].user = u
      /\ req'[r].session = s /\ req'[r].grant = g
      /\ \A q \in Reqs \ {r} : req'[q] = req[q]
  BY <1>1 DEF TypeOK, Idle
<1>3. /\ ~IsSession(s) /\ ~IsToken(g) /\ ~IsAccess(g)
      /\ \A q \in Reqs : req[q].grant # g
  BY DEF UsedSessions, UsedGrants
<1>4. /\ \A i \in SessionIds : IsSession(i) => sessions'[i].user = sessions[i].user
      /\ sessions'[s].user = u
      /\ tokens' = tokens /\ access' = access /\ delivered' = delivered
  BY <1>1, <1>3 DEF TypeOK, Login, IsSession
<1>5. u # NoUser
  BY UsersAssumption
<1>6. /\ \A t \in GrantIds : IsToken(t) => IsSession(tokens[t].session)
      /\ \A t \in GrantIds : IsAccess(t) => IsSession(access[t].session)
  BY DEF IInv, RowsOK, IsToken, IsAccess, IsSession
<1>7. RowsOK'
  BY <1>4, <1>6 DEF IInv, RowsOK, IsToken, IsAccess
<1>8. ASSUME NEW q \in Reqs \ {r} PROVE SlotOK(q)' /\ Fresh(q)'
  <2>1. SlotOK(q) /\ Fresh(q) /\ req[q] \in Slot
    BY DEF IInv, SlotsOK, Reserved, TypeOK
  <2>2. req'[q] = req[q]
    BY <1>2
  <2>3. RowsGrow
    BY <1>4 DEF RowsGrow
  <2>4. SlotOK(q)'
    BY <2>1, <2>2, <2>3, GrownSlotOK
  <2>5. Fresh(q)'
    BY <2>1, <2>2, <1>4 DEF Fresh, IsToken, IsAccess
  <2> QED
    BY <2>4, <2>5
<1>9. SlotOK(r)' /\ Fresh(r)'
  BY <1>2, <1>3, <1>4, <1>5, <1>6 DEF SlotOK, Fresh, IsToken, IsAccess, IsSession,
     Issuing, LoggingIn, Refreshing, Reusing, Authed
<1>10. \A q \in Reqs : req[q].pc \in LoggingIn => req[q].session # s
  BY <1>3 DEF IInv, SlotsOK, SlotOK, Issuing
<1>11. \A p \in Reqs : \A q \in Reqs \ {p} : Apart(q, p)'
  BY <1>2, <1>3, <1>10, StayApart DEF IInv
<1> QED
  BY <1>7, <1>8, <1>9, <1>11 DEF IInv, SlotsOK, Reserved

\* signAccessTokenForUser, of a login (next is "store") or of a refresh.
LEMMA SignedEffect ==
  ASSUME TypeOK, NEW r \in Reqs, SlotOK(r), Fresh(r),
         req[r].pc \in {"sign", "reissue"},
         Signed(req[r].grant, req[r].user, req[r].session)
  PROVE  /\ \A g \in GrantIds \ {req[r].grant} : access'[g] = access[g]
         /\ \A g \in GrantIds : IsAccess(g) => access'[g] = access[g]
         /\ access'[req[r].grant].session = req[r].session
         /\ access'[req[r].grant].user = req[r].user
         /\ req[r].user # NoUser
  BY DEF TypeOK, SlotOK, Fresh, Signed, IsAccess, IsSession, Issuing, LoggingIn, Refreshing
LEMMA SignFirstIInv ==
  ASSUME TypeOK, IInv, NEW r \in Reqs, SignFirst(r)
  PROVE  IInv'
<1> DEFINE g == req[r].grant
<1>1. /\ req[r].pc = "sign"
      /\ Signed(req[r].grant, req[r].user, req[r].session)
      /\ Goto(r, "store")
      /\ sessions' = sessions /\ tokens' = tokens /\ delivered' = delivered
  BY DEF SignFirst, At, db
<1>2. SlotOK(r) /\ Fresh(r) /\ req[r] \in Slot
  BY DEF IInv, SlotsOK, Reserved, TypeOK
<1>3. /\ \A h \in GrantIds \ {g} : access'[h] = access[h]
      /\ \A h \in GrantIds : IsAccess(h) => access'[h] = access[h]
      /\ access'[g].session = req[r].session
      /\ access'[g].user = req[r].user
      /\ req[r].user # NoUser
  BY <1>1, <1>2, SignedEffect
<1>4. RowsGrow
  BY <1>1, <1>3 DEF RowsGrow
<1>5. RowsOK'
  <2>1. /\ req[r].session \in SessionIds
        /\ req[r].user = sessions[req[r].session].user
    BY <1>1, <1>2 DEF SlotOK, Issuing, LoggingIn
  <2> QED
    BY <1>1, <1>3, <2>1 DEF IInv, RowsOK, IsToken, IsAccess, TypeOK
<1>6. ASSUME NEW q \in Reqs PROVE SlotOK(q)' /\ Fresh(q)'
  <2>1. CASE q = r
    BY <1>1, <1>2, <1>3, <2>1, GotoEffect
       DEF SlotOK, Fresh, IsToken, IsAccess, IsSession,
           Issuing, LoggingIn, Refreshing, Reusing, Authed
  <2>2. CASE q # r
    <3>1. req'[q] = req[q] /\ SlotOK(q) /\ Fresh(q) /\ Apart(r, q)
      BY <1>1, <2>2, GotoEffect DEF IInv, SlotsOK, Reserved
    <3>2. SlotOK(q)'
      BY <1>4, <3>1, GrownSlotOK
    <3>3. Fresh(q)'
      BY <1>1, <1>3, <3>1 DEF Fresh, Apart, SlotOK, IsToken, IsAccess
    <3> QED
      BY <3>2, <3>3
  <2> QED
    BY <2>1, <2>2
<1>7. \A q \in Reqs : \A x \in Reqs \ {q} : Apart(x, q)'
  BY <1>1, GotoApart DEF IInv, Issuing, LoggingIn
<1> QED
  BY <1>5, <1>6, <1>7 DEF IInv, SlotsOK, Reserved

LEMMA SignRotatedIInv ==
  ASSUME TypeOK, IInv, NEW r \in Reqs, SignRotated(r)
  PROVE  IInv'
<1> DEFINE g == req[r].grant
<1>1. /\ req[r].pc = "reissue"
      /\ Signed(req[r].grant, req[r].user, req[r].session)
      /\ Done(r)
      /\ sessions' = sessions /\ tokens' = tokens
      /\ delivered' = delivered \cup {g}
  BY DEF SignRotated, At, db
<1>2. SlotOK(r) /\ Fresh(r) /\ req[r] \in Slot
  BY DEF IInv, SlotsOK, Reserved, TypeOK
<1>3. /\ \A h \in GrantIds \ {g} : access'[h] = access[h]
      /\ \A h \in GrantIds : IsAccess(h) => access'[h] = access[h]
      /\ access'[g].session = req[r].session
      /\ access'[g].user = req[r].user
      /\ req[r].user # NoUser
  BY <1>1, <1>2, SignedEffect
<1>4. RowsGrow
  BY <1>1, <1>3 DEF RowsGrow
<1>5. RowsOK'
  <2>1. /\ req[r].session \in SessionIds
        /\ req[r].user = sessions[req[r].session].user
        /\ IsToken(g)
    BY <1>1, <1>2 DEF SlotOK, Issuing, Refreshing
  <2> QED
    BY <1>1, <1>3, <2>1 DEF IInv, RowsOK, IsToken, IsAccess, TypeOK
<1>6. ASSUME NEW q \in Reqs PROVE SlotOK(q)' /\ Fresh(q)'
  <2>1. CASE q = r
    BY <1>1, <2>1, DoneEffect
       DEF SlotOK, Fresh, Issuing, LoggingIn, Refreshing, Reusing, Authed
  <2>2. CASE q # r
    <3>1. req'[q] = req[q] /\ SlotOK(q) /\ Fresh(q) /\ Apart(r, q)
      BY <1>1, <2>2, DoneEffect DEF IInv, SlotsOK, Reserved
    <3>2. SlotOK(q)'
      BY <1>4, <3>1, GrownSlotOK
    <3>3. Fresh(q)'
      BY <1>1, <1>3, <3>1 DEF Fresh, Apart, SlotOK, IsToken, IsAccess
    <3> QED
      BY <3>2, <3>3
  <2> QED
    BY <2>1, <2>2
<1>7. \A q \in Reqs : \A x \in Reqs \ {q} : Apart(x, q)'
  BY <1>1, DoneApart DEF IInv
<1> QED
  BY <1>5, <1>6, <1>7 DEF IInv, SlotsOK, Reserved

LEMMA StoreFirstIInv ==
  ASSUME TypeOK, IInv, NEW r \in Reqs, StoreFirst(r)
  PROVE  IInv'
<1> DEFINE g == req[r].grant
<1>1. /\ req[r].pc = "store"
      /\ Done(r)
      /\ sessions' = sessions /\ access' = access
      /\ delivered' = delivered \cup {g}
  BY DEF StoreFirst, At
<1>2. SlotOK(r) /\ Fresh(r) /\ req[r] \in Slot
  BY DEF IInv, SlotsOK, Reserved, TypeOK
<1>3. /\ g \in GrantIds
      /\ ~IsToken(g) /\ IsAccess(g)
      /\ req[r].session \in SessionIds
      /\ req[r].user = sessions[req[r].session].user
      /\ req[r].user # NoUser
  BY <1>1, <1>2 DEF SlotOK, Fresh, Issuing, LoggingIn, IsSession
<1>4. /\ \A t \in GrantIds \ {g} : tokens'[t] = tokens[t]
      /\ tokens'[g].user = req[r].user
      /\ tokens'[g].session = req[r].session
  BY <1>3 DEF StoreFirst, TypeOK
<1>5. RowsGrow
  BY <1>1, <1>3, <1>4 DEF RowsGrow
<1>6. RowsOK'
  BY <1>1, <1>3, <1>4 DEF IInv, RowsOK, IsToken, IsAccess, TypeOK
<1>7. ASSUME NEW q \in Reqs PROVE SlotOK(q)' /\ Fresh(q)'
  <2>1. CASE q = r
    BY <1>1, <2>1, DoneEffect
       DEF SlotOK, Fresh, Issuing, LoggingIn, Refreshing, Reusing, Authed
  <2>2. CASE q # r
    <3>1. req'[q] = req[q] /\ SlotOK(q) /\ Fresh(q) /\ Apart(r, q)
      BY <1>1, <2>2, DoneEffect DEF IInv, SlotsOK, Reserved
    <3>2. SlotOK(q)'
      BY <1>5, <3>1, GrownSlotOK
    <3>3. req[q].pc \in Issuing => req[q].grant # g
      BY <3>1 DEF Apart
    <3>4. req[q].pc \in LoggingIn => req[q].session # req[r].session
      BY <1>1, <3>1 DEF Apart, LoggingIn
    <3>5. Fresh(q)'
      BY <1>1, <1>4, <3>1, <3>3, <3>4
         DEF Fresh, SlotOK, IsToken, IsAccess, Issuing, LoggingIn, Refreshing
    <3> QED
      BY <3>2, <3>5
  <2> QED
    BY <2>1, <2>2
<1>8. \A q \in Reqs : \A x \in Reqs \ {q} : Apart(x, q)'
  BY <1>1, DoneApart DEF IInv
<1> QED
  BY <1>6, <1>7, <1>8 DEF IInv, SlotsOK, Reserved

LEMMA InsertRotatedIInv ==
  ASSUME TypeOK, IInv, NEW r \in Reqs, InsertRotated(r)
  PROVE  IInv'
<1> DEFINE g == req[r].grant
<1>1. /\ req[r].pc = "insert"
      /\ Goto(r, "retire")
      /\ sessions' = sessions /\ access' = access /\ delivered' = delivered
  BY DEF InsertRotated, At
<1>2. SlotOK(r) /\ Fresh(r) /\ req[r] \in Slot
  BY DEF IInv, SlotsOK, Reserved, TypeOK
<1>3. /\ g \in GrantIds
      /\ ~IsToken(g) /\ ~IsAccess(g)
      /\ req[r].session \in SessionIds
      /\ req[r].user = sessions[req[r].session].user
      /\ req[r].user # NoUser
      /\ req[r].token \in GrantIds /\ IsToken(req[r].token)
      /\ tokens[req[r].token].session = req[r].session
  BY <1>1, <1>2 DEF SlotOK, Fresh, Issuing, LoggingIn, Refreshing, IsSession
<1>4. /\ \A t \in GrantIds \ {g} : tokens'[t] = tokens[t]
      /\ tokens'[g].user = req[r].user
      /\ tokens'[g].session = req[r].session
  BY <1>3 DEF InsertRotated, TypeOK
<1>5. RowsGrow
  BY <1>1, <1>3, <1>4 DEF RowsGrow
<1>6. RowsOK'
  BY <1>1, <1>3, <1>4 DEF IInv, RowsOK, IsToken, IsAccess, TypeOK
<1>7. ASSUME NEW q \in Reqs PROVE SlotOK(q)' /\ Fresh(q)'
  <2>1. CASE q = r
    BY <1>1, <1>2, <1>3, <1>4, <2>1, GotoEffect
       DEF SlotOK, Fresh, IsToken, IsAccess, IsSession,
           Issuing, LoggingIn, Refreshing, Reusing, Authed
  <2>2. CASE q # r
    <3>1. req'[q] = req[q] /\ SlotOK(q) /\ Fresh(q) /\ Apart(r, q)
      BY <1>1, <2>2, GotoEffect DEF IInv, SlotsOK, Reserved
    <3>2. SlotOK(q)'
      BY <1>5, <3>1, GrownSlotOK
    <3>3. req[q].pc \in Issuing => req[q].grant # g
      BY <3>1 DEF Apart
    <3>4. req[q].pc \in LoggingIn => req[q].session # req[r].session
      BY <1>3, <3>1 DEF Fresh
    <3>5. Fresh(q)'
      BY <1>1, <1>4, <3>1, <3>3, <3>4
         DEF Fresh, SlotOK, IsToken, IsAccess, Issuing, LoggingIn, Refreshing
    <3> QED
      BY <3>2, <3>5
  <2> QED
    BY <2>1, <2>2
<1>8. \A q \in Reqs : \A x \in Reqs \ {q} : Apart(x, q)'
  BY <1>1, GotoApart DEF IInv, Issuing, LoggingIn, Refreshing
<1> QED
  BY <1>6, <1>7, <1>8 DEF IInv, SlotsOK, Reserved
LEMMA BeginRefreshIInv ==
  ASSUME TypeOK, IInv, NEW r \in Reqs, NEW t \in GrantIds, BeginRefresh(r, t)
  PROVE  IInv'
<1>1. PICK g \in GrantIds \ UsedGrants :
        req' = [req EXCEPT ![r] =
                  [Idle EXCEPT !.pc = "check", !.user = tokens[t].user,
                               !.session = tokens[t].session, !.token = t,
                               !.grant = g,
                               !.late = sessions[tokens[t].session].revoked]]
  BY DEF BeginRefresh, Lowest
<1>2. /\ req'[r].pc = "check" /\ req'[r].user = tokens[t].user
      /\ req'[r].session = tokens[t].session
      /\ req'[r].token = t /\ req'[r].grant = g
      /\ \A q \in Reqs \ {r} : req'[q] = req[q]
  BY <1>1 DEF TypeOK, Idle
<1>3. /\ ~IsToken(g) /\ ~IsAccess(g)
      /\ \A q \in Reqs : req[q].grant # g
  BY DEF UsedGrants
<1>4. SameRows /\ sessions' = sessions /\ tokens' = tokens
  BY DEF BeginRefresh, SameRows, db
<1>5. /\ IsToken(t) /\ tokens[t].session \in SessionIds
      /\ tokens[t].user = sessions[tokens[t].session].user
  BY DEF BeginRefresh, IInv, RowsOK
<1>6. ASSUME NEW q \in Reqs PROVE SlotOK(q)' /\ Fresh(q)'
  <2>1. CASE q = r
    BY <1>2, <1>3, <1>4, <1>5, <2>1
       DEF SameRows, SlotOK, Fresh, IsToken, IsAccess, IsSession,
           Issuing, LoggingIn, Refreshing, Reusing, Authed
  <2>2. CASE q # r
    BY <1>2, <1>4, <2>2, SameSlotOK DEF IInv, SlotsOK, Reserved
  <2> QED
    BY <2>1, <2>2
<1>7. \A p \in Reqs : \A q \in Reqs \ {p} : Apart(q, p)'
  <2>1. req'[r].pc \notin LoggingIn
    BY <1>2 DEF LoggingIn
  <2> QED
    BY <1>2, <1>3, <2>1, StayApart DEF IInv
<1> QED
  BY <1>4, <1>6, <1>7, SameRowsOK DEF IInv, SlotsOK, Reserved

LEMMA DetectReuseIInv ==
  ASSUME TypeOK, IInv, NEW r \in Reqs, NEW t \in GrantIds, DetectReuse(r, t)
  PROVE  IInv'
<1> DEFINE x == [Idle EXCEPT !.pc = "family", !.user = tokens[t].user,
                             !.session = tokens[t].session, !.token = t]
<1>1. tokens[t] \in TokenRow
  BY DEF TypeOK
<1>2. x \in Slot /\ x.pc = "family" /\ x.grant = 0 /\ x.user = tokens[t].user
      /\ x.session = tokens[t].session /\ x.token = t
  BY <1>1 DEF Idle, Slot, PCs, SessionRefs, GrantRefs, TokenRow
<1>3. req' = [req EXCEPT ![r] = x] /\ SameRows /\ sessions' = sessions
  BY DEF DetectReuse, SameRows, db
<1>4. /\ IsToken(t) /\ tokens[t].session \in SessionIds
      /\ tokens[t].user = sessions[tokens[t].session].user
  BY DEF DetectReuse, IInv, RowsOK
<1>5. req'[r] = x
  BY <1>3 DEF TypeOK
<1> HIDE DEF x
<1>6. SlotOK(r)'
  BY <1>2, <1>3, <1>4, <1>5
     DEF SlotOK, IsToken, IsSession, Issuing, LoggingIn, Refreshing, Reusing, Authed
<1>7. x.pc \notin Issuing
  BY <1>2 DEF Issuing, LoggingIn, Refreshing
<1>8. \A q \in Reqs : req[q].pc \in Issuing => x.grant # req[q].grant
  BY <1>2, ZeroIsNoId DEF IInv, SlotsOK, SlotOK
<1> QED
  BY <1>2, <1>3, <1>6, <1>7, <1>8, StartedOK

LEMMA VerifyIInv ==
  ASSUME TypeOK, IInv, NEW r \in Reqs, NEW g \in GrantIds, Verify(r, g)
  PROVE  IInv'
<1> DEFINE x == [Idle EXCEPT !.pc = "verify", !.grant = g, !.user = access[g].user,
                             !.session = access[g].session]
<1>1. access[g] \in AccessRow
  BY DEF TypeOK
<1>2. x \in Slot /\ x.pc = "verify" /\ x.grant = g /\ x.user = access[g].user
      /\ x.session = access[g].session
  BY <1>1 DEF Idle, Slot, PCs, SessionRefs, GrantRefs, AccessRow
<1>3. req' = [req EXCEPT ![r] = x] /\ SameRows /\ sessions' = sessions
  BY DEF Verify, SameRows, db
<1>4. /\ IsToken(g) /\ IsAccess(g) /\ access[g].session \in SessionIds
      /\ access[g].user = sessions[access[g].session].user
  BY DEF Verify, IInv, RowsOK
<1>5. req'[r] = x /\ access' = access
  BY <1>3 DEF TypeOK, SameRows
<1> HIDE DEF x
<1>6. SlotOK(r)'
  BY <1>2, <1>3, <1>4, <1>5
     DEF SlotOK, IsAccess, IsSession, Issuing, LoggingIn, Refreshing, Reusing, Authed
<1>7. x.pc \notin Issuing
  BY <1>2 DEF Issuing, LoggingIn, Refreshing
<1>8. \A q \in Reqs : req[q].pc \in Issuing => x.grant # req[q].grant
  BY <1>2, <1>4 DEF IInv, Reserved, Fresh, Issuing, LoggingIn, Refreshing
<1> QED
  BY <1>2, <1>3, <1>6, <1>7, <1>8, StartedOK

\* A request that knows which sessions it is about to revoke.
LEMMA RevokeStartIInv ==
  ASSUME TypeOK, IInv, SameRows, NEW r \in Reqs, NEW x \in Slot,
         req' = [req EXCEPT ![r] = x],
         x.pc = "revoke",
         x.grant = 0 \/ (req[r].pc \notin Issuing /\ x.grant = req[r].grant),
         \A s \in x.todo : IsSession(s) /\ sessions[s].user = x.user
  PROVE  IInv'
<1>1. x.pc \notin Issuing
  BY DEF Issuing, LoggingIn, Refreshing
<1>2. \A q \in Reqs : req[q].pc \in Issuing => x.grant # req[q].grant
  BY ZeroIsNoId DEF IInv, SlotsOK, SlotOK, Reserved, Apart
<1>3. req'[r] = x /\ x.todo \subseteq SessionIds
  BY DEF TypeOK, Slot
<1>4. SlotOK(r)'
  BY <1>3 DEF SameRows, SlotOK, IsSession, Issuing, LoggingIn, Refreshing, Reusing, Authed
<1> QED
  BY <1>1, <1>2, <1>4, StartedOK

LEMMA RevokeOneIInv ==
  ASSUME TypeOK, IInv, NEW r \in Reqs, NEW s \in SessionIds, RevokeOne(r, s)
  PROVE  IInv'
<1> DEFINE x == [req[r] EXCEPT !.pc = "revoke", !.todo = {s}]
<1>1. req[r] \in Slot
  BY DEF TypeOK
<1>2. x \in Slot /\ x.pc = "revoke" /\ x.todo = {s} /\ x.user = req[r].user
      /\ x.grant = req[r].grant
  BY <1>1 DEF Slot, PCs
<1>3. req' = [req EXCEPT ![r] = x] /\ SameRows
  BY DEF RevokeOne, SameRows, db
<1>4. req[r].pc \notin Issuing
  BY DEF RevokeOne, At, Issuing, LoggingIn, Refreshing
<1>5. IsSession(s) /\ sessions[s].user = req[r].user
  BY DEF RevokeOne, MayRevoke
<1> HIDE DEF x
<1> QED
  BY <1>2, <1>3, <1>4, <1>5, RevokeStartIInv

LEMMA RevokeOthersIInv ==
  ASSUME TypeOK, IInv, NEW r \in Reqs, RevokeOthers(r)
  PROVE  IInv'
<1> DEFINE S == ActiveExcept(req[r].user, req[r].session)
           x == [req[r] EXCEPT !.pc = "revoke", !.todo = S]
<1>1. req[r] \in Slot /\ S \in SUBSET SessionIds
  BY DEF TypeOK, ActiveExcept
<1>2. \A s \in S : IsSession(s) /\ sessions[s].user = req[r].user
  BY DEF RevokeOthers, At, ActiveExcept, IsSession, IInv, SlotsOK, SlotOK, Authed
<1>3. req' = [req EXCEPT ![r] = x] /\ SameRows
  BY DEF RevokeOthers, SameRows, db
<1> HIDE DEF S
<1>4. x \in Slot /\ x.pc = "revoke" /\ x.todo = S /\ x.user = req[r].user
      /\ x.grant = req[r].grant
  BY <1>1 DEF Slot, PCs
<1>5. req[r].pc \notin Issuing
  BY DEF RevokeOthers, At, Issuing, LoggingIn, Refreshing
<1> HIDE DEF x
<1> QED
  BY <1>2, <1>3, <1>4, <1>5, RevokeStartIInv

LEMMA RevokeAllOfIInv ==
  ASSUME TypeOK, IInv, NEW r \in Reqs, NEW u \in Users, RevokeAllOf(r, u)
  PROVE  IInv'
<1> DEFINE S == ActiveExcept(u, 0)
           x == [Idle EXCEPT !.pc = "revoke", !.user = u, !.todo = S]
<1>1. S \in SUBSET SessionIds
  BY DEF ActiveExcept
<1>2. \A s \in S : IsSession(s) /\ sessions[s].user = u
  BY UsersAssumption DEF ActiveExcept, IsSession
<1>3. req' = [req EXCEPT ![r] = x] /\ SameRows
  BY DEF RevokeAllOf, SameRows, db
<1> HIDE DEF S
<1>4. x \in Slot /\ x.pc = "revoke" /\ x.todo = S /\ x.user = u /\ x.grant = 0
  BY <1>1 DEF Idle, Slot, PCs, SessionRefs, GrantRefs
<1> HIDE DEF x
<1>5. \A s \in x.todo : IsSession(s) /\ sessions[s].user = x.user
  BY <1>2, <1>4
<1> QED
  BY <1>3, <1>4, <1>5, RevokeStartIInv

LEMMA BlacklistSessionIInv ==
  ASSUME TypeOK, IInv, NEW r \in Reqs, NEW s \in SessionIds, BlacklistSession(r, s)
  PROVE  IInv'
<1> DEFINE S == StillToDo(req[r].todo, s)
           x == [req[r] EXCEPT !.todo = S]
<1>1. SameRows
  BY DEF BlacklistSession, SameRows, db
<1>2. req[r] \in Slot /\ req[r].pc = "cutoff" /\ S \in SUBSET SessionIds
  BY DEF TypeOK, BlacklistSession, At, StillToDo, Slot
<1>3. Done(r) \/ req' = [req EXCEPT ![r] = x]
  BY DEF BlacklistSession
<1> HIDE DEF S
<1>4. x \in Slot /\ x.pc = "cutoff" /\ x.grant = req[r].grant
  BY <1>2 DEF Slot
<1> HIDE DEF x
<1>5. CASE req' = [req EXCEPT ![r] = x]
  <2>1. req'[r] = x
    BY <1>5 DEF TypeOK
  <2>2. SlotOK(r)'
    BY <1>4, <2>1 DEF SlotOK, Issuing, LoggingIn, Refreshing, Reusing, Authed
  <2>3. x.pc \notin Issuing /\ req[r].pc \notin Issuing
    BY <1>2, <1>4 DEF Issuing, LoggingIn, Refreshing
  <2>4. \A q \in Reqs : req[q].pc \in Issuing => x.grant # req[q].grant
    BY <1>4, <2>3 DEF IInv, Reserved, Apart
  <2> QED
    BY <1>1, <1>4, <1>5, <2>2, <2>3, <2>4, StartedOK
<1> QED
  BY <1>1, <1>3, <1>5, FinishedOK

LEMMA IInvStep == TypeOK /\ IInv /\ [Next]_vars => IInv'
<1> SUFFICES ASSUME TypeOK, IInv, [Next]_vars PROVE IInv'
  OBVIOUS
<1> USE DEF SameRows, db, redis, history, At
<1>1. ASSUME NEW r \in Reqs, CheckSession(r) \/ Validate(r) PROVE IInv'
  BY <1>1, FinishedOK, MovedOK DEF CheckSession, Validate, Authed
<1>2. ASSUME NEW r \in Reqs, RetireOld(r) PROVE IInv'
  BY <1>2, RetireOldSame, MovedOK DEF RetireOld
<1>3. ASSUME NEW r \in Reqs, TouchSession(r) PROVE IInv'
  BY <1>3, TouchSessionSame, MovedOK DEF TouchSession
<1>4. ASSUME NEW r \in Reqs, RevokeReusedFamily(r) PROVE IInv'
  BY <1>4, RevokeTokensSame, MovedOK DEF RevokeReusedFamily, AfterReusedFamily
<1>5. ASSUME NEW r \in Reqs, RevokeReusedSession(r) PROVE IInv'
  BY <1>5, RevokeSessionSame, FinishedOK DEF RevokeReusedSession
<1>6. ASSUME NEW r \in Reqs, Answer(r) PROVE IInv'
  BY <1>6, FinishedOK DEF Answer
<1>7. ASSUME NEW r \in Reqs, NEW t \in GrantIds, LogoutFamily(r, t) PROVE IInv'
  BY <1>7, RevokeTokensSame, MovedOK DEF LogoutFamily, Authed
<1>8. ASSUME NEW r \in Reqs, LogoutSession(r) PROVE IInv'
  BY <1>8, RevokeSessionSame, MovedOK DEF LogoutSession, Authed
<1>9. ASSUME NEW r \in Reqs, LogoutBlacklist(r) PROVE IInv'
  BY <1>9, FinishedOK DEF LogoutBlacklist
<1>10. ASSUME NEW r \in Reqs, RevokeTx(r) PROVE IInv'
  BY <1>10, RevokeTxSame, RevokeTokensSame, MovedOK DEF RevokeTx
<1>11. ASSUME NEW r \in Reqs, Abort(r) PROVE IInv'
  BY <1>11, FinishedOK DEF Abort
<1>12. CASE RedisRestart \/ Tick \/ UNCHANGED vars
  <2>1. SameRows /\ req' = req
    BY <1>12 DEF RedisRestart, Tick, vars
  <2> QED
    BY <2>1, SameRowsOK, SameSlotOK DEF IInv, SlotsOK, Reserved, Apart
<1> QED
  BY <1>1, <1>2, <1>3, <1>4, <1>5, <1>6, <1>7, <1>8, <1>9, <1>10, <1>11, <1>12,
     LoginIInv, SignFirstIInv, StoreFirstIInv, BeginRefreshIInv, DetectReuseIInv,
     InsertRotatedIInv, SignRotatedIInv, VerifyIInv, RevokeOneIInv,
     RevokeOthersIInv, RevokeAllOfIInv, BlacklistSessionIInv
     DEF Next, Step, Call, Quiet

\* TypeOK is an invariant for any number of slots, users, sessions and grants,
\* with the bounds on how far ahead of the clock each expiry time lies.
THEOREM TypeCorrect == Spec => []TypeOK
<1>1. Init => TypeOK /\ IInv
  BY InitTypeOK, InitIInv
<1>2. TypeOK /\ IInv /\ [Next]_vars => (TypeOK /\ IInv)'
  BY TypeStep, IInvStep
<1> QED
  BY <1>1, <1>2, PTL DEF Spec

\* Slots and rows stay coherent: no two requests make the same grant, and no
\* request refers to a row that does not exist.
THEOREM Coherent == Spec => []IInv
<1>1. Init => TypeOK /\ IInv
  BY InitTypeOK, InitIInv
<1>2. TypeOK /\ IInv /\ [Next]_vars => (TypeOK /\ IInv)'
  BY TypeStep, IInvStep
<1> QED
  BY <1>1, <1>2, PTL DEF Spec
-----------------------------------------------------------------------------
(* Token families.                                                          *)

LinksOK == \A t \in GrantIds : IsToken(t) /\ tokens[t].replacedBy # 0 =>
    /\ tokens[t].revoked
    /\ tokens[t].replacedBy \in GrantIds
    /\ IsToken(tokens[t].replacedBy)
    /\ tokens[tokens[t].replacedBy].family = tokens[t].family

\* Two tokens of one session are of one family.
SessionsOK == \A a, b \in GrantIds :
    IsToken(a) /\ IsToken(b) /\ tokens[a].session = tokens[b].session
      => tokens[a].family = tokens[b].family

FInv == FamiliesOK /\ LinksOK /\ SessionsOK

LEMMA FInvImplies == TypeOK /\ IInv /\ FInv => FamilyIsSession
  BY DEF IInv, RowsOK, FInv, FamiliesOK, LinksOK, SessionsOK, FamilyIsSession

LEMMA InitFInv == Init => FInv
  BY DEF Init, FInv, FamiliesOK, LinksOK, SessionsOK, NoToken, Idle, IsToken

\* Tokens keep what families are about; slots that are past "insert" were so
\* before, with the same token and grant.
SameFamilies ==
    /\ \A t \in GrantIds : /\ tokens'[t].user = tokens[t].user
                           /\ tokens'[t].session = tokens[t].session
                           /\ tokens'[t].family = tokens[t].family
                           /\ tokens[t].revoked => tokens'[t].revoked
    /\ \A q \in Reqs : req'[q].pc \in {"retire", "touch", "reissue"} =>
         /\ req[q].pc \in {"retire", "touch", "reissue"}
         /\ req'[q].grant = req[q].grant
         /\ req'[q].token = req[q].token

LEMMA SameFamiliesOK ==
  ASSUME TypeOK, IInv, FInv, SameFamilies,
         \A t \in GrantIds : tokens'[t].replacedBy = tokens[t].replacedBy
  PROVE  FInv'
<1>1. \A q \in Reqs : req[q].pc \in {"retire", "touch", "reissue"} =>
        req[q].grant \in GrantIds /\ req[q].token \in GrantIds
  BY DEF IInv, SlotsOK, SlotOK, Issuing, Refreshing
<1> QED
  BY <1>1 DEF SameFamilies, FInv, FamiliesOK, LinksOK, SessionsOK, IsToken

LEMMA StoreFirstFInv ==
  ASSUME TypeOK, IInv, FInv, NEW r \in Reqs, StoreFirst(r)
  PROVE  FInv'
<1> DEFINE g == req[r].grant
<1>1. /\ g \in GrantIds /\ ~IsToken(g) /\ req[r].user # NoUser
      /\ \A t \in GrantIds : IsToken(t) => tokens[t].session # req[r].session
  BY DEF StoreFirst, At, IInv, SlotsOK, SlotOK, Reserved, Fresh, IsSession,
         Issuing, LoggingIn
<1>2. /\ \A t \in GrantIds \ {g} : tokens'[t] = tokens[t]
      /\ tokens'[g].user = req[r].user
      /\ tokens'[g].session = req[r].session
      /\ tokens'[g].family = g
      /\ tokens'[g].replacedBy = 0
  BY <1>1 DEF StoreFirst, TypeOK
<1>3. /\ \A q \in Reqs \ {r} : req'[q] = req[q]
      /\ req'[r].pc = "idle"
  BY DoneEffect DEF StoreFirst
<1>4. \A q \in Reqs : req[q].pc \in {"retire", "touch", "reissue"} =>
        /\ req[q].grant \in GrantIds /\ IsToken(req[q].grant)
        /\ req[q].token \in GrantIds /\ IsToken(req[q].token)
  BY DEF IInv, SlotsOK, SlotOK, Issuing, Refreshing
<1>5. FamiliesOK'
  BY <1>1, <1>2, <1>3, <1>4 DEF FInv, FamiliesOK, IsToken
<1>6. LinksOK'
  BY <1>1, <1>2 DEF FInv, LinksOK, IsToken
<1>7. SessionsOK'
  BY <1>1, <1>2 DEF FInv, SessionsOK, IsToken
<1> QED
  BY <1>5, <1>6, <1>7 DEF FInv

LEMMA InsertRotatedFInv ==
  ASSUME TypeOK, IInv, FInv, NEW r \in Reqs, InsertRotated(r)
  PROVE  FInv'
<1> DEFINE g == req[r].grant
           old == req[r].token
<1>1. /\ g \in GrantIds /\ ~IsToken(g) /\ req[r].user # NoUser
      /\ old \in GrantIds /\ IsToken(old)
      /\ tokens[old].session = req[r].session
  BY DEF InsertRotated, At, IInv, SlotsOK, SlotOK, Reserved, Fresh, IsSession,
         Issuing, Refreshing
<1>2. /\ \A t \in GrantIds \ {g} : tokens'[t] = tokens[t]
      /\ tokens'[g].user = req[r].user
      /\ tokens'[g].session = req[r].session
      /\ tokens'[g].family = tokens[old].family
      /\ tokens'[g].replacedBy = 0
  BY <1>1 DEF InsertRotated, RotatedFamily, TypeOK
<1>3. /\ \A q \in Reqs \ {r} : req'[q] = req[q]
      /\ req'[r].token = old /\ req'[r].grant = g
  BY GotoEffect DEF InsertRotated
<1>4. \A q \in Reqs : req[q].pc \in {"retire", "touch", "reissue"} =>
        /\ req[q].grant \in GrantIds /\ IsToken(req[q].grant)
        /\ req[q].token \in GrantIds /\ IsToken(req[q].token)
  BY DEF IInv, SlotsOK, SlotOK, Issuing, Refreshing
<1>5. FamiliesOK'
  BY <1>1, <1>2, <1>3, <1>4 DEF FInv, FamiliesOK, IsToken
<1>6. LinksOK'
  BY <1>1, <1>2 DEF FInv, LinksOK, IsToken
<1>7. SessionsOK'
  BY <1>1, <1>2 DEF FInv, SessionsOK, IsToken
<1> QED
  BY <1>5, <1>6, <1>7 DEF FInv

LEMMA RetireOldFInv ==
  ASSUME TypeOK, IInv, FInv, NEW r \in Reqs, RetireOld(r)
  PROVE  FInv'
<1> DEFINE g == req[r].grant
           old == req[r].token
<1>1. /\ g \in GrantIds /\ IsToken(g)
      /\ old \in GrantIds /\ IsToken(old)
      /\ tokens[g].family = tokens[old].family
  BY DEF RetireOld, At, IInv, SlotsOK, SlotOK, FInv, FamiliesOK, Issuing, Refreshing
<1>2. /\ \A t \in GrantIds \ {old} : tokens'[t] = tokens[t]
      /\ tokens'[old].revoked /\ tokens'[old].replacedBy = g
  <2>1. tokens[old] \in TokenRow /\ tokens' = [tokens EXCEPT ![old] = Retired(@, g)]
    BY <1>1 DEF RetireOld, TypeOK
  <2>2. Retired(tokens[old], g).revoked /\ Retired(tokens[old], g).replacedBy = g
    BY <2>1 DEF Retired, TokenRow
  <2> QED
    BY <1>1, <2>1, <2>2 DEF TypeOK
<1>3. \A t \in GrantIds : /\ tokens'[t].user = tokens[t].user
                          /\ tokens'[t].session = tokens[t].session
                          /\ tokens'[t].family = tokens[t].family
  BY RetireOldSame
<1>4. /\ \A q \in Reqs \ {r} : req'[q] = req[q]
      /\ req'[r].token = old /\ req'[r].grant = g
  BY GotoEffect DEF RetireOld
<1>5. \A q \in Reqs : req[q].pc \in {"retire", "touch", "reissue"} =>
        req[q].grant \in GrantIds /\ req[q].token \in GrantIds
  BY DEF IInv, SlotsOK, SlotOK, Issuing, Refreshing
<1>6. FamiliesOK'
  BY <1>1, <1>3, <1>4, <1>5 DEF FInv, FamiliesOK, IsToken
<1>7. LinksOK'
  BY <1>1, <1>2, <1>3 DEF FInv, LinksOK, IsToken
<1>8. SessionsOK'
  BY <1>3 DEF FInv, SessionsOK, IsToken
<1> QED
  BY <1>6, <1>7, <1>8 DEF FInv

\* What the remaining slot updates do.
LEMMA RevokeStartEffect ==
  ASSUME TypeOK, NEW r \in Reqs,
         \/ \E s \in SessionIds : RevokeOne(r, s)
         \/ RevokeOthers(r)
         \/ \E u \in Users : RevokeAllOf(r, u)
  PROVE  /\ \A q \in Reqs \ {r} : req'[q] = req[q]
         /\ req'[r].pc = "revoke"
         /\ req'[r].late => req[r].pc = "authed" /\ req[r].late
<1>1. ASSUME NEW S, req' = [req EXCEPT ![r].pc = "revoke", ![r].todo = S],
             req[r].pc = "authed"
      PROVE  /\ \A q \in Reqs \ {r} : req'[q] = req[q]
             /\ req'[r].pc = "revoke"
             /\ req'[r].late => req[r].pc = "authed" /\ req[r].late
  <2>1. ASSUME NEW x \in Slot
        PROVE  LET y == [x EXCEPT !.pc = "revoke", !.todo = S] IN
               y.pc = "revoke" /\ y.late = x.late
    BY DEF Slot
  <2>2. /\ req[r] \in Slot
        /\ req'[r] = [req[r] EXCEPT !.pc = "revoke", !.todo = S]
        /\ \A q \in Reqs \ {r} : req'[q] = req[q]
    BY <1>1 DEF TypeOK
  <2> QED
    BY <1>1, <2>1, <2>2
<1>2. ASSUME NEW s \in SessionIds, RevokeOne(r, s)
      PROVE  req' = [req EXCEPT ![r].pc = "revoke", ![r].todo = {s}] /\ req[r].pc = "authed"
  BY <1>2 DEF RevokeOne, At
<1>3. ASSUME RevokeOthers(r)
      PROVE  /\ req' = [req EXCEPT ![r].pc = "revoke",
                                   ![r].todo = ActiveExcept(req[r].user, req[r].session)]
             /\ req[r].pc = "authed"
  BY <1>3 DEF RevokeOthers, At
<1>4. ASSUME NEW u \in Users, RevokeAllOf(r, u)
      PROVE  /\ \A q \in Reqs \ {r} : req'[q] = req[q]
             /\ req'[r].pc = "revoke"
             /\ ~req'[r].late
  BY <1>4 DEF RevokeAllOf, TypeOK, Idle
<1> QED
  BY <1>1, <1>2, <1>3, <1>4

LEMMA BlacklistSessionEffect ==
  ASSUME TypeOK, NEW r \in Reqs, NEW s \in SessionIds, BlacklistSession(r, s)
  PROVE  /\ \A q \in Reqs \ {r} : req'[q] = req[q]
         /\ req'[r].pc \in {"idle", "cutoff"}
         /\ req'[r].late => req[r].pc = "cutoff" /\ req[r].late
<1> DEFINE left == StillToDo(req[r].todo, s)
<1>1. req[r].pc = "cutoff" /\ (Done(r) \/ req' = [req EXCEPT ![r].todo = left])
  BY DEF BlacklistSession, At
<1> HIDE DEF left
<1>2. CASE Done(r)
  BY <1>2, DoneEffect
<1>3. CASE req' = [req EXCEPT ![r].todo = left]
  <2>1. ASSUME NEW x \in Slot
        PROVE  LET y == [x EXCEPT !.todo = left] IN y.pc = x.pc /\ y.late = x.late
    BY DEF Slot
  <2>2. /\ req[r] \in Slot
        /\ req'[r] = [req[r] EXCEPT !.todo = left]
        /\ \A q \in Reqs \ {r} : req'[q] = req[q]
    BY <1>3 DEF TypeOK
  <2> QED
    BY <1>1, <2>1, <2>2
<1> QED
  BY <1>1, <1>2, <1>3

LEMMA FInvStep == TypeOK /\ IInv /\ FInv /\ [Next]_vars => FInv'
<1> SUFFICES ASSUME TypeOK, IInv, FInv, [Next]_vars PROVE FInv'
  OBVIOUS
<1> DEFINE Rotating == {"retire", "touch", "reissue"}
\* A slot that does not start rotating, and tokens that are not touched.
<1>1. ASSUME NEW r \in Reqs, NEW x \in Slot, req' = [req EXCEPT ![r] = x],
             x.pc \notin Rotating, tokens' = tokens
      PROVE  FInv'
  BY <1>1, SameFamiliesOK DEF SameFamilies, TypeOK
<1>2. ASSUME NEW r \in Reqs, Done(r), tokens' = tokens PROVE FInv'
  BY <1>1, <1>2, IdleTyped DEF Done, Idle
<1>3. ASSUME NEW r \in Reqs, NEW p, Goto(r, p), tokens' = tokens,
             p \in Rotating => req[r].pc \in Rotating
      PROVE  FInv'
  BY <1>3, GotoEffect, SameFamiliesOK DEF SameFamilies
<1>4. ASSUME NEW r \in Reqs, NEW p, Goto(r, p), NEW G, RevokeTokens(G), p \notin Rotating
      PROVE  FInv'
  BY <1>4, GotoEffect, RevokeTokensSame, SameFamiliesOK DEF SameFamilies
<1>5. ASSUME NEW r \in Reqs, NEW u \in Users, Login(r, u) PROVE FInv'
  <2>1. PICK s \in SessionIds, g \in GrantIds :
          req' = [req EXCEPT ![r] = [Idle EXCEPT !.pc = "sign", !.user = u,
                                                 !.session = s, !.grant = g]]
    BY <1>5 DEF Login
  <2>2. [Idle EXCEPT !.pc = "sign", !.user = u, !.session = s, !.grant = g] \in Slot
    BY DEF Idle, Slot, PCs, SessionRefs, GrantRefs
  <2> QED
    BY <1>1, <1>5, <2>1, <2>2 DEF Login, Idle
<1>6. ASSUME NEW r \in Reqs, NEW t \in GrantIds, BeginRefresh(r, t) PROVE FInv'
  <2>1. \A q \in Reqs \ {r} : req'[q] = req[q]
    BY <1>6 DEF BeginRefresh, TypeOK
  <2>2. req'[r].pc = "check"
    BY <1>6 DEF BeginRefresh, TypeOK, Idle
  <2> QED
    BY <1>6, <2>1, <2>2, SameFamiliesOK DEF BeginRefresh, SameFamilies, db
<1>7. ASSUME NEW r \in Reqs, NEW t \in GrantIds, DetectReuse(r, t) PROVE FInv'
  <2>1. /\ \A q \in Reqs \ {r} : req'[q] = req[q]
        /\ req'[r].pc = "family"
    BY <1>7 DEF DetectReuse, TypeOK, Idle
  <2> QED
    BY <1>7, <2>1, SameFamiliesOK DEF DetectReuse, SameFamilies, db
<1>8. ASSUME NEW r \in Reqs, NEW g \in GrantIds, Verify(r, g) PROVE FInv'
  <2>1. /\ \A q \in Reqs \ {r} : req'[q] = req[q]
        /\ req'[r].pc = "verify"
    BY <1>8 DEF Verify, TypeOK, Idle
  <2> QED
    BY <1>8, <2>1, SameFamiliesOK DEF Verify, SameFamilies, db
<1>9. ASSUME NEW r \in Reqs,
             \/ \E s \in SessionIds : RevokeOne(r, s)
             \/ RevokeOthers(r)
             \/ \E u \in Users : RevokeAllOf(r, u)
      PROVE  FInv'
  <2>1. tokens' = tokens
    BY <1>9 DEF RevokeOne, RevokeOthers, RevokeAllOf, db
  <2> QED
    BY <1>9, <2>1, RevokeStartEffect, SameFamiliesOK DEF SameFamilies
<1>10. ASSUME NEW r \in Reqs, NEW s \in SessionIds, BlacklistSession(r, s) PROVE FInv'
  <2>1. tokens' = tokens
    BY <1>10 DEF BlacklistSession, db
  <2> QED
    BY <1>10, <2>1, BlacklistSessionEffect, SameFamiliesOK DEF SameFamilies
<1>11. CASE RedisRestart \/ Tick \/ UNCHANGED vars
  <2>1. tokens' = tokens /\ req' = req
    BY <1>11 DEF RedisRestart, Tick, vars, db
  <2> QED
    BY <2>1, SameFamiliesOK DEF SameFamilies
<1>12. ASSUME NEW r \in Reqs,
              \/ SignFirst(r) \/ CheckSession(r) \/ TouchSession(r) \/ SignRotated(r)
              \/ RevokeReusedSession(r) \/ Validate(r) \/ Answer(r) \/ LogoutSession(r)
              \/ LogoutBlacklist(r) \/ Abort(r)
       PROVE  FInv'
  BY <1>2, <1>3, <1>12
     DEF SignFirst, CheckSession, TouchSession, SignRotated, RevokeReusedSession,
         Validate, Answer, LogoutSession, LogoutBlacklist, Abort, At, db
<1>13. ASSUME NEW r \in Reqs,
              \/ RevokeReusedFamily(r)
              \/ \E t \in GrantIds : LogoutFamily(r, t)
              \/ RevokeTx(r)
       PROVE  FInv'
  BY <1>4, <1>13 DEF RevokeReusedFamily, AfterReusedFamily, LogoutFamily, RevokeTx
<1> QED
  BY <1>5, <1>6, <1>7, <1>8, <1>9, <1>10, <1>11, <1>12, <1>13,
     StoreFirstFInv, InsertRotatedFInv, RetireOldFInv DEF Next, Step, Call, Quiet

\* A token family is exactly the tokens of one session, all of its owner, and a
\* rotation links a revoked token to one of its own family.
THEOREM FamiliesAreSessions == Spec => []FamilyIsSession
<1>1. Init => TypeOK /\ IInv /\ FInv
  BY InitTypeOK, InitIInv, InitFInv
<1>2. TypeOK /\ IInv /\ FInv /\ [Next]_vars => (TypeOK /\ IInv /\ FInv)'
  BY TypeStep, IInvStep, FInvStep
<1> QED
  BY <1>1, <1>2, FInvImplies, PTL DEF Spec

-----------------------------------------------------------------------------
(* Revocation.                                                              *)

\* A row that does not exist is not revoked.
Blank ==
    /\ \A s \in SessionIds : sessions[s].revoked => IsSession(s)
    /\ \A t \in GrantIds : tokens[t].revoked => IsToken(t)

Final ==
    /\ \A s \in SessionIds : sessions[s].revoked => sessions'[s].revoked
    /\ \A t \in GrantIds : tokens[t].revoked => tokens'[t].revoked

LEMMA LoginRevocation ==
  ASSUME TypeOK, IInv, Blank, NEW r \in Reqs, NEW u \in Users, Login(r, u)
  PROVE  /\ tokens' = tokens
         /\ \A i \in SessionIds : sessions'[i].revoked = sessions[i].revoked
         /\ \A i \in SessionIds : IsSession(i) => sessions'[i] = sessions[i]
<1>1. PICK s \in SessionIds \ UsedSessions :
        sessions' = [sessions EXCEPT ![s] = [user |-> u, revoked |-> FALSE,
                                             expiresAt |-> RefreshExpiry]]
  BY DEF Login, Lowest
<1>2. ~IsSession(s)
  BY DEF UsedSessions
<1>3. sessions[s].revoked = FALSE
  BY <1>2 DEF Blank, TypeOK, SessionRow
<1> QED
  BY <1>1, <1>2, <1>3 DEF Login, TypeOK

\* A token row is only written anew where there was none.
LEMMA NewTokenRevocation ==
  ASSUME TypeOK, IInv, Blank, NEW r \in Reqs, StoreFirst(r) \/ InsertRotated(r)
  PROVE  \A t \in GrantIds : /\ tokens[t].revoked => tokens'[t].revoked
                             /\ tokens'[t].revoked => IsToken(t)'
<1>1. req[r].grant \in GrantIds /\ ~IsToken(req[r].grant)
  BY DEF StoreFirst, InsertRotated, At, IInv, SlotsOK, SlotOK, Reserved, Fresh,
         Issuing, LoggingIn, Refreshing
<1>2. ~tokens[req[r].grant].revoked
  BY <1>1 DEF Blank
<1>3. /\ \A t \in GrantIds \ {req[r].grant} : tokens'[t] = tokens[t]
      /\ ~tokens'[req[r].grant].revoked
  BY <1>1 DEF StoreFirst, InsertRotated, TypeOK
<1> QED
  BY <1>2, <1>3 DEF Blank, IsToken

LEMMA RevokeTokensFinal ==
  ASSUME TypeOK, Blank, NEW G, \A g \in G : IsToken(g), RevokeTokens(G)
  PROVE  \A t \in GrantIds : /\ tokens[t].revoked => tokens'[t].revoked
                             /\ tokens'[t].revoked => IsToken(t)'
<1>1. ASSUME NEW t \in GrantIds, t \notin G PROVE tokens'[t] = tokens[t]
  BY <1>1 DEF RevokeTokens
<1> QED
  BY <1>1, RevokeTokensSame DEF Blank, IsToken

LEMMA RetireOldFinal ==
  ASSUME TypeOK, IInv, Blank, NEW r \in Reqs, RetireOld(r)
  PROVE  \A t \in GrantIds : /\ tokens[t].revoked => tokens'[t].revoked
                             /\ tokens'[t].revoked => IsToken(t)'
<1>1. req[r].token \in GrantIds /\ IsToken(req[r].token)
  BY DEF RetireOld, At, IInv, SlotsOK, SlotOK, Refreshing
<1>2. \A t \in GrantIds \ {req[r].token} : tokens'[t] = tokens[t]
  BY <1>1 DEF RetireOld, TypeOK
<1> QED
  BY <1>1, <1>2, RetireOldSame DEF Blank, IsToken

LEMMA RevokeSessionFinal ==
  ASSUME TypeOK, Blank, NEW s, IsSession(s), RevokeSession(s)
  PROVE  \A i \in SessionIds : /\ sessions[i].revoked => sessions'[i].revoked
                               /\ sessions'[i].revoked => IsSession(i)'
<1>1. \A i \in SessionIds \ {s} : sessions'[i] = sessions[i]
  BY DEF RevokeSession, TypeOK
<1> QED
  BY <1>1, RevokeSessionSame DEF Blank, IsSession

LEMMA RevokeTxFinal ==
  ASSUME TypeOK, IInv, Blank, NEW r \in Reqs, RevokeTx(r)
  PROVE  \A i \in SessionIds : /\ sessions[i].revoked => sessions'[i].revoked
                               /\ sessions'[i].revoked => IsSession(i)'
<1>1. \A i \in req[r].todo : IsSession(i)
  BY DEF RevokeTx, At, IInv, SlotsOK, SlotOK
<1>2. \A i \in SessionIds \ req[r].todo : sessions'[i] = sessions[i]
  BY DEF RevokeTx
<1> QED
  BY <1>1, <1>2, RevokeTxSame DEF Blank, IsSession

LEMMA RevocationStep == TypeOK /\ IInv /\ Blank /\ [Next]_vars => Blank' /\ Final
<1> SUFFICES ASSUME TypeOK, IInv, Blank, [Next]_vars PROVE Blank' /\ Final
  OBVIOUS
<1> DEFINE SessionsFinal == \A i \in SessionIds :
             /\ sessions[i].revoked => sessions'[i].revoked
             /\ sessions'[i].revoked => IsSession(i)'
           TokensFinal == \A t \in GrantIds :
             /\ tokens[t].revoked => tokens'[t].revoked
             /\ tokens'[t].revoked => IsToken(t)'
<1> SUFFICES SessionsFinal /\ TokensFinal
  BY DEF Blank, Final
<1>1. sessions' = sessions => SessionsFinal
  BY DEF Blank, IsSession
<1>2. tokens' = tokens => TokensFinal
  BY DEF Blank, IsToken
<1> HIDE DEF SessionsFinal, TokensFinal
<1>3. ASSUME NEW r \in Reqs, NEW u \in Users, Login(r, u)
      PROVE  SessionsFinal /\ TokensFinal
  BY <1>2, <1>3, LoginRevocation DEF SessionsFinal, Blank, IsSession
<1>4. ASSUME NEW r \in Reqs, StoreFirst(r) \/ InsertRotated(r)
      PROVE  SessionsFinal /\ TokensFinal
  BY <1>1, <1>4, NewTokenRevocation DEF StoreFirst, InsertRotated, TokensFinal
<1>5. ASSUME NEW r \in Reqs, RetireOld(r) PROVE SessionsFinal /\ TokensFinal
  BY <1>1, <1>5, RetireOldFinal DEF RetireOld, TokensFinal
<1>6. ASSUME NEW r \in Reqs, TouchSession(r) PROVE SessionsFinal /\ TokensFinal
  BY <1>2, <1>6, TouchSessionSame DEF TouchSession, SessionsFinal, Blank, IsSession
<1>7. ASSUME NEW r \in Reqs, RevokeReusedFamily(r) \/ \E t \in GrantIds : LogoutFamily(r, t)
      PROVE  SessionsFinal /\ TokensFinal
  BY <1>1, <1>7, RevokeTokensFinal
     DEF RevokeReusedFamily, LogoutFamily, FamilyOf, TokensFinal
<1>8. ASSUME NEW r \in Reqs, RevokeReusedSession(r) \/ LogoutSession(r)
      PROVE  SessionsFinal /\ TokensFinal
  <2>1. IsSession(req[r].session) /\ RevokeSession(req[r].session)
    BY <1>8 DEF RevokeReusedSession, LogoutSession, At, IInv, SlotsOK, SlotOK, Reusing, Authed
  <2> QED
    BY <1>2, <1>8, <2>1, RevokeSessionFinal
       DEF RevokeReusedSession, LogoutSession, SessionsFinal
<1>9. ASSUME NEW r \in Reqs, RevokeTx(r) PROVE SessionsFinal /\ TokensFinal
  BY <1>9, RevokeTxFinal, RevokeTokensFinal
     DEF RevokeTx, TokensOf, SessionsFinal, TokensFinal
<1>10. ASSUME NEW r \in Reqs,
              \/ SignFirst(r) \/ CheckSession(r) \/ SignRotated(r) \/ Validate(r) \/ Answer(r)
              \/ LogoutBlacklist(r) \/ Abort(r) \/ RevokeOthers(r)
              \/ \E s \in SessionIds : BlacklistSession(r, s) \/ RevokeOne(r, s)
              \/ \E t \in GrantIds :
                   BeginRefresh(r, t) \/ DetectReuse(r, t) \/ Verify(r, t)
              \/ \E u \in Users : RevokeAllOf(r, u)
       PROVE  sessions' = sessions /\ tokens' = tokens
  BY <1>10 DEF SignFirst, CheckSession, SignRotated, Validate, Answer, LogoutBlacklist, Abort,
     RevokeOthers, BlacklistSession, RevokeOne, BeginRefresh, DetectReuse,
     Verify, RevokeAllOf, db
<1>11. CASE RedisRestart \/ Tick \/ UNCHANGED vars
  BY <1>1, <1>2, <1>11 DEF RedisRestart, Tick, vars, db
<1> QED
  BY <1>1, <1>2, <1>3, <1>4, <1>5, <1>6, <1>7, <1>8, <1>9, <1>10, <1>11
     DEF Next, Step, Call, Quiet

\* No interleaving, abort or restart brings a revoked session or token back.
THEOREM RevocationFinal == Spec => RevocationIsFinal
<1>1. Init => TypeOK /\ IInv /\ Blank
  BY InitTypeOK, InitIInv DEF Init, Blank, NoSession, NoToken
<1>2. TypeOK /\ IInv /\ Blank /\ [Next]_vars => (TypeOK /\ IInv /\ Blank)' /\ [Final]_vars
  BY TypeStep, IInvStep, RevocationStep
<1>3. Spec => [][Final]_vars
  BY <1>1, <1>2, PTL DEF Spec
<1> QED
  BY <1>3 DEF Final, RevocationIsFinal

-----------------------------------------------------------------------------
(* Who revokes.                                                             *)

OwnerRevokes == \A s \in SessionIds :
    ~sessions[s].revoked /\ sessions'[s].revoked =>
      \E r \in Reqs : req'[r] # req[r] /\ req[r].user = sessions[s].user

LEMMA OwnerStep == TypeOK /\ IInv /\ Blank /\ [Next]_vars => OwnerRevokes
<1> SUFFICES ASSUME TypeOK, IInv, Blank, [Next]_vars PROVE OwnerRevokes
  OBVIOUS
<1>1. ASSUME \A s \in SessionIds : sessions'[s].revoked = sessions[s].revoked
      PROVE  OwnerRevokes
  BY <1>1 DEF OwnerRevokes
<1>2. ASSUME NEW r \in Reqs, NEW u \in Users, Login(r, u) PROVE OwnerRevokes
  BY <1>1, <1>2, LoginRevocation
<1>3. ASSUME NEW r \in Reqs, TouchSession(r) PROVE OwnerRevokes
  BY <1>1, <1>3, TouchSessionSame
<1>4. ASSUME NEW r \in Reqs, RevokeReusedSession(r) \/ LogoutSession(r)
      PROVE  OwnerRevokes
  <2>1. \A s \in SessionIds \ {req[r].session} : sessions'[s] = sessions[s]
    BY <1>4 DEF RevokeReusedSession, LogoutSession, RevokeSession, TypeOK
  <2>2. req[r].user = sessions[req[r].session].user
    BY <1>4 DEF RevokeReusedSession, LogoutSession, At, IInv, SlotsOK, SlotOK, Reusing, Authed
  <2>3. req'[r].pc # req[r].pc
    <3>1. CASE RevokeReusedSession(r)
      BY <3>1, DoneEffect DEF RevokeReusedSession, At
    <3>2. CASE LogoutSession(r)
      BY <3>2, GotoEffect DEF LogoutSession
    <3> QED
      BY <1>4, <3>1, <3>2
  <2> QED
    BY <2>1, <2>2, <2>3 DEF OwnerRevokes
<1>5. ASSUME NEW r \in Reqs, RevokeTx(r) PROVE OwnerRevokes
  <2>1. \A s \in SessionIds \ req[r].todo : sessions'[s] = sessions[s]
    BY <1>5 DEF RevokeTx
  <2>2. \A s \in req[r].todo : sessions[s].user = req[r].user
    BY <1>5 DEF RevokeTx, At, IInv, SlotsOK, SlotOK
  <2>3. req'[r].pc # req[r].pc
    BY <1>5, GotoEffect DEF RevokeTx, At
  <2> QED
    BY <2>1, <2>2, <2>3 DEF OwnerRevokes
<1>6. ASSUME sessions' = sessions PROVE OwnerRevokes
  BY <1>1, <1>6
<1>7. ASSUME NEW r \in Reqs,
             \/ SignFirst(r) \/ StoreFirst(r) \/ CheckSession(r) \/ InsertRotated(r)
             \/ RetireOld(r) \/ SignRotated(r) \/ RevokeReusedFamily(r) \/ Validate(r) \/ Answer(r)
             \/ LogoutBlacklist(r) \/ Abort(r) \/ RevokeOthers(r)
             \/ \E s \in SessionIds : BlacklistSession(r, s) \/ RevokeOne(r, s)
             \/ \E t \in GrantIds : \/ BeginRefresh(r, t) \/ DetectReuse(r, t)
                                    \/ Verify(r, t) \/ LogoutFamily(r, t)
             \/ \E u \in Users : RevokeAllOf(r, u)
      PROVE  sessions' = sessions
  BY <1>7 DEF SignFirst, StoreFirst, CheckSession, InsertRotated, RetireOld,
     SignRotated, RevokeReusedFamily, Validate, Answer, LogoutBlacklist, Abort, RevokeOthers,
     BlacklistSession, RevokeOne, BeginRefresh, DetectReuse, Verify,
     LogoutFamily, RevokeAllOf, db
<1>8. CASE RedisRestart \/ Tick \/ UNCHANGED vars
  BY <1>6, <1>8 DEF RedisRestart, Tick, vars, db
<1> QED
  BY <1>2, <1>3, <1>4, <1>5, <1>6, <1>7, <1>8 DEF Next, Step, Call, Quiet

\* Only a request that acts for its owner revokes a session.
THEOREM RevokedByOwner == Spec => OnlyOwnerRevokes
<1>1. Init => TypeOK /\ IInv /\ Blank
  BY InitTypeOK, InitIInv DEF Init, Blank, NoSession, NoToken
<1>2. TypeOK /\ IInv /\ Blank /\ [Next]_vars => (TypeOK /\ IInv /\ Blank)' /\ [OwnerRevokes]_vars
  BY TypeStep, IInvStep, RevocationStep, OwnerStep
<1>3. Spec => [][OwnerRevokes]_vars
  BY <1>1, <1>2, PTL DEF Spec
<1> QED
  BY <1>3 DEF OwnerRevokes, OnlyOwnerRevokes

-----------------------------------------------------------------------------
(* A refresh that begins after the revocation of its session.               *)

LEMMA LateStep == TypeOK /\ IInv /\ Blank /\ LateOK /\ [Next]_vars => LateOK'
<1> SUFFICES ASSUME TypeOK, IInv, Blank, LateOK, [Next]_vars PROVE LateOK'
  OBVIOUS
\* A late slot that is left alone is still late, and its session still revoked.
<1>1. ASSUME NEW q \in Reqs, req'[q] = req[q], req'[q].late
      PROVE  req'[q].pc = "check" /\ sessions'[req'[q].session].revoked
  <2>1. req[q].session \in SessionIds
    BY <1>1 DEF LateOK, IInv, SlotsOK, SlotOK, Issuing, Refreshing
  <2> QED
    BY <1>1, <2>1, RevocationStep DEF LateOK, Final
<1>2. ASSUME NEW r \in Reqs, \A q \in Reqs \ {r} : req'[q] = req[q], ~req'[r].late
      PROVE  LateOK'
  BY <1>1, <1>2 DEF LateOK
<1>3. ASSUME NEW r \in Reqs, Done(r) PROVE LateOK'
  BY <1>2, <1>3, DoneEffect
\* A late slot is at "check", so it is not this one that moves on.
<1>4. ASSUME NEW r \in Reqs, NEW p, Goto(r, p), ~req[r].late PROVE LateOK'
  BY <1>2, <1>4, GotoEffect
<1>5. ASSUME NEW r \in Reqs, CheckSession(r) PROVE LateOK'
  <2>1. CASE SessionRefuses(req[r].session)
    BY <1>3, <1>5, <2>1 DEF CheckSession
  <2>2. CASE ~SessionRefuses(req[r].session)
    <3>1. ~req[r].late
      BY <2>2 DEF SessionRefuses, LateOK
    <3> QED
      BY <1>4, <1>5, <2>2, <3>1 DEF CheckSession
  <2> QED
    BY <2>1, <2>2
<1>6. ASSUME NEW r \in Reqs, NEW t \in GrantIds, BeginRefresh(r, t) PROVE LateOK'
  <2>1. /\ \A q \in Reqs \ {r} : req'[q] = req[q]
        /\ req'[r].pc = "check"
        /\ req'[r].session = tokens[t].session
        /\ req'[r].late = sessions[tokens[t].session].revoked
    BY <1>6 DEF BeginRefresh, TypeOK, Idle
  <2>2. sessions' = sessions
    BY <1>6 DEF BeginRefresh, db
  <2>3. req'[r].late => sessions'[req'[r].session].revoked
    BY <2>1, <2>2
  <2> QED
    BY <1>1, <2>1, <2>3 DEF LateOK
<1>7. ASSUME NEW r \in Reqs, NEW u \in Users, Login(r, u) PROVE LateOK'
  BY <1>2, <1>7 DEF Login, TypeOK, Idle
<1>8. ASSUME NEW r \in Reqs, NEW t \in GrantIds,
             DetectReuse(r, t) \/ Verify(r, t)
      PROVE  LateOK'
  BY <1>2, <1>8 DEF DetectReuse, Verify, TypeOK, Idle
<1>9. ASSUME NEW r \in Reqs,
             \/ \E s \in SessionIds : RevokeOne(r, s)
             \/ RevokeOthers(r)
             \/ \E u \in Users : RevokeAllOf(r, u)
      PROVE  LateOK'
  BY <1>2, <1>9, RevokeStartEffect DEF LateOK
<1>10. ASSUME NEW r \in Reqs, NEW s \in SessionIds, BlacklistSession(r, s) PROVE LateOK'
  BY <1>2, <1>10, BlacklistSessionEffect DEF LateOK
<1>11. ASSUME NEW r \in Reqs,
              \/ SignFirst(r) \/ InsertRotated(r) \/ RetireOld(r) \/ TouchSession(r)
              \/ RevokeReusedFamily(r) \/ LogoutSession(r) \/ RevokeTx(r)
              \/ \E t \in GrantIds : LogoutFamily(r, t)
       PROVE  LateOK'
  <2>1. req[r].pc # "check"
    BY <1>11 DEF SignFirst, InsertRotated, RetireOld, TouchSession, RevokeReusedFamily,
       LogoutSession, RevokeTx, LogoutFamily, At
  <2>2. \E p : Goto(r, p)
    BY <1>11 DEF SignFirst, InsertRotated, RetireOld, TouchSession, RevokeReusedFamily,
       LogoutSession, RevokeTx, LogoutFamily
  <2> QED
    BY <1>4, <2>1, <2>2 DEF LateOK
<1>12. ASSUME NEW r \in Reqs,
              \/ StoreFirst(r) \/ SignRotated(r) \/ RevokeReusedSession(r)
              \/ Answer(r) \/ LogoutBlacklist(r) \/ Abort(r)
       PROVE  LateOK'
  BY <1>3, <1>12
     DEF StoreFirst, SignRotated, RevokeReusedSession, Answer, LogoutBlacklist, Abort
<1>13. CASE RedisRestart \/ Tick \/ UNCHANGED vars
  BY <1>1, <1>13 DEF RedisRestart, Tick, vars, LateOK
<1>14. ASSUME NEW r \in Reqs, Validate(r) PROVE LateOK'
  BY <1>3, <1>4, <1>14 DEF Validate, At, LateOK
<1> QED
  BY <1>5, <1>6, <1>7, <1>8, <1>9, <1>10, <1>11, <1>12, <1>13, <1>14
     DEF Next, Step, Call, Quiet

\* A refresh that begins after its session was revoked issues nothing.
THEOREM LateRefreshesFail == Spec => []LateRefreshFails
<1>1. Init => TypeOK /\ IInv /\ Blank /\ LateOK
  BY InitTypeOK, InitIInv DEF Init, Blank, NoSession, NoToken, LateOK, Idle
<1>2. TypeOK /\ IInv /\ Blank /\ LateOK /\ [Next]_vars =>
        (TypeOK /\ IInv /\ Blank /\ LateOK)'
  BY TypeStep, IInvStep, RevocationStep, LateStep
<1>3. LateOK => LateRefreshFails
  BY DEF LateOK, LateRefreshFails
<1> QED
  BY <1>1, <1>2, <1>3, PTL DEF Spec

-----------------------------------------------------------------------------
(* The blacklist outlives what it stands for.                               *)

LEMMA SignedCutOff ==
  ASSUME TypeOK, IInv, CutOffCovered, NEW r \in Reqs, SignFirst(r) \/ SignRotated(r)
  PROVE  CutOffCovered'
<1>1. ~IsAccess(req[r].grant)
  BY DEF SignFirst, SignRotated, At, IInv, Reserved, Fresh, Issuing, LoggingIn, Refreshing
<1>2. \A g \in cutOff : access'[g] = access[g]
  BY <1>1 DEF CutOffCovered, SignFirst, SignRotated, Signed, TypeOK
<1>3. UNCHANGED <<cutOff, blackJti, blackSession, now>>
  BY DEF SignFirst, SignRotated, redis, history
<1> QED
  BY <1>2, <1>3 DEF CutOffCovered, IsAccess

LEMMA LogoutCutOff ==
  ASSUME TypeOK, IInv, CutOffCovered, NEW r \in Reqs, LogoutBlacklist(r)
  PROVE  CutOffCovered'
<1> DEFINE g == req[r].grant
<1>1. g \in GrantIds /\ IsAccess(g) /\ access[g].exp \in Nat /\ now \in Nat
  BY BoundsAssumption
     DEF LogoutBlacklist, At, IInv, SlotsOK, SlotOK, Authed, TypeOK, AccessRow
<1>2. access' = access /\ blackSession' = blackSession /\ now' = now
      /\ cutOff' = cutOff \cup {g}
  BY DEF LogoutBlacklist
<1>3. \A h \in GrantIds \ {g} : blackJti'[h] = blackJti[h]
  BY DEF LogoutBlacklist, TypeOK
<1>4. access[g].exp <= blackJti'[g] \/ access[g].exp <= now
  BY <1>1 DEF LogoutBlacklist, TypeOK
<1>5. cutOff \subseteq GrantIds
  BY DEF TypeOK
<1> QED
  BY <1>1, <1>2, <1>3, <1>4, <1>5 DEF CutOffCovered, IsAccess

LEMMA BlacklistSessionCutOff ==
  ASSUME TypeOK, IInv, CutOffCovered, NEW r \in Reqs, NEW s \in SessionIds,
         BlacklistSession(r, s)
  PROVE  CutOffCovered'
<1>1. access' = access /\ blackJti' = blackJti /\ now' = now
      /\ cutOff' = cutOff \cup {g \in GrantIds : IsAccess(g) /\ access[g].session = s}
  BY DEF BlacklistSession
<1>2. /\ blackSession'[s] = now + AccessTtl
      /\ \A i \in SessionIds \ {s} : blackSession'[i] = blackSession[i]
  BY DEF BlacklistSession, CutOffExpiry, TypeOK
<1>3. \A g \in GrantIds : IsAccess(g) =>
        access[g].session \in SessionIds /\ access[g].exp <= now + AccessTtl
  BY DEF TypeOK, IInv, RowsOK
<1>4. cutOff \subseteq GrantIds
  BY DEF TypeOK
<1> QED
  BY <1>1, <1>2, <1>3, <1>4 DEF CutOffCovered, IsAccess

LEMMA CutOffStep == TypeOK /\ IInv /\ CutOffCovered /\ [Next]_vars => CutOffCovered'
<1> SUFFICES ASSUME TypeOK, IInv, CutOffCovered, [Next]_vars PROVE CutOffCovered'
  OBVIOUS
<1>1. ASSUME UNCHANGED <<access, cutOff, blackJti, blackSession, now>>
      PROVE  CutOffCovered'
  BY <1>1 DEF CutOffCovered, IsAccess
<1>2. ASSUME RedisRestart PROVE CutOffCovered'
  BY <1>2 DEF RedisRestart, CutOffCovered
<1>3. ASSUME Tick PROVE CutOffCovered'
  <2>1. /\ UNCHANGED <<access, cutOff, blackJti, blackSession>>
        /\ now' = now + 1 /\ now \in Nat
    BY <1>3, BoundsAssumption DEF Tick, redis, history, TypeOK
  <2>2. \A g \in cutOff : access[g].exp \in Nat
    BY DEF TypeOK, AccessRow
  <2> QED
    BY <2>1, <2>2 DEF CutOffCovered, IsAccess
<1>4. ASSUME NEW r \in Reqs,
             \/ StoreFirst(r) \/ CheckSession(r) \/ InsertRotated(r) \/ RetireOld(r)
             \/ TouchSession(r) \/ RevokeReusedFamily(r) \/ RevokeReusedSession(r)
             \/ Validate(r) \/ Answer(r) \/ LogoutSession(r) \/ RevokeTx(r) \/ Abort(r)
             \/ RevokeOthers(r) \/ \E s \in SessionIds : RevokeOne(r, s)
             \/ \E u \in Users : Login(r, u) \/ RevokeAllOf(r, u)
             \/ \E t \in GrantIds : \/ BeginRefresh(r, t) \/ DetectReuse(r, t)
                                    \/ Verify(r, t) \/ LogoutFamily(r, t)
      PROVE  UNCHANGED <<access, cutOff, blackJti, blackSession, now>>
  BY <1>4 DEF StoreFirst, CheckSession, InsertRotated, RetireOld, TouchSession,
     RevokeReusedFamily, RevokeReusedSession, Validate, Answer, LogoutSession, RevokeTx, Abort,
     RevokeOthers, RevokeOne, Login, RevokeAllOf, BeginRefresh, DetectReuse,
     Verify, LogoutFamily, redis, history
<1>5. CASE UNCHANGED vars
  BY <1>1, <1>5 DEF vars
<1> QED
  BY <1>1, <1>2, <1>3, <1>4, <1>5, SignedCutOff, LogoutCutOff, BlacklistSessionCutOff
     DEF Next, Step, Call, Quiet

Admission == \A r \in Reqs : LET g == req[r].grant IN
    At(r, "verify") /\ At(r, "authed")' /\ g \in cutOff => now >= access[g].exp

LEMMA AdmissionStep == TypeOK /\ IInv /\ CutOffCovered /\ [Next]_vars => Admission
<1> SUFFICES ASSUME TypeOK, IInv, CutOffCovered, [Next]_vars PROVE Admission
  OBVIOUS
<1>1. ASSUME NEW r \in Reqs, \A q \in Reqs \ {r} : req'[q] = req[q],
             req'[r].pc # "authed" \/ req[r].pc # "verify"
      PROVE  Admission
  BY <1>1 DEF Admission, At
<1>2. ASSUME NEW r \in Reqs, Done(r) PROVE Admission
  BY <1>1, <1>2, DoneEffect
<1>3. ASSUME NEW r \in Reqs, NEW p, Goto(r, p), p # "authed" PROVE Admission
  BY <1>1, <1>3, GotoEffect
\* The only step that lets a request in has seen no key that covers its token.
<1>4. ASSUME NEW r \in Reqs, Validate(r) PROVE Admission
  <2>1. CASE Blacklisted(req[r].grant)
    BY <1>2, <1>4, <2>1 DEF Validate
  <2>2. CASE ~Blacklisted(req[r].grant)
    <3> DEFINE g == req[r].grant
    <3>1. /\ g \in GrantIds /\ IsAccess(g) /\ access[g].session \in SessionIds
          /\ now \in Nat /\ access[g].exp \in Nat /\ blackJti[g] \in Nat
          /\ blackSession[access[g].session] \in Nat
      BY <1>4, BoundsAssumption
         DEF Validate, At, IInv, SlotsOK, SlotOK, Authed, RowsOK, TypeOK, AccessRow
    <3>2. g \in cutOff => now >= access[g].exp
      BY <2>2, <3>1 DEF CutOffCovered, Blacklisted
    <3>3. \A q \in Reqs \ {r} : req'[q] = req[q]
      BY <1>4, DoneEffect, GotoEffect DEF Validate
    <3> QED
      BY <3>2, <3>3 DEF Admission, At
  <2> QED
    BY <2>1, <2>2
<1>5. ASSUME NEW r \in Reqs,
             \/ \E u \in Users : Login(r, u)
             \/ \E t \in GrantIds : BeginRefresh(r, t) \/ DetectReuse(r, t) \/ Verify(r, t)
      PROVE  Admission
  <2>1. (\A q \in Reqs \ {r} : req'[q] = req[q]) /\ req[r].pc = "idle"
    BY <1>5 DEF Login, BeginRefresh, DetectReuse, Verify, TypeOK, At
  <2> QED
    BY <1>1, <2>1
<1>6. ASSUME NEW r \in Reqs,
             \/ \E s \in SessionIds : RevokeOne(r, s)
             \/ RevokeOthers(r)
             \/ \E u \in Users : RevokeAllOf(r, u)
      PROVE  Admission
  BY <1>1, <1>6, RevokeStartEffect
<1>7. ASSUME NEW r \in Reqs, NEW s \in SessionIds, BlacklistSession(r, s) PROVE Admission
  BY <1>1, <1>7, BlacklistSessionEffect
<1>8. ASSUME NEW r \in Reqs,
             \/ SignFirst(r) \/ CheckSession(r) \/ InsertRotated(r) \/ RetireOld(r)
             \/ TouchSession(r) \/ RevokeReusedFamily(r) \/ LogoutSession(r) \/ RevokeTx(r)
             \/ \E t \in GrantIds : LogoutFamily(r, t)
      PROVE  Admission
  BY <1>2, <1>3, <1>8
     DEF SignFirst, CheckSession, InsertRotated, RetireOld, TouchSession,
         RevokeReusedFamily, AfterReusedFamily, LogoutSession, RevokeTx, LogoutFamily
<1>9. ASSUME NEW r \in Reqs,
             \/ StoreFirst(r) \/ SignRotated(r) \/ RevokeReusedSession(r)
             \/ Answer(r) \/ LogoutBlacklist(r) \/ Abort(r)
      PROVE  Admission
  BY <1>2, <1>9
     DEF StoreFirst, SignRotated, RevokeReusedSession, Answer, LogoutBlacklist, Abort
<1>10. CASE RedisRestart \/ Tick \/ UNCHANGED vars
  BY <1>10 DEF RedisRestart, Tick, vars, Admission, At
<1> QED
  BY <1>4, <1>5, <1>6, <1>7, <1>8, <1>9, <1>10 DEF Next, Step, Call, Quiet

\* No request is let in with an access token that was cut off before it ran out.
THEOREM CutOffForGood == Spec => CutOffStaysDead
<1>1. Init => TypeOK /\ IInv /\ CutOffCovered
  BY InitTypeOK, InitIInv DEF Init, CutOffCovered
<1>2. TypeOK /\ IInv /\ CutOffCovered /\ [Next]_vars =>
        (TypeOK /\ IInv /\ CutOffCovered)' /\ [Admission]_vars
  BY TypeStep, IInvStep, CutOffStep, AdmissionStep
<1>3. Spec => [][Admission]_vars
  BY <1>1, <1>2, PTL DEF Spec
<1> QED
  BY <1>3 DEF Admission, CutOffStaysDead

=============================================================================
