----------------------- MODULE SessionRefinementProofs -----------------------
(***************************************************************************)
(* Proofs, for every value of the constants, of what AuthSessions promises *)
(* when requests come one at a time: its invariants of that case, and      *)
(* that it implements SessionLifecycle when no request is cut short.       *)
(***************************************************************************)
EXTENDS AuthSessionsProofs, SessionRefinement

-----------------------------------------------------------------------------
(* What holds while one request is served at a time.                        *)

OneAtATime == \A q, r \in Reqs : q = r

Rotating == {"retire", "touch", "reissue"}

Row(g) == IsToken(g) \/ IsAccess(g)
Live(t) == IsToken(t) /\ ~tokens[t].revoked

\* A token of session s; the last one of its session.
Of(t, s) == IsToken(t) /\ tokens[t].session = s
Last(t) == \A u \in GrantIds : Of(u, tokens[t].session) => u <= t

\* Grants are numbered in the order in which they are made.
NInv ==
    /\ \A g, h \in GrantIds : Row(g) /\ h < g => Row(h)
    /\ \A r \in Reqs : req[r].pc \in Issuing =>
         /\ \A g \in GrantIds : Row(g) => g <= req[r].grant
         /\ \A g \in GrantIds : g < req[r].grant => Row(g)
    /\ \A r \in Reqs : At(r, "idle") => req[r].grant = 0

\* A grant is whole and has been handed out, or is being made; and a session has a
\* token, or is being opened.
DInv ==
    /\ \A g \in GrantIds : IsAccess(g) =>
         \/ g \in delivered /\ tokens[g].session = access[g].session
         \/ \E r \in Reqs : /\ At(r, "store") /\ req[r].grant = g
                            /\ req[r].session = access[g].session
    /\ \A g \in GrantIds : IsToken(g) =>
         \/ g \in delivered
         \/ \E r \in Reqs : req[r].pc \in Rotating /\ req[r].grant = g
    /\ \A s \in SessionIds : IsSession(s) =>
         \/ \E t \in GrantIds : Of(t, s)
         \/ \E r \in Reqs : req[r].pc \in LoggingIn /\ req[r].session = s

\* Only the last token of a session is live, but for one about to be retired; and it
\* is live, unless something ended the session or is about to have ended it.
LiveInv ==
    /\ \A t \in GrantIds : Live(t) =>
         Last(t) \/ \E r \in Reqs : At(r, "retire") /\ req[r].token = t
    /\ \A t \in GrantIds : IsToken(t) /\ tokens[t].revoked /\ Last(t) =>
         \/ ended[tokens[t].session] # {}
         \/ \E r \in Reqs : \/ At(r, "reuse") /\ req[r].session = tokens[t].session
                            \/ At(r, "cutoff") /\ tokens[t].session \in req[r].todo

\* What a request found is still so when it acts on it.
OpenInv ==
    \A r \in Reqs :
      /\ req[r].pc \in {"check", "insert", "retire"} => ~tokens[req[r].token].revoked
      /\ req[r].pc \in Rotating => ~tokens[req[r].grant].revoked /\ req[r].token < req[r].grant
      /\ At(r, "family") => Of(req[r].token, req[r].session)
      /\ req[r].pc \in Issuing \ {"check"} => ~sessions[req[r].session].revoked
      /\ At(r, "revoke") => \A s \in req[r].todo : ~sessions[s].revoked
      /\ At(r, "cutoff") => \A s \in req[r].todo : sessions[s].revoked

\* The key of a session that was revoked outlives every access token of it.
KeyInv ==
    \A s \in SessionIds : "revoke" \in ended[s] =>
      /\ sessions[s].revoked
      /\ \A g \in GrantIds : IsAccess(g) /\ access[g].session = s =>
           access[g].exp <= blackSession[s]

QInv == NInv /\ DInv /\ LiveInv /\ OpenInv /\ KeyInv

-----------------------------------------------------------------------------
(* What each step does, field by field.                                     *)

LEMMA LoginDid ==
  ASSUME TypeOK, NEW r \in Reqs, NEW u \in Users, Login(r, u)
  PROVE  \E s \in SessionIds, g \in GrantIds :
           /\ ~IsSession(s) /\ g \notin UsedGrants
           /\ \A h \in GrantIds : h \notin UsedGrants => g <= h
           /\ \A i \in SessionIds \ {s} : sessions'[i] = sessions[i]
           /\ sessions'[s].user = u /\ ~sessions'[s].revoked
           /\ req[r].pc = "idle" /\ req'[r].pc = "sign"
           /\ req'[r].session = s /\ req'[r].grant = g
           /\ UNCHANGED <<now, tokens, access, delivered, blackSession, cutOff, ended>>
<1>1. PICK s \in SessionIds, g \in GrantIds :
        /\ Lowest(s, SessionIds \ UsedSessions)
        /\ Lowest(g, GrantIds \ UsedGrants)
        /\ sessions' = [sessions EXCEPT ![s] = [user |-> u, revoked |-> FALSE,
                                                expiresAt |-> RefreshExpiry]]
        /\ req' = [req EXCEPT ![r] = [Idle EXCEPT !.pc = "sign", !.user = u,
                                                  !.session = s, !.grant = g]]
  BY DEF Login
<1>2. /\ req'[r].pc = "sign" /\ req'[r].session = s /\ req'[r].grant = g
  BY <1>1 DEF TypeOK, Idle
<1>3. /\ \A i \in SessionIds \ {s} : sessions'[i] = sessions[i]
      /\ sessions'[s].user = u /\ ~sessions'[s].revoked
  BY <1>1 DEF TypeOK
<1>4. ~IsSession(s) /\ g \notin UsedGrants /\ \A h \in GrantIds : h \notin UsedGrants => g <= h
  BY <1>1 DEF Lowest, UsedSessions
<1>5. req[r].pc = "idle"
      /\ UNCHANGED <<now, tokens, access, delivered, blackSession, cutOff, ended>>
  BY DEF Login, At, redis, history
<1> QED
  BY <1>2, <1>3, <1>4, <1>5

LEMMA BeginRefreshDid ==
  ASSUME TypeOK, IInv, NEW r \in Reqs, NEW t \in GrantIds, BeginRefresh(r, t)
  PROVE  /\ req[r].pc = "idle" /\ req'[r].pc = "check"
         /\ req'[r].token = t /\ req'[r].session = tokens[t].session
         /\ IsToken(t) /\ ~tokens[t].revoked /\ t \in delivered
         /\ req'[r].grant \in GrantIds \ UsedGrants
         /\ \A h \in GrantIds : h \notin UsedGrants => req'[r].grant <= h
         /\ UNCHANGED <<now, sessions, tokens, access, delivered, blackSession, ended>>
<1>1. PICK g \in GrantIds :
        /\ Lowest(g, GrantIds \ UsedGrants)
        /\ req' = [req EXCEPT ![r] =
                     [Idle EXCEPT !.pc = "check", !.user = tokens[t].user,
                                  !.session = tokens[t].session, !.token = t,
                                  !.grant = g,
                                  !.late = sessions[tokens[t].session].revoked]]
  BY DEF BeginRefresh
<1>2. /\ req'[r].pc = "check" /\ req'[r].token = t
      /\ req'[r].session = tokens[t].session /\ req'[r].grant = g
  BY <1>1 DEF TypeOK, Idle
<1>3. g \in GrantIds \ UsedGrants /\ \A h \in GrantIds : h \notin UsedGrants => g <= h
  BY <1>1 DEF Lowest
<1>4. /\ req[r].pc = "idle" /\ IsToken(t) /\ ~tokens[t].revoked /\ t \in delivered
      /\ UNCHANGED <<now, sessions, tokens, access, delivered, blackSession, ended>>
  BY DEF BeginRefresh, At, db, redis, history, IInv, RowsOK
<1> QED
  BY <1>2, <1>3, <1>4

\* What the slot of a request says while it makes a grant.
LEMMA Making ==
  ASSUME IInv, NEW r \in Reqs, req[r].pc \in Issuing
  PROVE  /\ req[r].session \in SessionIds /\ req[r].grant \in GrantIds
         /\ IsSession(req[r].session)
         /\ req[r].user = sessions[req[r].session].user /\ req[r].user # NoUser
         /\ req[r].pc # "store" => ~IsAccess(req[r].grant)
         /\ req[r].pc = "store" => IsAccess(req[r].grant)
         /\ req[r].pc \in LoggingIn \cup {"check", "insert"} => ~IsToken(req[r].grant)
         /\ req[r].pc \in LoggingIn => \A t \in GrantIds : ~Of(t, req[r].session)
         /\ req[r].pc \in Refreshing => req[r].token \in GrantIds /\ Of(req[r].token, req[r].session)
         /\ req[r].pc \in Rotating => IsToken(req[r].grant)
<1>1. SlotOK(r) /\ Fresh(r)
  BY DEF IInv, SlotsOK, Reserved
<1> QED
  BY <1>1 DEF SlotOK, Fresh, IsSession, Of, Rotating

\* The grant of a rotation is of the session of the token it replaces.
LEMMA RotatedOf ==
  ASSUME IInv, FInv, NEW r \in Reqs, req[r].pc \in Rotating
  PROVE  Of(req[r].grant, req[r].session)
<1>1. req[r].pc \in Issuing /\ req[r].pc \in Refreshing
  BY DEF Rotating, Issuing, Refreshing
<1>2. /\ req[r].grant \in GrantIds /\ IsToken(req[r].grant)
      /\ req[r].token \in GrantIds /\ Of(req[r].token, req[r].session)
  BY <1>1, Making
<1>3. tokens[req[r].grant].family = tokens[req[r].token].family
  BY DEF FInv, FamiliesOK, Rotating
<1> QED
  BY <1>2, <1>3 DEF FInv, FamiliesOK, Of

LEMMA SignDid ==
  ASSUME TypeOK, IInv, NEW r \in Reqs, SignFirst(r) \/ SignRotated(r)
  PROVE  LET g == req[r].grant IN
         /\ \A h \in GrantIds \ {g} : access'[h] = access[h]
         /\ access'[g].session = req[r].session /\ access'[g].user # NoUser
         /\ access'[g].exp = now + AccessTtl
         /\ UNCHANGED <<now, sessions, tokens, blackSession, ended>>
         /\ SignFirst(r) => /\ req[r].pc = "sign" /\ req'[r].pc = "store"
                            /\ req'[r].grant = g /\ req'[r].session = req[r].session
                            /\ delivered' = delivered
         /\ SignRotated(r) => /\ req[r].pc = "reissue"
                              /\ req'[r].pc = "idle" /\ req'[r].grant = 0
                              /\ delivered' = delivered \cup {g}
<1>1. req[r].pc \in {"sign", "reissue"} /\ Signed(req[r].grant, req[r].user, req[r].session)
  BY DEF SignFirst, SignRotated, At
<1>2. req[r].grant \in GrantIds /\ req[r].user # NoUser
  BY <1>1, Making DEF Issuing, LoggingIn, Refreshing
<1>3. /\ \A h \in GrantIds \ {req[r].grant} : access'[h] = access[h]
      /\ access'[req[r].grant].session = req[r].session
      /\ access'[req[r].grant].user = req[r].user
      /\ access'[req[r].grant].exp = now + AccessTtl
  BY <1>1, <1>2 DEF Signed, AccessExpiry, TypeOK
<1>4. UNCHANGED <<now, sessions, tokens, blackSession, ended>>
  BY DEF SignFirst, SignRotated, db, redis, history
<1>5. SignFirst(r) => /\ req[r].pc = "sign" /\ req'[r].pc = "store"
                      /\ req'[r].grant = req[r].grant /\ req'[r].session = req[r].session
                      /\ delivered' = delivered
  BY GotoEffect DEF SignFirst, At
<1>6. SignRotated(r) => /\ req[r].pc = "reissue"
                        /\ req'[r].pc = "idle" /\ req'[r].grant = 0
                        /\ delivered' = delivered \cup {req[r].grant}
  BY DoneEffect DEF SignRotated, At
<1> QED
  BY <1>2, <1>3, <1>4, <1>5, <1>6

LEMMA StoreDid ==
  ASSUME TypeOK, IInv, NEW r \in Reqs, StoreFirst(r)
  PROVE  LET g == req[r].grant IN
         /\ req[r].pc = "store" /\ req'[r].pc = "idle" /\ req'[r].grant = 0
         /\ \A h \in GrantIds \ {g} : tokens'[h] = tokens[h]
         /\ tokens'[g].user # NoUser /\ tokens'[g].session = req[r].session
         /\ ~tokens'[g].revoked
         /\ tokens'[g].expiresAt = sessions[req[r].session].expiresAt
         /\ delivered' = delivered \cup {g}
         /\ UNCHANGED <<now, sessions, access, blackSession, ended>>
<1>1. req[r].pc = "store" /\ req'[r].pc = "idle" /\ req'[r].grant = 0
  BY DoneEffect DEF StoreFirst, At
<1>2. req[r].grant \in GrantIds /\ req[r].user # NoUser
  BY <1>1, Making DEF Issuing, LoggingIn
<1>3. UNCHANGED <<now, sessions, access, blackSession, ended>>
  BY DEF StoreFirst, redis, history
<1> QED
  BY <1>1, <1>2, <1>3 DEF StoreFirst, TypeOK

LEMMA InsertDid ==
  ASSUME TypeOK, IInv, NEW r \in Reqs, InsertRotated(r)
  PROVE  LET g == req[r].grant IN
         /\ req[r].pc = "insert" /\ req'[r].pc = "retire"
         /\ req'[r].grant = g /\ req'[r].token = req[r].token
         /\ req'[r].session = req[r].session
         /\ \A h \in GrantIds \ {g} : tokens'[h] = tokens[h]
         /\ tokens'[g].user # NoUser /\ tokens'[g].session = req[r].session
         /\ ~tokens'[g].revoked /\ tokens'[g].expiresAt = now + RefreshTtl
         /\ UNCHANGED <<now, sessions, access, delivered, blackSession, ended>>
<1>1. /\ req[r].pc = "insert" /\ req'[r].pc = "retire"
      /\ req'[r].grant = req[r].grant /\ req'[r].token = req[r].token
      /\ req'[r].session = req[r].session
  BY GotoEffect DEF InsertRotated, At
<1>2. req[r].grant \in GrantIds /\ req[r].user # NoUser
  BY <1>1, Making DEF Issuing, Refreshing
<1>3. UNCHANGED <<now, sessions, access, delivered, blackSession, ended>>
  BY DEF InsertRotated, redis, history
<1> QED
  BY <1>1, <1>2, <1>3 DEF InsertRotated, RefreshExpiry, TypeOK

LEMMA RetireDid ==
  ASSUME TypeOK, IInv, NEW r \in Reqs, RetireOld(r)
  PROVE  LET t == req[r].token IN
         /\ req[r].pc = "retire" /\ req'[r].pc = "touch"
         /\ req'[r].grant = req[r].grant /\ req'[r].token = t
         /\ req'[r].session = req[r].session
         /\ \A h \in GrantIds \ {t} : tokens'[h] = tokens[h]
         /\ tokens'[t].user = tokens[t].user /\ tokens'[t].session = tokens[t].session
         /\ tokens'[t].revoked /\ tokens'[t].expiresAt = tokens[t].expiresAt
         /\ UNCHANGED <<now, sessions, access, delivered, blackSession, ended>>
<1>1. /\ req[r].pc = "retire" /\ req'[r].pc = "touch"
      /\ req'[r].grant = req[r].grant /\ req'[r].token = req[r].token
      /\ req'[r].session = req[r].session
  BY GotoEffect DEF RetireOld, At
<1>2. req[r].token \in GrantIds
  BY <1>1, Making DEF Issuing, Refreshing
<1>3. UNCHANGED <<now, sessions, access, delivered, blackSession, ended>>
  BY DEF RetireOld, redis, history
<1>4. ASSUME NEW x \in TokenRow
      PROVE  LET y == Retired(x, req[r].grant) IN
             /\ y.user = x.user /\ y.session = x.session /\ y.revoked
             /\ y.expiresAt = x.expiresAt
  BY DEF TokenRow, Retired
<1>5. tokens' = [tokens EXCEPT ![req[r].token] = Retired(tokens[req[r].token], req[r].grant)]
  BY DEF RetireOld
<1>6. tokens'[req[r].token] = Retired(tokens[req[r].token], req[r].grant)
      /\ tokens[req[r].token] \in TokenRow
      /\ \A h \in GrantIds \ {req[r].token} : tokens'[h] = tokens[h]
  BY <1>2, <1>5 DEF TypeOK
<1> QED
  BY <1>1, <1>3, <1>4, <1>6

LEMMA TouchDid ==
  ASSUME TypeOK, IInv, NEW r \in Reqs, TouchSession(r)
  PROVE  LET s == req[r].session IN
         /\ req[r].pc = "touch" /\ req'[r].pc = "reissue"
         /\ req'[r].grant = req[r].grant /\ req'[r].token = req[r].token
         /\ req'[r].session = s
         /\ \A i \in SessionIds \ {s} : sessions'[i] = sessions[i]
         /\ sessions'[s].user = sessions[s].user
         /\ sessions'[s].revoked = sessions[s].revoked
         /\ sessions'[s].expiresAt = tokens[req[r].grant].expiresAt
         /\ UNCHANGED <<now, tokens, access, delivered, blackSession, ended>>
<1>1. /\ req[r].pc = "touch" /\ req'[r].pc = "reissue"
      /\ req'[r].grant = req[r].grant /\ req'[r].token = req[r].token
      /\ req'[r].session = req[r].session
  BY GotoEffect DEF TouchSession, At
<1>2. req[r].session \in SessionIds
  BY <1>1, Making DEF Issuing, Refreshing
<1>3. UNCHANGED <<now, tokens, access, delivered, blackSession, ended>>
  BY DEF TouchSession, redis, history
<1>4. ASSUME NEW x \in SessionRow, NEW e
      PROVE  LET y == Touched(x, e) IN
             y.user = x.user /\ y.revoked = x.revoked /\ y.expiresAt = e
  BY DEF SessionRow, Touched
<1>5. sessions' = [sessions EXCEPT ![req[r].session] =
                     Touched(sessions[req[r].session], tokens[req[r].grant].expiresAt)]
  BY DEF TouchSession
<1>6. /\ sessions'[req[r].session] =
           Touched(sessions[req[r].session], tokens[req[r].grant].expiresAt)
      /\ sessions[req[r].session] \in SessionRow
      /\ \A i \in SessionIds \ {req[r].session} : sessions'[i] = sessions[i]
  BY <1>2, <1>5 DEF TypeOK
<1> QED
  BY <1>1, <1>3, <1>4, <1>6

-----------------------------------------------------------------------------
(* What the steps do that revoke or that only decide.                       *)

\* No token, session or access token is made, and none changes but by revocation.
Kept ==
    /\ \A t \in GrantIds : /\ tokens'[t].user = tokens[t].user
                           /\ tokens'[t].session = tokens[t].session
                           /\ tokens'[t].expiresAt = tokens[t].expiresAt
                           /\ tokens[t].revoked => tokens'[t].revoked
    /\ \A s \in SessionIds : /\ sessions'[s].user = sessions[s].user
                             /\ sessions'[s].expiresAt = sessions[s].expiresAt
                             /\ sessions[s].revoked => sessions'[s].revoked
    /\ UNCHANGED <<access, delivered, now>>

LEMMA SameKept ==
  ASSUME UNCHANGED <<tokens, sessions, access, delivered, now>>
  PROVE  Kept
  BY DEF Kept

LEMMA CheckDid ==
  ASSUME TypeOK, NEW r \in Reqs, CheckSession(r)
  PROVE  /\ req[r].pc = "check"
         /\ \/ req'[r].pc = "idle" /\ req'[r].grant = 0
            \/ /\ req'[r].pc = "insert" /\ ~sessions[req[r].session].revoked
               /\ req'[r].grant = req[r].grant /\ req'[r].token = req[r].token
               /\ req'[r].session = req[r].session
         /\ UNCHANGED <<tokens, sessions, access, delivered, now, blackSession, ended>>
<1>1. UNCHANGED <<tokens, sessions, access, delivered, now, blackSession, ended>>
  BY DEF CheckSession, db, redis, history
<1>2. CASE Done(r)
  BY <1>1, <1>2, DoneEffect DEF CheckSession, At
<1>3. CASE Goto(r, "insert") /\ ~sessions[req[r].session].revoked
  BY <1>1, <1>3, GotoEffect DEF CheckSession, At
<1> QED
  BY <1>2, <1>3 DEF CheckSession, SessionRefuses

LEMMA DetectDid ==
  ASSUME TypeOK, IInv, NEW r \in Reqs, NEW t \in GrantIds, DetectReuse(r, t)
  PROVE  /\ req[r].pc = "idle" /\ req'[r].pc = "family"
         /\ req'[r].token = t /\ req'[r].session = tokens[t].session
         /\ IsToken(t) /\ req'[r].todo = {}
         /\ UNCHANGED <<tokens, sessions, access, delivered, now, blackSession, ended>>
<1>1. req'[r] = [Idle EXCEPT !.pc = "family", !.user = tokens[t].user,
                             !.session = tokens[t].session, !.token = t]
  BY DEF DetectReuse, TypeOK
<1>2. /\ req'[r].pc = "family" /\ req'[r].token = t /\ req'[r].todo = {}
      /\ req'[r].session = tokens[t].session
  BY <1>1 DEF Idle
<1> QED
  BY <1>2 DEF DetectReuse, At, IInv, RowsOK, db, redis, history

\* Requests that are being let in, or answered without effect.
LEMMA AdmitDid ==
  ASSUME TypeOK, NEW r \in Reqs,
         (\E g \in GrantIds : Verify(r, g)) \/ Validate(r) \/ Answer(r)
  PROVE  /\ req[r].pc \in {"idle", "verify", "authed"}
         /\ req'[r].pc \in {"idle", "verify", "authed"}
         /\ req'[r].pc = "idle" => req'[r].grant = 0
         /\ UNCHANGED <<tokens, sessions, access, delivered, now, blackSession, ended>>
<1>1. UNCHANGED <<tokens, sessions, access, delivered, now, blackSession, ended>>
  BY DEF Verify, Validate, Answer, db, redis, history
<1>2. ASSUME NEW g \in GrantIds, Verify(r, g)
      PROVE  req[r].pc = "idle" /\ req'[r].pc = "verify"
  <2>1. req'[r] = [Idle EXCEPT !.pc = "verify", !.grant = g, !.user = access[g].user,
                               !.session = access[g].session]
    BY <1>2 DEF Verify, TypeOK
  <2> QED
    BY <1>2, <2>1 DEF Idle, Verify, At
<1>3. ASSUME Validate(r) \/ Answer(r)
      PROVE  /\ req[r].pc \in {"verify", "authed"}
             /\ Done(r) \/ Goto(r, "authed")
  BY <1>3 DEF Validate, Answer, At
<1>4. CASE Done(r)
  BY <1>1, <1>2, <1>3, <1>4, DoneEffect
<1>5. CASE Goto(r, "authed")
  BY <1>1, <1>2, <1>3, <1>5, GotoEffect
<1> QED
  BY <1>1, <1>2, <1>3, <1>4, <1>5

\* The three ways to begin a revocation.
LEMMA ChooseDid ==
  ASSUME TypeOK, NEW r \in Reqs,
         \/ \E s \in SessionIds : RevokeOne(r, s)
         \/ RevokeOthers(r)
         \/ \E u \in Users : RevokeAllOf(r, u)
  PROVE  /\ req[r].pc \in {"idle", "authed"} /\ req'[r].pc = "revoke"
         /\ \A s \in req'[r].todo : s \in SessionIds /\ ~sessions[s].revoked
         /\ UNCHANGED <<tokens, sessions, access, delivered, now, blackSession, ended>>
<1>1. UNCHANGED <<tokens, sessions, access, delivered, now, blackSession, ended>>
  BY DEF RevokeOne, RevokeOthers, RevokeAllOf, db, redis, history
<1>2. ASSUME NEW S, req' = [req EXCEPT ![r].pc = "revoke", ![r].todo = S]
      PROVE  req'[r].pc = "revoke" /\ req'[r].todo = S
  <2>1. ASSUME NEW x \in Slot
        PROVE  LET y == [x EXCEPT !.pc = "revoke", !.todo = S] IN
               y.pc = "revoke" /\ y.todo = S
    BY DEF Slot
  <2>2. req[r] \in Slot /\ req'[r] = [req[r] EXCEPT !.pc = "revoke", !.todo = S]
    BY <1>2 DEF TypeOK
  <2> QED
    BY <2>1, <2>2
<1>3. ASSUME NEW s \in SessionIds, RevokeOne(r, s)
      PROVE  /\ req[r].pc = "authed" /\ req'[r].pc = "revoke"
             /\ \A i \in req'[r].todo : i \in SessionIds /\ ~sessions[i].revoked
  <2>1. req' = [req EXCEPT ![r].pc = "revoke", ![r].todo = {s}] /\ req[r].pc = "authed"
        /\ ~sessions[s].revoked
    BY <1>3 DEF RevokeOne, MayRevoke, At
  <2>2. req'[r].pc = "revoke" /\ req'[r].todo = {s}
    BY <1>2, <2>1
  <2> QED
    BY <2>1, <2>2
<1>4. ASSUME NEW u, NEW e
      PROVE  \A i \in ActiveExcept(u, e) : i \in SessionIds /\ ~sessions[i].revoked
  BY DEF ActiveExcept
<1>5. ASSUME RevokeOthers(r)
      PROVE  /\ req[r].pc = "authed" /\ req'[r].pc = "revoke"
             /\ \A i \in req'[r].todo : i \in SessionIds /\ ~sessions[i].revoked
  <2> DEFINE S == ActiveExcept(req[r].user, req[r].session)
  <2>1. req' = [req EXCEPT ![r].pc = "revoke", ![r].todo = S] /\ req[r].pc = "authed"
    BY <1>5 DEF RevokeOthers, At
  <2>2. \A i \in S : i \in SessionIds /\ ~sessions[i].revoked
    BY <1>4
  <2> HIDE DEF S
  <2>3. req'[r].pc = "revoke" /\ req'[r].todo = S
    BY <1>2, <2>1
  <2> QED
    BY <2>1, <2>2, <2>3
<1>6. ASSUME NEW u \in Users, RevokeAllOf(r, u)
      PROVE  /\ req[r].pc = "idle" /\ req'[r].pc = "revoke"
             /\ \A i \in req'[r].todo : i \in SessionIds /\ ~sessions[i].revoked
  <2>1. req'[r] = [Idle EXCEPT !.pc = "revoke", !.user = u, !.todo = ActiveExcept(u, 0)]
    BY <1>6 DEF RevokeAllOf, TypeOK
  <2>2. req'[r].pc = "revoke" /\ req'[r].todo = ActiveExcept(u, 0)
    BY <2>1 DEF Idle
  <2>3. \A i \in ActiveExcept(u, 0) : i \in SessionIds /\ ~sessions[i].revoked
    BY <1>4
  <2>4. req[r].pc = "idle"
    BY <1>6 DEF RevokeAllOf, At
  <2> QED
    BY <2>2, <2>3, <2>4
<1> QED
  BY <1>1, <1>3, <1>5, <1>6

LEMMA RevokeTokensDid ==
  ASSUME TypeOK, NEW G, RevokeTokens(G)
  PROVE  \A t \in GrantIds : /\ tokens'[t].user = tokens[t].user
                             /\ tokens'[t].session = tokens[t].session
                             /\ tokens'[t].expiresAt = tokens[t].expiresAt
                             /\ tokens[t].revoked => tokens'[t].revoked
                             /\ t \in G => tokens'[t].revoked
                             /\ tokens'[t].revoked => tokens[t].revoked \/ t \in G
<1>1. ASSUME NEW x \in TokenRow
      PROVE  LET y == [x EXCEPT !.revoked = TRUE] IN
             y.user = x.user /\ y.session = x.session /\ y.expiresAt = x.expiresAt /\ y.revoked
  BY DEF TokenRow
<1>2. ASSUME NEW t \in GrantIds, t \in G
      PROVE  tokens'[t] = [tokens[t] EXCEPT !.revoked = TRUE] /\ tokens[t] \in TokenRow
  BY <1>2 DEF RevokeTokens, TypeOK
<1>3. ASSUME NEW t \in GrantIds, t \notin G PROVE tokens'[t] = tokens[t]
  BY <1>3 DEF RevokeTokens
<1> QED
  BY <1>1, <1>2, <1>3

LEMMA RevokeSessionDid ==
  ASSUME TypeOK, NEW s \in SessionIds, RevokeSession(s)
  PROVE  /\ \A i \in SessionIds : /\ sessions'[i].user = sessions[i].user
                                  /\ sessions'[i].expiresAt = sessions[i].expiresAt
                                  /\ sessions[i].revoked => sessions'[i].revoked
         /\ \A i \in SessionIds \ {s} : sessions'[i] = sessions[i]
         /\ sessions'[s].revoked
<1>1. ASSUME NEW x \in SessionRow
      PROVE  LET y == [x EXCEPT !.revoked = TRUE] IN
             y.user = x.user /\ y.expiresAt = x.expiresAt /\ y.revoked
  BY DEF SessionRow
<1>2. /\ sessions'[s] = [sessions[s] EXCEPT !.revoked = TRUE] /\ sessions[s] \in SessionRow
      /\ \A i \in SessionIds \ {s} : sessions'[i] = sessions[i]
  BY DEF RevokeSession, TypeOK
<1>3. /\ sessions'[s].user = sessions[s].user /\ sessions'[s].expiresAt = sessions[s].expiresAt
      /\ sessions'[s].revoked
  BY <1>1, <1>2
<1> QED
  BY <1>2, <1>3

\* The family of a token is the tokens of its session.
LEMMA FamilyDid ==
  ASSUME TypeOK, IInv, FInv, NEW t \in GrantIds, IsToken(t), RevokeTokens(FamilyOf(t))
  PROVE  \A u \in GrantIds : /\ tokens'[u].user = tokens[u].user
                             /\ tokens'[u].session = tokens[u].session
                             /\ tokens'[u].expiresAt = tokens[u].expiresAt
                             /\ tokens[u].revoked => tokens'[u].revoked
                             /\ Of(u, tokens[t].session) => tokens'[u].revoked
                             /\ tokens'[u].revoked => tokens[u].revoked \/ Of(u, tokens[t].session)
<1>1. \A u \in GrantIds : u \in FamilyOf(t) <=> Of(u, tokens[t].session)
  BY FInvImplies DEF FamilyIsSession, FamilyOf, Of
<1> QED
  BY <1>1, RevokeTokensDid

LEMMA ReusedFamilyDid ==
  ASSUME TypeOK, IInv, FInv, OpenInv, NEW r \in Reqs, RevokeReusedFamily(r)
  PROVE  LET s == req[r].session IN
         /\ Kept /\ req[r].pc = "family" /\ req'[r].pc = "reuse" /\ req'[r].session = s
         /\ \A t \in GrantIds : /\ Of(t, s) => tokens'[t].revoked
                                /\ tokens'[t].revoked => tokens[t].revoked \/ Of(t, s)
         /\ s \in SessionIds
         /\ UNCHANGED <<sessions, blackSession, ended>>
<1>1. /\ req[r].pc = "family" /\ req'[r].pc = "reuse" /\ req'[r].session = req[r].session
  BY GotoEffect DEF RevokeReusedFamily, At, AfterReusedFamily
<1>2. /\ req[r].token \in GrantIds /\ req[r].session \in SessionIds
      /\ Of(req[r].token, req[r].session)
  BY <1>1 DEF IInv, SlotsOK, SlotOK, Reusing, OpenInv, At
<1>3. UNCHANGED <<sessions, access, delivered, now, blackSession, ended>>
  BY DEF RevokeReusedFamily, redis, history
<1>4. RevokeTokens(FamilyOf(req[r].token)) /\ IsToken(req[r].token)
      /\ tokens[req[r].token].session = req[r].session
  BY <1>2 DEF RevokeReusedFamily, Of
<1> QED
  BY <1>1, <1>2, <1>3, <1>4, FamilyDid DEF Kept

LEMMA LogoutFamilyDid ==
  ASSUME TypeOK, IInv, FInv, NEW r \in Reqs, NEW t \in GrantIds, LogoutFamily(r, t)
  PROVE  LET s == tokens[t].session IN
         /\ Kept /\ req[r].pc = "authed" /\ req'[r].pc = "logout"
         /\ \A u \in GrantIds : /\ Of(u, s) => tokens'[u].revoked
                                /\ tokens'[u].revoked => tokens[u].revoked \/ Of(u, s)
         /\ s \in SessionIds /\ Of(t, s)
         /\ \A i \in SessionIds : ended[i] \subseteq ended'[i]
                                  /\ ("revoke" \in ended'[i] => "revoke" \in ended[i])
         /\ ended'[s] # {}
         /\ UNCHANGED <<sessions, blackSession>>
<1>1. req[r].pc = "authed" /\ req'[r].pc = "logout"
  BY GotoEffect DEF LogoutFamily, At
<1>2. IsToken(t) /\ tokens[t].session \in SessionIds
  BY DEF LogoutFamily, IInv, RowsOK
<1>3. UNCHANGED <<sessions, access, delivered, now, blackSession>>
  BY DEF LogoutFamily, redis, history
<1>4. RevokeTokens(FamilyOf(t))
  BY DEF LogoutFamily
<1>5. /\ \A i \in SessionIds : ended[i] \subseteq ended'[i]
                                  /\ ("revoke" \in ended'[i] => "revoke" \in ended[i])
      /\ ended'[tokens[t].session] # {}
  BY <1>2 DEF LogoutFamily, TypeOK
<1> QED
  BY <1>1, <1>2, <1>3, <1>4, <1>5, FamilyDid DEF Kept, Of

\* The session of a reused token, or the one that logs out.
LEMMA CloseDid ==
  ASSUME TypeOK, IInv, NEW r \in Reqs, RevokeReusedSession(r) \/ LogoutSession(r)
  PROVE  LET s == req[r].session IN
         /\ Kept /\ req[r].pc \in {"reuse", "authed", "logout"}
         /\ req'[r].pc \in {"idle", "blacklist"} /\ (req'[r].pc = "idle" => req'[r].grant = 0)
         /\ s \in SessionIds /\ IsSession(s) /\ sessions'[s].revoked
         /\ \A i \in SessionIds \ {s} : sessions'[i] = sessions[i]
         /\ \A i \in SessionIds : ended[i] \subseteq ended'[i]
                                  /\ ("revoke" \in ended'[i] => "revoke" \in ended[i])
         /\ req[r].pc = "reuse" => ended'[s] # {}
         /\ UNCHANGED <<tokens, blackSession>>
<1>1. /\ req[r].pc \in {"reuse", "authed", "logout"}
      /\ RevokeSession(req[r].session)
      /\ UNCHANGED <<tokens, access, delivered, now, blackSession>>
  BY DEF RevokeReusedSession, LogoutSession, At, redis
<1>2. req[r].session \in SessionIds /\ IsSession(req[r].session)
  BY <1>1 DEF IInv, SlotsOK, SlotOK, Reusing, Authed
<1>3. ASSUME RevokeReusedSession(r)
      PROVE  /\ req'[r].pc = "idle" /\ req'[r].grant = 0
             /\ \A i \in SessionIds : ended[i] \subseteq ended'[i]
                                  /\ ("revoke" \in ended'[i] => "revoke" \in ended[i])
             /\ ended'[req[r].session] # {}
  BY <1>2, <1>3, DoneEffect DEF RevokeReusedSession, TypeOK
<1>4. ASSUME LogoutSession(r)
      PROVE  /\ req'[r].pc = "blacklist" /\ ended' = ended /\ req[r].pc # "reuse"
  BY <1>4, GotoEffect DEF LogoutSession, history
<1>5. Kept /\ sessions'[req[r].session].revoked
      /\ \A i \in SessionIds \ {req[r].session} : sessions'[i] = sessions[i]
  BY <1>1, <1>2, RevokeSessionDid DEF Kept
<1> QED
  BY <1>1, <1>2, <1>3, <1>4, <1>5

LEMMA LogoutBlacklistDid ==
  ASSUME TypeOK, IInv, NEW r \in Reqs, LogoutBlacklist(r)
  PROVE  /\ req[r].pc = "blacklist" /\ req'[r].pc = "idle" /\ req'[r].grant = 0
         /\ \A i \in SessionIds : ended[i] \subseteq ended'[i]
                                  /\ ("revoke" \in ended'[i] => "revoke" \in ended[i])
         /\ UNCHANGED <<tokens, sessions, access, delivered, now, blackSession>>
<1>1. req[r].pc = "blacklist" /\ req'[r].pc = "idle" /\ req'[r].grant = 0
  BY DoneEffect DEF LogoutBlacklist, At
<1>2. \A i \in SessionIds : ended[i] \subseteq ended'[i]
                                  /\ ("revoke" \in ended'[i] => "revoke" \in ended[i])
  BY DEF LogoutBlacklist, TypeOK
<1>3. UNCHANGED <<tokens, sessions, access, delivered, now, blackSession>>
  BY DEF LogoutBlacklist, db
<1> QED
  BY <1>1, <1>2, <1>3

LEMMA RevokeTxDid ==
  ASSUME TypeOK, IInv, NEW r \in Reqs, RevokeTx(r)
  PROVE  /\ Kept /\ req[r].pc = "revoke" /\ req'[r].pc = "cutoff"
         /\ req'[r].todo = req[r].todo /\ req[r].todo \subseteq SessionIds
         /\ \A s \in SessionIds : /\ s \in req[r].todo => sessions'[s].revoked
                                  /\ s \notin req[r].todo => sessions'[s] = sessions[s]
         /\ \A t \in GrantIds : LET own == IsToken(t) /\ tokens[t].session \in req[r].todo IN
              /\ own => tokens'[t].revoked
              /\ tokens'[t].revoked => tokens[t].revoked \/ own
         /\ UNCHANGED <<blackSession, ended>>
<1>1. /\ req[r].pc = "revoke" /\ req'[r].pc = "cutoff" /\ req'[r].todo = req[r].todo
  BY GotoEffect DEF RevokeTx, At
<1>2. req[r].todo \subseteq SessionIds
  BY DEF TypeOK, Slot
<1>3. UNCHANGED <<access, delivered, now, blackSession, ended>>
  BY DEF RevokeTx, redis, history
<1>4. ASSUME NEW x \in SessionRow
      PROVE  LET y == [x EXCEPT !.revoked = TRUE] IN
             y.user = x.user /\ y.expiresAt = x.expiresAt /\ y.revoked
  BY DEF SessionRow
<1>5. ASSUME NEW s \in SessionIds
      PROVE  /\ s \in req[r].todo => sessions'[s] = [sessions[s] EXCEPT !.revoked = TRUE]
             /\ s \notin req[r].todo => sessions'[s] = sessions[s]
             /\ sessions[s] \in SessionRow
  BY DEF RevokeTx, TypeOK
<1>6. ASSUME NEW s \in SessionIds
      PROVE  /\ sessions'[s].user = sessions[s].user
             /\ sessions'[s].expiresAt = sessions[s].expiresAt
             /\ sessions[s].revoked => sessions'[s].revoked
             /\ s \in req[r].todo => sessions'[s].revoked
             /\ s \notin req[r].todo => sessions'[s] = sessions[s]
  BY <1>4, <1>5
<1>7. RevokeTokens(TokensOf(req[r].todo))
      /\ \A t \in GrantIds : t \in TokensOf(req[r].todo) <=>
           IsToken(t) /\ tokens[t].session \in req[r].todo
  BY DEF RevokeTx, TokensOf
<1> QED
  BY <1>1, <1>2, <1>3, <1>6, <1>7, RevokeTokensDid DEF Kept

LEMMA BlacklistDid ==
  ASSUME TypeOK, IInv, NEW r \in Reqs, NEW s \in SessionIds, BlacklistSession(r, s)
  PROVE  /\ req[r].pc = "cutoff" /\ s \in req[r].todo
         /\ \/ req'[r].pc = "idle" /\ req'[r].grant = 0 /\ req[r].todo \subseteq {s}
            \/ req'[r].pc = "cutoff" /\ req'[r].todo = req[r].todo \ {s}
         /\ blackSession'[s] = now + AccessTtl
         /\ \A i \in SessionIds \ {s} : blackSession'[i] = blackSession[i] /\ ended'[i] = ended[i]
         /\ ended'[s] # {} /\ ended[s] \subseteq ended'[s]
         /\ UNCHANGED <<tokens, sessions, access, delivered, now>>
<1> DEFINE left == StillToDo(req[r].todo, s)
<1>1. /\ req[r].pc = "cutoff" /\ s \in req[r].todo
      /\ UNCHANGED <<tokens, sessions, access, delivered, now>>
      /\ \/ left = {} /\ Done(r)
         \/ req' = [req EXCEPT ![r].todo = left]
  BY DEF BlacklistSession, At, db
<1>2. left = req[r].todo \ {s}
  BY DEF StillToDo
<1>3. /\ blackSession'[s] = now + AccessTtl
      /\ \A i \in SessionIds \ {s} : blackSession'[i] = blackSession[i] /\ ended'[i] = ended[i]
      /\ ended'[s] # {} /\ ended[s] \subseteq ended'[s]
  BY DEF BlacklistSession, CutOffExpiry, TypeOK
<1> HIDE DEF left
<1>4. CASE left = {} /\ Done(r)
  BY <1>1, <1>2, <1>3, <1>4, DoneEffect
<1>5. CASE req' = [req EXCEPT ![r].todo = left]
  <2>1. ASSUME NEW x \in Slot
        PROVE  LET y == [x EXCEPT !.todo = left] IN y.pc = x.pc /\ y.todo = left
    BY DEF Slot
  <2>2. req[r] \in Slot /\ req'[r] = [req[r] EXCEPT !.todo = left]
    BY <1>5 DEF TypeOK
  <2>3. req'[r].pc = "cutoff" /\ req'[r].todo = left
    BY <1>1, <2>1, <2>2
  <2> QED
    BY <1>1, <1>2, <1>3, <2>3
<1> QED
  BY <1>1, <1>4, <1>5

-----------------------------------------------------------------------------
(* The numbering of grants.                                                 *)

\* Steps after which the slot makes no grant, or still makes the one it made.
LEMMA KeptN ==
  ASSUME OneAtATime, NInv, NEW r \in Reqs, access' = access,
         \A g \in GrantIds : tokens'[g].user = tokens[g].user,
         req'[r].pc = "idle" => req'[r].grant = 0,
         req'[r].pc \in Issuing => req[r].pc \in Issuing /\ req'[r].grant = req[r].grant
  PROVE  NInv'
<1>1. \A g \in GrantIds : Row(g)' <=> Row(g)
  BY DEF Row, IsToken, IsAccess
<1>2. \A q \in Reqs : q = r
  BY DEF OneAtATime
<1> QED
  BY <1>1, <1>2 DEF NInv, At

\* A slot takes the lowest number that is free.
LEMMA ReservedN ==
  ASSUME OneAtATime, NInv, NEW r \in Reqs, req[r].pc = "idle", req'[r].pc \in Issuing,
         req'[r].grant \in GrantIds \ UsedGrants,
         \A h \in GrantIds : h \notin UsedGrants => req'[r].grant <= h,
         UNCHANGED <<tokens, access>>
  PROVE  NInv'
<1> DEFINE g == req'[r].grant
<1>1. \A h \in GrantIds : Row(h)' <=> Row(h)
  BY DEF Row, IsToken, IsAccess
<1>2. (\A q \in Reqs : q = r) /\ req'[r].pc # "idle"
  BY DEF OneAtATime, Issuing, LoggingIn, Refreshing
<1>3. req[r].grant = 0
  BY DEF NInv, At
<1>4. \A h \in GrantIds : h \in UsedGrants <=> Row(h)
  BY <1>2, <1>3, ZeroIsNoId DEF UsedGrants, Row
<1>5. \A h \in GrantIds : Row(h) => h <= g
  <2>1. \A h \in GrantIds : h \in Nat
    BY DEF GrantIds
  <2>2. ~Row(g) /\ g \in GrantIds
    BY <1>4
  <2> QED
    BY <2>1, <2>2 DEF NInv
<1>6. \A h \in GrantIds : h < g => Row(h)
  <2>1. \A h \in GrantIds : h \in Nat
    BY DEF GrantIds
  <2> QED
    BY <2>1, <1>4
<1> HIDE DEF g
<1>7. ASSUME NEW h \in GrantIds
      PROVE  /\ Row(h)' => h <= g
             /\ h < g => Row(h)'
             /\ \A i \in GrantIds : Row(h)' /\ i < h => Row(i)'
  BY <1>1, <1>5, <1>6 DEF NInv
<1> QED
  BY <1>2, <1>7 DEF NInv, At, g

\* The grant a slot makes gets a row.
LEMMA AddedN ==
  ASSUME OneAtATime, NInv, NEW r \in Reqs, req[r].pc \in Issuing,
         NEW g \in GrantIds, g = req[r].grant, Row(g)',
         \A h \in GrantIds \ {g} : Row(h)' <=> Row(h),
         req'[r].grant = IF req'[r].pc = "idle" THEN 0 ELSE g,
         req'[r].pc \in Issuing \cup {"idle"}
  PROVE  NInv'
<1>1. \A q \in Reqs : q = r
  BY DEF OneAtATime
<1>2. \A h \in GrantIds : h \in Nat
  BY DEF GrantIds
<1>3. ASSUME NEW h \in GrantIds
      PROVE  /\ Row(h)' => h <= g
             /\ h < g => Row(h)'
             /\ \A i \in GrantIds : Row(h)' /\ i < h => Row(i)'
  BY <1>2 DEF NInv
<1>4. "idle" \notin Issuing
  BY DEF Issuing, LoggingIn, Refreshing
<1> QED
  BY <1>1, <1>3, <1>4 DEF NInv, At

-----------------------------------------------------------------------------
(* The steps of a login.                                                    *)

LEMMA LoginQ ==
  ASSUME OneAtATime, TypeOK, IInv, Blank, QInv, NEW r \in Reqs, NEW u \in Users, Login(r, u)
  PROVE  QInv'
<1>1. PICK s \in SessionIds, g \in GrantIds :
        /\ ~IsSession(s) /\ g \notin UsedGrants
        /\ \A h \in GrantIds : h \notin UsedGrants => g <= h
        /\ \A i \in SessionIds \ {s} : sessions'[i] = sessions[i]
        /\ sessions'[s].user = u /\ ~sessions'[s].revoked
        /\ req[r].pc = "idle" /\ req'[r].pc = "sign"
        /\ req'[r].session = s /\ req'[r].grant = g
        /\ UNCHANGED <<now, tokens, access, delivered, blackSession, cutOff, ended>>
  BY LoginDid
<1>2. \A q \in Reqs : q = r
  BY DEF OneAtATime
<1>3. \A t \in GrantIds : IsToken(t) => tokens[t].session \in SessionIds \ {s}
  BY <1>1 DEF IInv, RowsOK, IsSession, IsToken
<1>4. NInv'
  BY <1>1, ReservedN DEF QInv, Issuing, LoggingIn
<1>5. DInv'
  BY <1>1, <1>2 DEF QInv, DInv, At, Rotating, LoggingIn, IsToken, IsAccess, IsSession, Of
<1>6. LiveInv'
  BY <1>1, <1>2 DEF QInv, LiveInv, At, Live, Last, Of, IsToken
<1>7. OpenInv'
  BY <1>1, <1>2 DEF QInv, OpenInv, At, Rotating, Issuing, LoggingIn, Refreshing
<1>8. KeyInv'
  <2>1. "revoke" \notin ended[s]
    BY <1>1 DEF QInv, KeyInv, Blank
  <2> QED
    BY <1>1, <2>1 DEF QInv, KeyInv, IsAccess
<1> QED
  BY <1>4, <1>5, <1>6, <1>7, <1>8 DEF QInv

LEMMA SignFirstQ ==
  ASSUME OneAtATime, TypeOK, IInv, QInv, NEW r \in Reqs, SignFirst(r)
  PROVE  QInv'
<1> DEFINE g == req[r].grant
           s == req[r].session
<1>1. /\ \A h \in GrantIds \ {g} : access'[h] = access[h]
      /\ access'[g].session = s /\ access'[g].user # NoUser
      /\ UNCHANGED <<sessions, tokens, blackSession, ended, delivered>>
      /\ req[r].pc = "sign" /\ req'[r].pc = "store"
      /\ req'[r].grant = g /\ req'[r].session = s
  BY SignDid
<1>2. /\ \A q \in Reqs : q = r
      /\ req[r].pc \in Issuing /\ req[r].pc \in LoggingIn
      /\ req'[r].pc \in Issuing /\ req'[r].pc \in LoggingIn
  BY <1>1 DEF OneAtATime, Issuing, LoggingIn
<1>3. g \in GrantIds /\ s \in SessionIds /\ ~sessions[s].revoked
  BY <1>1, <1>2, Making DEF QInv, OpenInv
<1>4. NInv'
  BY <1>1, <1>2, <1>3, AddedN DEF QInv, Row, IsToken, IsAccess
<1>5. DInv'
  BY <1>1, <1>2, <1>3 DEF QInv, DInv, At, Rotating, LoggingIn, IsToken, IsAccess, IsSession, Of
<1>6. LiveInv'
  BY <1>1, <1>2 DEF QInv, LiveInv, At, Live, Last, Of, IsToken
<1>7. OpenInv'
  BY <1>1, <1>2, <1>3 DEF QInv, OpenInv, At, Rotating
<1>8. KeyInv'
  BY <1>1, <1>3 DEF QInv, KeyInv, IsAccess
<1> QED
  BY <1>4, <1>5, <1>6, <1>7, <1>8 DEF QInv

LEMMA StoreFirstQ ==
  ASSUME OneAtATime, TypeOK, IInv, QInv, NEW r \in Reqs, StoreFirst(r)
  PROVE  QInv'
<1>0. PICK g : g = req[r].grant
  OBVIOUS
<1> DEFINE s == req[r].session
<1>1. /\ req[r].pc = "store" /\ req'[r].pc = "idle" /\ req'[r].grant = 0
      /\ \A h \in GrantIds \ {g} : tokens'[h] = tokens[h]
      /\ tokens'[g].user # NoUser /\ tokens'[g].session = s
      /\ ~tokens'[g].revoked
      /\ tokens'[g].expiresAt = sessions[s].expiresAt
      /\ delivered' = delivered \cup {g}
      /\ UNCHANGED <<now, sessions, access, blackSession, ended>>
  BY <1>0, StoreDid
<1>2. /\ \A q \in Reqs : q = r
      /\ req[r].pc \in Issuing /\ req[r].pc \in LoggingIn
      /\ req'[r].pc \notin Issuing /\ req'[r].pc \notin Rotating
  BY <1>1 DEF OneAtATime, Issuing, LoggingIn, Refreshing, Rotating
<1>3. /\ g \in GrantIds /\ s \in SessionIds /\ IsAccess(g) /\ ~IsToken(g)
      /\ \A t \in GrantIds : ~Of(t, s)
  BY <1>0, <1>1, <1>2, Making
<1>4. g \notin delivered /\ \A t \in delivered : tokens'[t] = tokens[t]
  BY <1>1, <1>3 DEF IInv, RowsOK, TypeOK
<1>5. NInv'
  <2>1. Row(g)' /\ \A h \in GrantIds \ {g} : Row(h)' <=> Row(h)
    BY <1>1 DEF Row, IsToken, IsAccess
  <2> QED
    BY <1>0, <1>1, <1>2, <1>3, <2>1, AddedN DEF QInv
<1>6. DInv'
  <2>1. \A h \in GrantIds : IsAccess(h)' => h \in delivered' /\ tokens'[h].session = access'[h].session
    BY <1>0, <1>1, <1>2, <1>3, <1>4 DEF QInv, DInv, At, IsAccess
  <2>2. \A h \in GrantIds : IsToken(h)' => h \in delivered'
    BY <1>1, <1>2 DEF QInv, DInv, Rotating, IsToken
  <2>3. \A i \in SessionIds : IsSession(i)' => \E t \in GrantIds : Of(t, i)'
    BY <1>1, <1>2, <1>3 DEF QInv, DInv, LoggingIn, IsToken, IsSession, Of
  <2> QED
    BY <2>1, <2>2, <2>3 DEF DInv
<1>7. LiveInv'
  <2>1. \A t \in GrantIds : Last(t)' /\ IsToken(t)' <=> t = g \/ (Last(t) /\ IsToken(t))
    BY <1>1, <1>3 DEF Last, Of, IsToken, GrantIds
  <2> QED
    BY <1>1, <1>2, <1>3, <2>1 DEF QInv, LiveInv, At, Live, IsToken
<1>8. OpenInv'
  BY <1>1, <1>2 DEF OpenInv, At, Rotating, Issuing, Refreshing
<1>9. KeyInv'
  BY <1>1 DEF QInv, KeyInv, IsAccess
<1> QED
  BY <1>5, <1>6, <1>7, <1>8, <1>9 DEF QInv

-----------------------------------------------------------------------------
(* The steps of a rotation.                                                 *)

LEMMA BeginRefreshQ ==
  ASSUME OneAtATime, TypeOK, IInv, QInv, NEW r \in Reqs, NEW t \in GrantIds,
         BeginRefresh(r, t)
  PROVE  QInv'
<1>1. /\ req[r].pc = "idle" /\ req'[r].pc = "check"
      /\ req'[r].token = t /\ ~tokens[t].revoked
      /\ req'[r].grant \in GrantIds \ UsedGrants
      /\ \A h \in GrantIds : h \notin UsedGrants => req'[r].grant <= h
      /\ UNCHANGED <<now, sessions, tokens, access, delivered, blackSession, ended>>
  BY BeginRefreshDid
<1>2. /\ \A q \in Reqs : q = r
      /\ req'[r].pc \in Issuing /\ req'[r].pc \notin LoggingIn \cup Rotating
      /\ req[r].pc \notin LoggingIn \cup Rotating
  BY <1>1 DEF OneAtATime, Issuing, LoggingIn, Refreshing, Rotating
<1>3. NInv'
  BY <1>1, <1>2, ReservedN DEF QInv
<1>4. DInv'
  BY <1>1, <1>2 DEF QInv, DInv, At, IsToken, IsAccess, IsSession, Of
<1>5. LiveInv'
  BY <1>1, <1>2 DEF QInv, LiveInv, At, Live, Last, Of, IsToken
<1>6. OpenInv'
  BY <1>1, <1>2 DEF OpenInv, At
<1>7. KeyInv'
  BY <1>1, <1>2 DEF QInv, KeyInv, At, IsAccess
<1> QED
  BY <1>3, <1>4, <1>5, <1>6, <1>7 DEF QInv

LEMMA InsertRotatedQ ==
  ASSUME OneAtATime, TypeOK, IInv, QInv, NEW r \in Reqs, InsertRotated(r)
  PROVE  QInv'
<1>0. PICK g, s, old : g = req[r].grant /\ s = req[r].session /\ old = req[r].token
  OBVIOUS
<1>1. /\ req[r].pc = "insert" /\ req'[r].pc = "retire"
      /\ req'[r].grant = g /\ req'[r].token = old /\ req'[r].session = s
      /\ \A h \in GrantIds \ {g} : tokens'[h] = tokens[h]
      /\ tokens'[g].user # NoUser /\ tokens'[g].session = s /\ ~tokens'[g].revoked
      /\ UNCHANGED <<now, sessions, access, delivered, blackSession, ended>>
  BY <1>0, InsertDid
<1>2. /\ \A q \in Reqs : q = r
      /\ req[r].pc \in Issuing /\ req[r].pc \in Refreshing
      /\ req'[r].pc \in Issuing /\ req'[r].pc \in Rotating
      /\ req[r].pc \notin LoggingIn \cup Rotating /\ req'[r].pc \notin LoggingIn
  BY <1>1 DEF OneAtATime, Issuing, LoggingIn, Refreshing, Rotating
<1>3. /\ g \in GrantIds /\ s \in SessionIds /\ ~IsToken(g)
      /\ old \in GrantIds /\ Of(old, s) /\ old # g
      /\ ~tokens[old].revoked /\ ~sessions[s].revoked
  BY <1>0, <1>1, <1>2, Making DEF QInv, OpenInv, Of
<1>4. \A h \in GrantIds : Row(h) => h <= g
  BY <1>0, <1>2 DEF QInv, NInv
<1>5. g \notin delivered /\ \A t \in delivered : t \in GrantIds /\ tokens'[t] = tokens[t]
  BY <1>1, <1>3 DEF IInv, RowsOK, TypeOK
<1>6. NInv'
  <2>1. Row(g)' /\ \A h \in GrantIds \ {g} : Row(h)' <=> Row(h)
    BY <1>1 DEF Row, IsToken, IsAccess
  <2> QED
    BY <1>0, <1>1, <1>2, <1>3, <2>1, AddedN DEF QInv
<1>7. DInv'
  <2>1. \A h \in GrantIds : IsAccess(h)' => h \in delivered' /\ tokens'[h].session = access'[h].session
    BY <1>1, <1>2, <1>5 DEF QInv, DInv, At, IsAccess
  <2>2. \A h \in GrantIds : IsToken(h)' => h = g \/ h \in delivered'
    BY <1>1, <1>2 DEF QInv, DInv, IsToken
  <2>3. \A i \in SessionIds : IsSession(i)' => \E t \in GrantIds : Of(t, i)'
    BY <1>1, <1>2, <1>3 DEF QInv, DInv, IsToken, IsSession, Of
  <2> QED
    BY <1>1, <1>2, <2>1, <2>2, <2>3 DEF DInv
<1>8. LiveInv'
  <2>1. \A t \in GrantIds \ {g} : Live(t) => Last(t)
    BY <1>1, <1>2 DEF QInv, LiveInv, At
  <2>2. \A t \in GrantIds \ {g} : Live(t) /\ tokens[t].session = s => t = old
    <3>1. Live(old) /\ Last(old) /\ tokens[old].session = s /\ IsToken(old)
      BY <1>3, <2>1 DEF Live, Of
    <3> QED
      BY <1>3, <2>1, <3>1 DEF Last, Of, Live, GrantIds
  <2>3. Last(g)'
    BY <1>1, <1>3, <1>4 DEF Last, Of, Row, IsToken, GrantIds
  <2>4. \A t \in GrantIds \ {g} : tokens[t].session # s => (Last(t)' <=> Last(t))
    BY <1>1, <1>3 DEF Last, Of, IsToken
  <2>5. \A t \in GrantIds \ {g} : Last(t)' => Last(t)
    BY <1>1, <1>3 DEF Last, Of, IsToken
  <2>6. \A t \in GrantIds : Live(t)' => Last(t)' \/ t = old
    BY <1>1, <2>1, <2>2, <2>3, <2>4 DEF Live, IsToken
  <2>7. \A t \in GrantIds : IsToken(t)' /\ tokens'[t].revoked /\ Last(t)' => ended'[tokens'[t].session] # {}
    BY <1>1, <1>2, <2>5 DEF QInv, LiveInv, At, IsToken
  <2> QED
    BY <1>1, <2>6, <2>7 DEF LiveInv, At
<1>9. OpenInv'
  <2>1. old < g
    BY <1>3, <1>4 DEF Of, Row, GrantIds
  <2> QED
    BY <1>1, <1>2, <1>3, <2>1 DEF OpenInv, At
<1>10. KeyInv'
  BY <1>1, <1>2, <1>5 DEF QInv, KeyInv, At, IsAccess
<1> QED
  BY <1>6, <1>7, <1>8, <1>9, <1>10 DEF QInv

LEMMA RetireOldQ ==
  ASSUME OneAtATime, TypeOK, IInv, FInv, QInv, NEW r \in Reqs, RetireOld(r)
  PROVE  QInv'
<1>0. PICK g, s, old : g = req[r].grant /\ s = req[r].session /\ old = req[r].token
  OBVIOUS
<1>1. /\ req[r].pc = "retire" /\ req'[r].pc = "touch"
      /\ req'[r].grant = g /\ req'[r].token = old /\ req'[r].session = s
      /\ \A h \in GrantIds \ {old} : tokens'[h] = tokens[h]
      /\ tokens'[old].user = tokens[old].user /\ tokens'[old].session = tokens[old].session
      /\ tokens'[old].revoked
      /\ UNCHANGED <<now, sessions, access, delivered, blackSession, ended>>
  BY <1>0, RetireDid
<1>2. /\ \A q \in Reqs : q = r
      /\ req[r].pc \in Issuing \ {"check"} /\ req[r].pc \in Refreshing /\ req[r].pc \in Rotating
      /\ req'[r].pc \in Issuing /\ req'[r].pc \in Rotating
      /\ req[r].pc \notin LoggingIn /\ req'[r].pc \notin LoggingIn
  BY <1>1 DEF OneAtATime, Issuing, LoggingIn, Refreshing, Rotating
<1>3. /\ g \in GrantIds /\ s \in SessionIds /\ Of(g, s)
      /\ old \in GrantIds /\ Of(old, s) /\ old < g
      /\ ~tokens[g].revoked /\ ~sessions[s].revoked
  BY <1>0, <1>1, <1>2, Making, RotatedOf DEF QInv, OpenInv
<1>4. old # g
  BY <1>3 DEF GrantIds
<1>5. \A t \in GrantIds : tokens'[t].user = tokens[t].user /\ tokens'[t].session = tokens[t].session
  BY <1>1
<1>6. NInv'
  BY <1>0, <1>1, <1>2, <1>5, KeptN DEF QInv
<1>7. DInv'
  <2>1. delivered \subseteq GrantIds
    BY DEF TypeOK
  <2> QED
    BY <1>0, <1>1, <1>2, <1>5, <2>1 DEF QInv, DInv, At, IsToken, IsAccess, IsSession, Of
<1>8. LiveInv'
  <2>1. \A t \in GrantIds : (Last(t)' <=> Last(t)) /\ (IsToken(t)' <=> IsToken(t))
    BY <1>5 DEF Last, Of, IsToken
  <2>2. ~Last(old)
    BY <1>3, <1>5 DEF Last, Of, GrantIds
  <2> QED
    BY <1>0, <1>1, <1>2, <2>1, <2>2 DEF QInv, LiveInv, At, Live
<1>9. OpenInv'
  BY <1>1, <1>2, <1>3, <1>4 DEF OpenInv, At
<1>10. KeyInv'
  BY <1>1, <1>2, <1>5 DEF QInv, KeyInv, At, IsAccess, TypeOK
<1> QED
  BY <1>6, <1>7, <1>8, <1>9, <1>10 DEF QInv

LEMMA TouchSessionQ ==
  ASSUME OneAtATime, TypeOK, IInv, FInv, QInv, NEW r \in Reqs, TouchSession(r)
  PROVE  QInv'
<1>0. PICK g, s : g = req[r].grant /\ s = req[r].session
  OBVIOUS
<1>1. /\ req[r].pc = "touch" /\ req'[r].pc = "reissue"
      /\ req'[r].grant = g /\ req'[r].token = req[r].token /\ req'[r].session = s
      /\ \A i \in SessionIds \ {s} : sessions'[i] = sessions[i]
      /\ sessions'[s].user = sessions[s].user
      /\ sessions'[s].revoked = sessions[s].revoked
      /\ sessions'[s].expiresAt = tokens[g].expiresAt
      /\ UNCHANGED <<now, tokens, access, delivered, blackSession, ended>>
  BY <1>0, TouchDid
<1>2. /\ \A q \in Reqs : q = r
      /\ req[r].pc \in Issuing \ {"check"} /\ req[r].pc \in Refreshing /\ req[r].pc \in Rotating
      /\ req'[r].pc \in Issuing /\ req'[r].pc \in Rotating
      /\ req[r].pc \notin LoggingIn /\ req'[r].pc \notin LoggingIn
  BY <1>1 DEF OneAtATime, Issuing, LoggingIn, Refreshing, Rotating
<1>3. /\ g \in GrantIds /\ s \in SessionIds /\ Of(g, s) /\ ~IsAccess(g)
      /\ ~tokens[g].revoked /\ req[r].token < g /\ ~sessions[s].revoked
  BY <1>0, <1>1, <1>2, Making, RotatedOf DEF QInv, OpenInv
<1>4. \A i \in SessionIds : sessions'[i].user = sessions[i].user
                            /\ sessions'[i].revoked = sessions[i].revoked
  BY <1>1
<1>5. NInv'
  BY <1>0, <1>1, <1>2, KeptN DEF QInv
<1>6. DInv'
  BY <1>0, <1>1, <1>2, <1>4 DEF QInv, DInv, At, IsToken, IsAccess, IsSession, Of
<1>7. LiveInv'
  BY <1>1, <1>2 DEF QInv, LiveInv, At, Live, Last, Of, IsToken
<1>8. OpenInv'
  BY <1>1, <1>2, <1>3, <1>4 DEF OpenInv, At
<1>9. KeyInv'
  BY <1>1, <1>4 DEF QInv, KeyInv, IsAccess
<1> QED
  BY <1>5, <1>6, <1>7, <1>8, <1>9 DEF QInv

LEMMA SignRotatedQ ==
  ASSUME OneAtATime, TypeOK, IInv, FInv, QInv, NEW r \in Reqs, SignRotated(r)
  PROVE  QInv'
<1>0. PICK g, s : g = req[r].grant /\ s = req[r].session
  OBVIOUS
<1>1. /\ req[r].pc = "reissue" /\ req'[r].pc = "idle" /\ req'[r].grant = 0
      /\ \A h \in GrantIds \ {g} : access'[h] = access[h]
      /\ access'[g].session = s /\ access'[g].user # NoUser
      /\ delivered' = delivered \cup {g}
      /\ UNCHANGED <<now, sessions, tokens, blackSession, ended>>
  BY <1>0, SignDid
<1>2. /\ \A q \in Reqs : q = r
      /\ req[r].pc \in Issuing \ {"check"} /\ req[r].pc \in Refreshing /\ req[r].pc \in Rotating
      /\ req'[r].pc \notin Issuing /\ req'[r].pc \notin Rotating
      /\ req[r].pc \notin LoggingIn
  BY <1>1 DEF OneAtATime, Issuing, LoggingIn, Refreshing, Rotating
<1>3. /\ g \in GrantIds /\ s \in SessionIds /\ Of(g, s)
      /\ ~tokens[g].revoked /\ ~sessions[s].revoked
  BY <1>0, <1>1, <1>2, Making, RotatedOf DEF QInv, OpenInv
<1>4. NInv'
  <2>1. Row(g)' /\ \A h \in GrantIds \ {g} : Row(h)' <=> Row(h)
    BY <1>1 DEF Row, IsToken, IsAccess
  <2> QED
    BY <1>0, <1>1, <1>2, <1>3, <2>1, AddedN DEF QInv
<1>5. DInv'
  <2>1. \A h \in GrantIds : IsAccess(h)' => h \in delivered' /\ tokens'[h].session = access'[h].session
    BY <1>1, <1>2, <1>3 DEF QInv, DInv, At, IsAccess, Of
  <2>2. \A h \in GrantIds : IsToken(h)' => h \in delivered'
    BY <1>0, <1>1, <1>2 DEF QInv, DInv, IsToken
  <2>3. \A i \in SessionIds : IsSession(i)' => \E t \in GrantIds : Of(t, i)'
    BY <1>1, <1>2 DEF QInv, DInv, IsToken, IsSession, Of
  <2> QED
    BY <2>1, <2>2, <2>3 DEF DInv
<1>6. LiveInv'
  BY <1>1, <1>2 DEF QInv, LiveInv, At, Live, Last, Of, IsToken
<1>7. OpenInv'
  BY <1>1, <1>2 DEF OpenInv, At, Issuing, Refreshing
<1>8. KeyInv'
  BY <1>1, <1>3 DEF QInv, KeyInv, IsAccess
<1> QED
  BY <1>4, <1>5, <1>6, <1>7, <1>8 DEF QInv

-----------------------------------------------------------------------------
(* The steps of all other requests.                                         *)

\* They make no grant and leave those that are made in their order.
LEMMA AsideQ ==
  ASSUME OneAtATime, TypeOK, IInv, QInv, NEW r \in Reqs, Kept,
         req[r].pc \notin LoggingIn \cup Rotating,
         req'[r].pc \notin LoggingIn \cup Rotating,
         req'[r].pc = "idle" => req'[r].grant = 0,
         req'[r].pc \in Issuing => req[r].pc \in Issuing /\ req'[r].grant = req[r].grant
  PROVE  /\ NInv' /\ DInv'
         /\ \A t \in GrantIds : /\ Live(t)' => Last(t)'
                                /\ Last(t)' <=> Last(t)
                                /\ IsToken(t)' <=> IsToken(t)
<1>1. /\ \A q \in Reqs : q = r
      /\ req[r].pc \notin {"store", "retire", "reissue"}
      /\ req'[r].pc \notin {"store", "retire", "reissue"}
  BY DEF OneAtATime, LoggingIn, Rotating
<1>2. /\ \A t \in GrantIds : /\ tokens'[t].user = tokens[t].user
                             /\ tokens'[t].session = tokens[t].session
                             /\ tokens'[t].expiresAt = tokens[t].expiresAt
                             /\ tokens[t].revoked => tokens'[t].revoked
      /\ \A s \in SessionIds : /\ sessions'[s].user = sessions[s].user
                               /\ sessions'[s].expiresAt = sessions[s].expiresAt
      /\ access' = access /\ delivered' = delivered
  BY DEF Kept
<1>3. NInv'
  BY <1>2, KeptN DEF QInv
<1>4. DInv'
  <2>1. \A h \in GrantIds : IsAccess(h)' => h \in delivered' /\ tokens'[h].session = access'[h].session
    BY <1>1, <1>2 DEF QInv, DInv, At, IsAccess
  <2>2. \A h \in GrantIds : IsToken(h)' => h \in delivered'
    BY <1>1, <1>2 DEF QInv, DInv, IsToken
  <2>3. \A i \in SessionIds : IsSession(i)' => \E t \in GrantIds : Of(t, i)'
    BY <1>1, <1>2 DEF QInv, DInv, IsToken, IsSession, Of
  <2> QED
    BY <2>1, <2>2, <2>3 DEF DInv
<1>5. \A t \in GrantIds : (Last(t)' <=> Last(t)) /\ (IsToken(t)' <=> IsToken(t))
  BY <1>2 DEF Last, Of, IsToken
<1>6. \A t \in GrantIds : Live(t)' => Last(t)
  BY <1>1, <1>2, <1>5 DEF QInv, LiveInv, At, Live
<1> QED
  BY <1>3, <1>4, <1>5, <1>6

\* No step but the last of a revocation writes a key of a session.
LEMMA KeptKeys ==
  ASSUME TypeOK, QInv, Kept, blackSession' = blackSession,
         \A i \in SessionIds : "revoke" \in ended'[i] => "revoke" \in ended[i]
  PROVE  KeyInv'
  BY DEF QInv, KeyInv, Kept, IsAccess

\* Requests that are looked at: nothing changes but the slot.
LEMMA LookedAtQ ==
  ASSUME OneAtATime, TypeOK, IInv, QInv, NEW r \in Reqs,
         \/ CheckSession(r)
         \/ \E t \in GrantIds : DetectReuse(r, t)
         \/ (\E g \in GrantIds : Verify(r, g)) \/ Validate(r) \/ Answer(r)
         \/ \/ \E s \in SessionIds : RevokeOne(r, s)
            \/ RevokeOthers(r)
            \/ \E u \in Users : RevokeAllOf(r, u)
  PROVE  QInv'
<1> DEFINE Same == UNCHANGED <<tokens, sessions, access, delivered, now, blackSession, ended>>
<1>1. ASSUME Same,
             req[r].pc \in {"check", "idle", "verify", "authed"},
             req'[r].pc \in {"idle", "insert", "family", "verify", "authed", "revoke"},
             req'[r].pc = "idle" => req'[r].grant = 0,
             req'[r].pc = "insert" => /\ req[r].pc = "check"
                                      /\ ~sessions[req[r].session].revoked
                                      /\ req'[r].grant = req[r].grant
                                      /\ req'[r].token = req[r].token
                                      /\ req'[r].session = req[r].session,
             req'[r].pc = "family" => Of(req'[r].token, req'[r].session),
             req'[r].pc = "revoke" => \A s \in req'[r].todo : ~sessions[s].revoked
      PROVE  QInv'
  <2>1. /\ req[r].pc \notin LoggingIn \cup Rotating
        /\ req'[r].pc \notin LoggingIn \cup Rotating
        /\ req'[r].pc \in Issuing => req'[r].pc = "insert"
        /\ req[r].pc = "check" => req[r].pc \in Issuing
        /\ req[r].pc \notin {"reuse", "cutoff"}
    BY <1>1 DEF LoggingIn, Rotating, Issuing, Refreshing
  <2>2. Kept
    BY <1>1, SameKept
  <2>3. /\ NInv' /\ DInv'
        /\ \A t \in GrantIds : /\ Live(t)' => Last(t)'
                               /\ Last(t)' <=> Last(t)
                               /\ IsToken(t)' <=> IsToken(t)
    BY <1>1, <2>1, <2>2, AsideQ
  <2>4. \A q \in Reqs : q = r
    BY DEF OneAtATime
  <2>5. LiveInv'
    BY <1>1, <2>1, <2>3, <2>4 DEF QInv, LiveInv, At
  <2>6. OpenInv'
    BY <1>1, <2>1, <2>4 DEF QInv, OpenInv, At, Of, IsToken
  <2>7. KeyInv'
    BY <1>1, <2>2, KeptKeys
  <2> QED
    BY <2>3, <2>5, <2>6, <2>7 DEF QInv
<1>2. CASE CheckSession(r)
  BY <1>1, <1>2, CheckDid
<1>3. ASSUME NEW t \in GrantIds, DetectReuse(r, t) PROVE QInv'
  BY <1>1, <1>3, DetectDid DEF Of
<1>4. CASE (\E g \in GrantIds : Verify(r, g)) \/ Validate(r) \/ Answer(r)
  BY <1>1, <1>4, AdmitDid
<1>5. CASE \/ \E s \in SessionIds : RevokeOne(r, s)
           \/ RevokeOthers(r)
           \/ \E u \in Users : RevokeAllOf(r, u)
  BY <1>1, <1>5, ChooseDid
<1> QED
  BY <1>2, <1>3, <1>4, <1>5

\* The families of a reused token and of a cookie.
LEMMA FamilyQ ==
  ASSUME OneAtATime, TypeOK, IInv, FInv, QInv, NEW r \in Reqs,
         RevokeReusedFamily(r) \/ \E t \in GrantIds : LogoutFamily(r, t)
  PROVE  QInv'
<1>1. ASSUME NEW s \in SessionIds, Kept, UNCHANGED <<sessions, blackSession>>,
             req[r].pc \in {"family", "authed"},
             req'[r].pc \in {"reuse", "logout"},
             \A t \in GrantIds : tokens'[t].revoked => tokens[t].revoked \/ Of(t, s),
             ended'[s] # {} \/ (req'[r].pc = "reuse" /\ req'[r].session = s),
             \A i \in SessionIds : /\ ended[i] \subseteq ended'[i]
                                   /\ "revoke" \in ended'[i] => "revoke" \in ended[i]
      PROVE  QInv'
  <2>1. /\ req[r].pc \notin LoggingIn \cup Rotating
        /\ req'[r].pc \notin LoggingIn \cup Rotating
        /\ req'[r].pc \notin Issuing /\ req'[r].pc # "idle"
        /\ req[r].pc \notin {"reuse", "cutoff"}
    BY <1>1 DEF LoggingIn, Rotating, Issuing, Refreshing
  <2>2. /\ NInv' /\ DInv'
        /\ \A t \in GrantIds : /\ Live(t)' => Last(t)'
                               /\ Last(t)' <=> Last(t)
                               /\ IsToken(t)' <=> IsToken(t)
    BY <1>1, <2>1, AsideQ
  <2>3. \A q \in Reqs : q = r
    BY DEF OneAtATime
  <2>4. LiveInv'
    <3>1. \A t \in GrantIds : IsToken(t) => tokens[t].session \in SessionIds
                                            /\ tokens'[t].session = tokens[t].session
      BY <1>1 DEF IInv, RowsOK, Kept
    <3>2. ASSUME NEW t \in GrantIds, IsToken(t), tokens[t].revoked, Last(t)
          PROVE  ended'[tokens'[t].session] # {}
      <4>1. ended[tokens[t].session] # {}
        BY <2>1, <2>3, <3>2 DEF QInv, LiveInv, At
      <4> QED
        BY <1>1, <3>1, <3>2, <4>1
    <3>3. ASSUME NEW t \in GrantIds, IsToken(t), Of(t, s)
          PROVE  tokens'[t].session = s
      BY <3>1, <3>3 DEF Of
    <3>4. ASSUME NEW t \in GrantIds, IsToken(t)', tokens'[t].revoked, Last(t)'
          PROVE  \/ ended'[tokens'[t].session] # {}
                 \/ req'[r].pc = "reuse" /\ req'[r].session = tokens'[t].session
      BY <1>1, <2>2, <3>2, <3>3, <3>4
    <3> QED
      BY <2>2, <3>4 DEF LiveInv, At
  <2>5. OpenInv'
    BY <1>1, <2>1, <2>3 DEF OpenInv, At
  <2>6. KeyInv'
    BY <1>1, KeptKeys
  <2> QED
    BY <2>2, <2>4, <2>5, <2>6 DEF QInv
<1>2. CASE RevokeReusedFamily(r)
  <2>1. OpenInv
    BY DEF QInv
  <2> QED
    BY <1>1, <1>2, <2>1, ReusedFamilyDid
<1>3. ASSUME NEW t \in GrantIds, LogoutFamily(r, t) PROVE QInv'
  <2>1. LET s == tokens[t].session IN
         /\ Kept /\ req[r].pc = "authed" /\ req'[r].pc = "logout"
         /\ \A u \in GrantIds : tokens'[u].revoked => tokens[u].revoked \/ Of(u, s)
         /\ s \in SessionIds
         /\ \A i \in SessionIds : ended[i] \subseteq ended'[i]
                                  /\ ("revoke" \in ended'[i] => "revoke" \in ended[i])
         /\ ended'[s] # {}
         /\ UNCHANGED <<sessions, blackSession>>
    BY <1>3, LogoutFamilyDid
  <2> QED
    BY <1>1, <2>1
<1> QED
  BY <1>2, <1>3

LEMMA CloseQ ==
  ASSUME OneAtATime, TypeOK, IInv, QInv, NEW r \in Reqs,
         RevokeReusedSession(r) \/ LogoutSession(r) \/ LogoutBlacklist(r)
  PROVE  QInv'
<1>1. PICK s : s = req[r].session
  OBVIOUS
<1>2. /\ Kept /\ req[r].pc \in {"reuse", "authed", "logout", "blacklist"}
      /\ req'[r].pc \in {"idle", "blacklist"} /\ (req'[r].pc = "idle" => req'[r].grant = 0)
      /\ \A i \in SessionIds : /\ ended[i] \subseteq ended'[i]
                               /\ "revoke" \in ended'[i] => "revoke" \in ended[i]
      /\ req[r].pc = "reuse" => s \in SessionIds /\ ended'[s] # {}
      /\ UNCHANGED <<tokens, blackSession>>
  <2>1. CASE RevokeReusedSession(r) \/ LogoutSession(r)
    BY <1>1, <2>1, CloseDid
  <2>2. CASE LogoutBlacklist(r)
    BY <2>2, LogoutBlacklistDid, SameKept
  <2> QED
    BY <2>1, <2>2
<1>3. /\ req[r].pc \notin LoggingIn \cup Rotating
      /\ req'[r].pc \notin LoggingIn \cup Rotating
      /\ req'[r].pc \notin Issuing
  BY <1>2 DEF LoggingIn, Rotating, Issuing, Refreshing
<1>4. /\ NInv' /\ DInv'
      /\ \A t \in GrantIds : /\ Live(t)' => Last(t)'
                             /\ Last(t)' <=> Last(t)
                             /\ IsToken(t)' <=> IsToken(t)
  BY <1>2, <1>3, AsideQ
<1>5. \A q \in Reqs : q = r
  BY DEF OneAtATime
<1>6. LiveInv'
  <2>1. ASSUME NEW t \in GrantIds, IsToken(t), tokens[t].revoked, Last(t)
        PROVE  ended'[tokens[t].session] # {}
    <3>1. tokens[t].session \in SessionIds
      BY <2>1 DEF IInv, RowsOK
    <3>2. ended[tokens[t].session] # {} \/ (req[r].pc = "reuse" /\ s = tokens[t].session)
      BY <1>1, <1>2, <1>5, <2>1 DEF QInv, LiveInv, At
    <3> QED
      BY <1>2, <3>1, <3>2
  <2> QED
    BY <1>2, <1>4, <2>1 DEF LiveInv
<1>7. OpenInv'
  BY <1>2, <1>3, <1>5 DEF OpenInv, At
<1>8. KeyInv'
  BY <1>2, KeptKeys
<1> QED
  BY <1>4, <1>6, <1>7, <1>8 DEF QInv

LEMMA RevokeTxQ ==
  ASSUME OneAtATime, TypeOK, IInv, QInv, NEW r \in Reqs, RevokeTx(r)
  PROVE  QInv'
<1>1. PICK S : S = req[r].todo
  OBVIOUS
<1>2. /\ Kept /\ req[r].pc = "revoke" /\ req'[r].pc = "cutoff"
      /\ req'[r].todo = S /\ S \subseteq SessionIds
      /\ \A s \in S : sessions'[s].revoked
      /\ \A t \in GrantIds : tokens'[t].revoked =>
           tokens[t].revoked \/ (IsToken(t) /\ tokens[t].session \in S)
      /\ UNCHANGED <<blackSession, ended>>
  BY <1>1, RevokeTxDid
<1>3. /\ req[r].pc \notin LoggingIn \cup Rotating
      /\ req'[r].pc \notin LoggingIn \cup Rotating
      /\ req'[r].pc \notin Issuing
  BY <1>2 DEF LoggingIn, Rotating, Issuing, Refreshing
<1>4. /\ NInv' /\ DInv'
      /\ \A t \in GrantIds : /\ Live(t)' => Last(t)'
                             /\ Last(t)' <=> Last(t)
                             /\ IsToken(t)' <=> IsToken(t)
  BY <1>2, <1>3, AsideQ
<1>5. \A q \in Reqs : q = r
  BY DEF OneAtATime
<1>6. LiveInv'
  <2>1. \A t \in GrantIds : tokens'[t].session = tokens[t].session
    BY <1>2 DEF Kept
  <2>2. ASSUME NEW t \in GrantIds, IsToken(t), tokens'[t].revoked, Last(t)
        PROVE  ended'[tokens[t].session] # {} \/ tokens[t].session \in S
    BY <1>2, <1>5, <2>2 DEF QInv, LiveInv, At
  <2> QED
    BY <1>2, <1>4, <2>1, <2>2 DEF LiveInv, At
<1>7. OpenInv'
  BY <1>2, <1>3, <1>5 DEF OpenInv, At
<1>8. KeyInv'
  BY <1>2, KeptKeys
<1> QED
  BY <1>4, <1>6, <1>7, <1>8 DEF QInv

LEMMA BlacklistQ ==
  ASSUME OneAtATime, TypeOK, IInv, QInv, NEW r \in Reqs, NEW s \in SessionIds,
         BlacklistSession(r, s)
  PROVE  QInv'
<1>1. /\ req[r].pc = "cutoff" /\ s \in req[r].todo
      /\ \/ req'[r].pc = "idle" /\ req'[r].grant = 0 /\ req[r].todo \subseteq {s}
         \/ req'[r].pc = "cutoff" /\ req'[r].todo = req[r].todo \ {s}
      /\ blackSession'[s] = now + AccessTtl
      /\ \A i \in SessionIds \ {s} : blackSession'[i] = blackSession[i] /\ ended'[i] = ended[i]
      /\ ended'[s] # {} /\ ended[s] \subseteq ended'[s]
      /\ UNCHANGED <<tokens, sessions, access, delivered, now>>
  BY BlacklistDid
<1>2. /\ req[r].pc \notin LoggingIn \cup Rotating
      /\ req'[r].pc \notin LoggingIn \cup Rotating
      /\ req'[r].pc \notin Issuing
  BY <1>1 DEF LoggingIn, Rotating, Issuing, Refreshing
<1>3. Kept
  BY <1>1, SameKept
<1>4. /\ NInv' /\ DInv'
      /\ \A t \in GrantIds : /\ Live(t)' => Last(t)'
                             /\ Last(t)' <=> Last(t)
                             /\ IsToken(t)' <=> IsToken(t)
  BY <1>1, <1>2, <1>3, AsideQ
<1>5. \A q \in Reqs : q = r
  BY DEF OneAtATime
<1>6. LiveInv'
  <2>1. ASSUME NEW t \in GrantIds, IsToken(t), tokens[t].revoked, Last(t)
        PROVE  \/ ended'[tokens[t].session] # {}
               \/ req'[r].pc = "cutoff" /\ tokens[t].session \in req'[r].todo
    <3>1. tokens[t].session \in SessionIds
      BY <2>1 DEF IInv, RowsOK
    <3>2. ended[tokens[t].session] # {} \/ tokens[t].session \in req[r].todo
      BY <1>1, <1>5, <2>1 DEF QInv, LiveInv, At
    <3> QED
      BY <1>1, <3>1, <3>2
  <2> QED
    BY <1>1, <1>4, <2>1 DEF LiveInv, At
<1>7. OpenInv'
  BY <1>1, <1>2, <1>5 DEF QInv, OpenInv, At
<1>8. KeyInv'
  <2>1. sessions[s].revoked
    BY <1>1 DEF QInv, OpenInv, At
  <2>2. \A g \in GrantIds : access[g].exp <= now + AccessTtl
    BY DEF TypeOK
  <2> QED
    BY <1>1, <2>1, <2>2 DEF QInv, KeyInv, IsAccess
<1> QED
  BY <1>4, <1>6, <1>7, <1>8 DEF QInv

-----------------------------------------------------------------------------
LEMMA InitQ == ASSUME Init PROVE QInv
<1>1. /\ \A g \in GrantIds : ~IsToken(g) /\ ~IsAccess(g) /\ ~tokens[g].revoked
      /\ \A s \in SessionIds : ~IsSession(s) /\ ended[s] = {}
      /\ \A r \in Reqs : req[r].pc = "idle" /\ req[r].grant = 0
      /\ delivered = {}
  BY DEF Init, NoToken, NoAccess, NoSession, Idle, IsToken, IsAccess, IsSession
<1> QED
  BY <1>1 DEF QInv, NInv, DInv, LiveInv, OpenInv, KeyInv, Row, Live, At, Rotating,
              Issuing, LoggingIn, Refreshing

LEMMA QStep ==
  ASSUME OneAtATime, MaxFaults = 0, TypeOK, IInv, FInv, Blank, QInv, [Next]_vars
  PROVE  QInv'
<1>1. ~(faults < MaxFaults)
  BY DEF TypeOK
<1>2. CASE Tick \/ UNCHANGED vars
  <2>1. UNCHANGED <<sessions, tokens, access, delivered, blackSession, ended, req>>
    BY <1>2 DEF Tick, vars, db, redis, history
  <2> QED
    BY <2>1 DEF QInv, NInv, DInv, LiveInv, OpenInv, KeyInv, Row, Live, Last, Of, At,
                IsToken, IsAccess, IsSession
<1>3. ASSUME NEW r \in Reqs, Step(r) PROVE QInv'
  BY <1>3, SignFirstQ, StoreFirstQ, InsertRotatedQ, RetireOldQ, TouchSessionQ, SignRotatedQ,
     LookedAtQ, FamilyQ, CloseQ, RevokeTxQ, BlacklistQ DEF Step
<1>4. ASSUME NEW r \in Reqs, Call(r) PROVE QInv'
  BY <1>4, LoginQ, BeginRefreshQ, LookedAtQ, FamilyQ DEF Call
<1> QED
  BY <1>1, <1>2, <1>3, <1>4 DEF Next, Abort, RedisRestart, Quiet

-----------------------------------------------------------------------------
(* The invariants of requests that come one at a time.                      *)

LEMMA Inductive ==
  ASSUME OneAtATime, MaxFaults = 0
  PROVE  Spec => [](TypeOK /\ IInv /\ FInv /\ Blank /\ QInv)
<1>1. Init => TypeOK /\ IInv /\ FInv /\ Blank /\ QInv
  BY InitTypeOK, InitIInv, InitFInv, InitQ DEF Init, Blank, NoSession, NoToken
<1>2. TypeOK /\ IInv /\ FInv /\ Blank /\ QInv /\ [Next]_vars =>
        (TypeOK /\ IInv /\ FInv /\ Blank /\ QInv)'
  BY TypeStep, IInvStep, FInvStep, RevocationStep, QStep
<1> QED
  BY <1>1, <1>2, PTL DEF Spec

\* At rest a session that nobody ended has one live refresh token, the last one handed
\* out: a client that presents its newest token is never taken for a thief.
THEOREM NewestTokenWorks ==
  ASSUME OneAtATime, MaxFaults = 0
  PROVE  Spec => []SoleLiveToken
<1>1. ASSUME TypeOK, IInv, QInv PROVE SoleLiveToken
  <2> SUFFICES ASSUME AtRest, NEW s \in UsedSessions
               PROVE  IF ended[s] = {} THEN LiveTokens(s) = NewestDelivered(s)
                                       ELSE LiveTokens(s) \subseteq NewestDelivered(s)
    BY DEF SoleLiveToken
  <2>1. \A r \in Reqs : req[r].pc = "idle"
    BY DEF AtRest, At
  <2>2. \A t \in GrantIds : IsToken(t) => t \in delivered
    BY <1>1, <2>1 DEF QInv, DInv, Rotating
  <2>3. \A t \in GrantIds : t \in NewestDelivered(s) <=> Of(t, s) /\ Last(t)
    BY <2>2 DEF NewestDelivered, TokensOf, Of, Last
  <2>4. \A t \in GrantIds : t \in LiveTokens(s) <=> Of(t, s) /\ ~tokens[t].revoked
    BY DEF LiveTokens, TokensOf, Of
  <2>5. \A t \in GrantIds : Of(t, s) /\ ~tokens[t].revoked => Last(t)
    BY <1>1, <2>1 DEF QInv, LiveInv, At, Live, Of
  <2>6. \A t \in GrantIds : Of(t, s) /\ Last(t) /\ ended[s] = {} => ~tokens[t].revoked
    BY <1>1, <2>1 DEF QInv, LiveInv, At, Of
  <2>7. LiveTokens(s) \subseteq GrantIds /\ NewestDelivered(s) \subseteq GrantIds
    BY DEF LiveTokens, NewestDelivered, TokensOf
  <2>8. LiveTokens(s) \subseteq NewestDelivered(s)
    BY <2>3, <2>4, <2>5, <2>7
  <2>9. ended[s] = {} => NewestDelivered(s) \subseteq LiveTokens(s)
    BY <2>3, <2>4, <2>6, <2>7
  <2> QED
    BY <2>8, <2>9
<1> QED
  BY <1>1, Inductive, PTL

\* Once DELETE /sessions or a password reset has been answered for a session, no access
\* token of it, old or new, is accepted.
THEOREM RevokedIsDead ==
  ASSUME OneAtATime, MaxFaults = 0
  PROVE  Spec => []RevokeKillsSession
<1>1. ASSUME TypeOK, IInv, QInv PROVE RevokeKillsSession
  <2> SUFFICES ASSUME NEW g \in delivered, Accepts(g), "revoke" \in ended[access[g].session]
               PROVE  FALSE
    BY DEF RevokeKillsSession
  <2>1. g \in GrantIds /\ IsAccess(g) /\ access[g].session \in SessionIds
    BY <1>1 DEF IInv, RowsOK, TypeOK
  <2>2. access[g].exp <= blackSession[access[g].session]
    BY <1>1, <2>1 DEF QInv, KeyInv
  <2>3. now < access[g].exp /\ ~(now < blackSession[access[g].session])
    BY DEF Accepts, Unexpired, Blacklisted
  <2>4. access[g].exp \in Nat /\ now \in Nat /\ blackSession[access[g].session] \in Nat
    BY <1>1, <2>1, BoundsAssumption DEF TypeOK, AccessRow
  <2> QED
    BY <2>2, <2>3, <2>4
<1> QED
  BY <1>1, Inductive, PTL

-----------------------------------------------------------------------------
(* What holds of requests one at a time even when some are cut short.       *)

\* No token that was handed out outlasts its session, nor the one that is about to
\* replace it, to whose expiry the session is going to be set.
ExpInv ==
    /\ \A t \in delivered : tokens[t].expiresAt <= sessions[tokens[t].session].expiresAt
    /\ \A r \in Reqs : req[r].pc \in Rotating =>
         \A t \in delivered : tokens[t].expiresAt <= tokens[req[r].grant].expiresAt
    /\ \A r \in Reqs : At(r, "reissue") =>
         tokens[req[r].grant].expiresAt <= sessions[req[r].session].expiresAt

\* Steps that hand out nothing and change no expiry that counts.
LEMMA SameExp ==
  ASSUME OneAtATime, TypeOK, IInv, ExpInv, NEW r \in Reqs,
         \A t \in GrantIds : /\ tokens'[t].expiresAt = tokens[t].expiresAt
                             /\ tokens'[t].session = tokens[t].session,
         \A t \in delivered : sessions'[tokens[t].session].expiresAt =
                                sessions[tokens[t].session].expiresAt,
         delivered' = delivered,
         req'[r].pc # "reissue",
         req'[r].pc \in Rotating => req[r].pc \in Rotating /\ req'[r].grant = req[r].grant
  PROVE  ExpInv'
<1>1. \A q \in Reqs : q = r
  BY DEF OneAtATime
<1>2. \A t \in delivered : t \in GrantIds
  BY DEF TypeOK
<1>3. req'[r].pc \in Rotating => req[r].grant \in GrantIds
  BY Making DEF Rotating, Issuing, Refreshing
<1> QED
  BY <1>1, <1>2, <1>3 DEF ExpInv, At

\* The steps that write an expiry, or hand out a token.
LEMMA StoreExp ==
  ASSUME OneAtATime, TypeOK, IInv, ExpInv, NEW r \in Reqs, StoreFirst(r)
  PROVE  ExpInv'
<1>0. PICK g, s : g = req[r].grant /\ s = req[r].session
  OBVIOUS
<1>1. /\ req[r].pc = "store" /\ req'[r].pc = "idle"
      /\ \A h \in GrantIds \ {g} : tokens'[h] = tokens[h]
      /\ tokens'[g].session = s /\ tokens'[g].expiresAt = sessions[s].expiresAt
      /\ delivered' = delivered \cup {g}
      /\ UNCHANGED sessions
  BY <1>0, StoreDid
<1>2. /\ \A q \in Reqs : q = r
      /\ req[r].pc \in Issuing /\ req[r].pc \in LoggingIn /\ req'[r].pc \notin Rotating
  BY <1>1 DEF OneAtATime, Issuing, LoggingIn, Rotating
<1>3. g \in GrantIds /\ s \in SessionIds /\ ~IsToken(g)
  BY <1>0, <1>2, Making
<1>4. \A t \in delivered : t \in GrantIds \ {g}
  BY <1>3 DEF IInv, RowsOK, TypeOK
<1>5. sessions[s].expiresAt \in Nat
  BY <1>3 DEF TypeOK, SessionRow
<1> QED
  BY <1>1, <1>2, <1>4, <1>5 DEF ExpInv, At

LEMMA InsertExp ==
  ASSUME OneAtATime, TypeOK, IInv, ExpInv, NEW r \in Reqs, InsertRotated(r)
  PROVE  ExpInv'
<1>0. PICK g : g = req[r].grant
  OBVIOUS
<1>1. /\ req[r].pc = "insert" /\ req'[r].pc = "retire" /\ req'[r].grant = g
      /\ \A h \in GrantIds \ {g} : tokens'[h] = tokens[h]
      /\ tokens'[g].expiresAt = now + RefreshTtl
      /\ UNCHANGED <<sessions, delivered>>
  BY <1>0, InsertDid
<1>2. /\ \A q \in Reqs : q = r
      /\ req[r].pc \in Issuing
  BY <1>1 DEF OneAtATime, Issuing, Refreshing
<1>3. g \in GrantIds /\ ~IsToken(g)
  BY <1>0, <1>1, <1>2, Making
<1>4. \A t \in delivered : t \in GrantIds \ {g}
  BY <1>3 DEF IInv, RowsOK, TypeOK
<1>5. \A t \in delivered : tokens[t].expiresAt <= now + RefreshTtl
  BY <1>4 DEF TypeOK
<1> QED
  BY <1>1, <1>2, <1>4, <1>5 DEF ExpInv, At

LEMMA TouchExp ==
  ASSUME OneAtATime, TypeOK, IInv, ExpInv, NEW r \in Reqs, TouchSession(r)
  PROVE  ExpInv'
<1>0. PICK g, s : g = req[r].grant /\ s = req[r].session
  OBVIOUS
<1>1. /\ req[r].pc = "touch" /\ req'[r].pc = "reissue"
      /\ req'[r].grant = g /\ req'[r].session = s
      /\ \A i \in SessionIds \ {s} : sessions'[i] = sessions[i]
      /\ sessions'[s].expiresAt = tokens[g].expiresAt
      /\ UNCHANGED <<tokens, delivered>>
  BY <1>0, TouchDid
<1>2. /\ \A q \in Reqs : q = r
      /\ req[r].pc \in Issuing /\ req[r].pc \in Rotating
  BY <1>1 DEF OneAtATime, Issuing, Refreshing, Rotating
<1>3. g \in GrantIds
  BY <1>0, <1>2, Making
<1>4. tokens[g].expiresAt \in Nat
  BY <1>3 DEF TypeOK, TokenRow
<1>5. \A t \in delivered : tokens[t].session \in SessionIds /\ tokens[t].expiresAt <= tokens[g].expiresAt
  BY <1>0, <1>2 DEF ExpInv, IInv, RowsOK, TypeOK
<1> QED
  BY <1>1, <1>2, <1>4, <1>5 DEF ExpInv, At

LEMMA SignExp ==
  ASSUME OneAtATime, TypeOK, IInv, FInv, ExpInv, NEW r \in Reqs, SignRotated(r)
  PROVE  ExpInv'
<1>0. PICK g, s : g = req[r].grant /\ s = req[r].session
  OBVIOUS
<1>1. /\ req[r].pc = "reissue" /\ req'[r].pc = "idle"
      /\ delivered' = delivered \cup {g}
      /\ UNCHANGED <<sessions, tokens>>
  BY <1>0, SignDid DEF SignRotated, At
<1>2. /\ \A q \in Reqs : q = r
      /\ req[r].pc \in Rotating /\ req'[r].pc \notin Rotating
  BY <1>1 DEF OneAtATime, Rotating
<1>3. tokens[g].session = s /\ tokens[g].expiresAt <= sessions[s].expiresAt
  BY <1>0, <1>1, <1>2, RotatedOf DEF Of, ExpInv, At
<1> QED
  BY <1>1, <1>2, <1>3 DEF ExpInv, At

LEMMA ExpStep ==
  ASSUME OneAtATime, TypeOK, IInv, FInv, Blank, ExpInv, [Next]_vars
  PROVE  ExpInv'
<1>1. \A t \in delivered : tokens[t].session \in SessionIds
  BY DEF IInv, RowsOK, TypeOK
<1>2. CASE Tick \/ RedisRestart \/ UNCHANGED vars
  <2>1. UNCHANGED <<sessions, tokens, delivered, req>>
    BY <1>2 DEF Tick, RedisRestart, vars, db
  <2> QED
    BY <2>1 DEF ExpInv, At
<1>3. ASSUME NEW r \in Reqs, Kept, req'[r].pc \notin Rotating PROVE ExpInv'
  <2>1. req'[r].pc # "reissue"
    BY <1>3 DEF Rotating
  <2> QED
    BY <1>1, <1>3, <2>1, SameExp DEF Kept
<1>4. ASSUME NEW r \in Reqs, Abort(r) PROVE ExpInv'
  <2>1. UNCHANGED <<tokens, sessions, access, delivered, now>> /\ req'[r].pc = "idle"
    BY <1>4, DoneEffect DEF Abort, db
  <2> QED
    BY <1>3, <2>1, SameKept DEF Rotating
<1>5. ASSUME NEW r \in Reqs,
             \/ CheckSession(r)
             \/ \E t \in GrantIds : DetectReuse(r, t)
             \/ (\E g \in GrantIds : Verify(r, g)) \/ Validate(r) \/ Answer(r)
             \/ \/ \E s \in SessionIds : RevokeOne(r, s)
                \/ RevokeOthers(r)
                \/ \E u \in Users : RevokeAllOf(r, u)
             \/ LogoutBlacklist(r)
             \/ \E t \in GrantIds : BeginRefresh(r, t)
             \/ \E s \in SessionIds : BlacklistSession(r, s)
      PROVE  ExpInv'
  <2>1. ASSUME UNCHANGED <<tokens, sessions, access, delivered, now>>, req'[r].pc \notin Rotating
        PROVE  ExpInv'
    BY <1>3, <2>1, SameKept
  <2>2. CASE CheckSession(r) \/ \E t \in GrantIds : DetectReuse(r, t)
    BY <2>1, <2>2, CheckDid, DetectDid DEF Rotating
  <2>3. CASE (\E g \in GrantIds : Verify(r, g)) \/ Validate(r) \/ Answer(r)
    BY <2>1, <2>3, AdmitDid DEF Rotating
  <2>4. CASE \/ \E s \in SessionIds : RevokeOne(r, s)
             \/ RevokeOthers(r)
             \/ \E u \in Users : RevokeAllOf(r, u)
    BY <2>1, <2>4, ChooseDid DEF Rotating
  <2>5. CASE LogoutBlacklist(r) \/ \E t \in GrantIds : BeginRefresh(r, t)
    BY <2>1, <2>5, LogoutBlacklistDid, BeginRefreshDid DEF Rotating
  <2>6. CASE \E s \in SessionIds : BlacklistSession(r, s)
    BY <2>1, <2>6, BlacklistDid DEF Rotating
  <2> QED
    BY <1>5, <2>2, <2>3, <2>4, <2>5, <2>6
<1>6. ASSUME NEW r \in Reqs,
             \/ \E t \in GrantIds : LogoutFamily(r, t)
             \/ RevokeReusedFamily(r)
             \/ RevokeReusedSession(r) \/ LogoutSession(r)
             \/ RevokeTx(r)
      PROVE  ExpInv'
  <2>1. CASE RevokeReusedSession(r) \/ LogoutSession(r)
    BY <1>3, <2>1, CloseDid DEF Rotating
  <2>2. CASE RevokeTx(r)
    BY <1>3, <2>2, RevokeTxDid DEF Rotating
  <2>3. CASE \E t \in GrantIds : LogoutFamily(r, t)
    BY <1>3, <2>3, LogoutFamilyDid DEF Rotating
  <2>4. CASE RevokeReusedFamily(r)
    <3>1. req'[r].pc = "reuse" /\ UNCHANGED <<sessions, delivered>>
          /\ RevokeTokens(FamilyOf(req[r].token))
      BY <2>4, GotoEffect DEF RevokeReusedFamily, AfterReusedFamily
    <3>2. \A t \in GrantIds : /\ tokens'[t].expiresAt = tokens[t].expiresAt
                              /\ tokens'[t].session = tokens[t].session
      BY <3>1, RevokeTokensDid
    <3> QED
      BY <3>1, <3>2, SameExp DEF Rotating
  <2> QED
    BY <1>6, <2>1, <2>2, <2>3, <2>4
<1>7. ASSUME NEW r \in Reqs, NEW u \in Users, Login(r, u) PROVE ExpInv'
  <2>1. PICK s \in SessionIds :
          /\ ~IsSession(s)
          /\ \A i \in SessionIds \ {s} : sessions'[i] = sessions[i]
          /\ req'[r].pc = "sign" /\ UNCHANGED <<tokens, delivered>>
    BY <1>7, LoginDid
  <2>2. \A t \in delivered : tokens[t].session # s
    BY <2>1 DEF IInv, RowsOK, TypeOK, IsSession, IsToken
  <2>3. \A t \in delivered : sessions'[tokens[t].session].expiresAt =
                                sessions[tokens[t].session].expiresAt
    BY <1>1, <2>1, <2>2
  <2>4. req'[r].pc # "reissue" /\ req'[r].pc \notin Rotating
    BY <2>1 DEF Rotating
  <2> QED
    BY <2>1, <2>3, <2>4, SameExp
<1>8. ASSUME NEW r \in Reqs, SignFirst(r) \/ RetireOld(r) PROVE ExpInv'
  <2>1. CASE SignFirst(r)
    <3>1. req'[r].pc = "store" /\ UNCHANGED <<tokens, sessions, delivered>>
      BY <2>1, GotoEffect DEF SignFirst, db
    <3> QED
      BY <3>1, SameExp DEF Rotating
  <2>2. CASE RetireOld(r)
    <3>1. /\ req[r].pc \in Rotating /\ req'[r].pc = "touch" /\ req'[r].grant = req[r].grant
          /\ UNCHANGED <<sessions, delivered>>
          /\ \A t \in GrantIds : /\ tokens'[t].expiresAt = tokens[t].expiresAt
                                 /\ tokens'[t].session = tokens[t].session
      BY <2>2, RetireDid DEF Rotating
    <3> QED
      BY <3>1, SameExp
  <2> QED
    BY <1>8, <2>1, <2>2
<1>9. ASSUME NEW r \in Reqs, Step(r) PROVE ExpInv'
  BY <1>5, <1>6, <1>8, <1>9, StoreExp, InsertExp, TouchExp, SignExp DEF Step
<1>10. ASSUME NEW r \in Reqs, Call(r) PROVE ExpInv'
  BY <1>5, <1>6, <1>7, <1>10 DEF Call
<1> QED
  BY <1>2, <1>4, <1>9, <1>10 DEF Next, Quiet

\* GET /sessions shows every session that can still be refreshed, also after a refresh
\* that was cut short between its writes.
THEOREM RefreshableIsListed ==
  ASSUME OneAtATime
  PROVE  Spec => []ListedWhileRefreshable
<1>1. ASSUME TypeOK, IInv, ExpInv PROVE ListedWhileRefreshable
  <2> SUFFICES ASSUME NEW t \in delivered, ~tokens[t].revoked,
                      ~sessions[tokens[t].session].revoked, tokens[t].expiresAt > now
               PROVE  Listed(tokens[t].session)
    BY DEF ListedWhileRefreshable
  <2>1. t \in GrantIds /\ IsToken(t)
    BY <1>1 DEF IInv, RowsOK, TypeOK
  <2>2. tokens[t].session \in SessionIds /\ IsSession(tokens[t].session)
    BY <1>1, <2>1 DEF IInv, RowsOK, IsToken, IsSession
  <2>3. /\ tokens[t].expiresAt \in Nat /\ now \in Nat
        /\ sessions[tokens[t].session].expiresAt \in Nat
    BY <1>1, <2>1, <2>2, BoundsAssumption DEF TypeOK, TokenRow, SessionRow
  <2>4. tokens[t].expiresAt <= sessions[tokens[t].session].expiresAt
    BY <1>1 DEF ExpInv
  <2> QED
    BY <2>2, <2>3, <2>4 DEF Listed
<1>2. Init => TypeOK /\ IInv /\ FInv /\ Blank /\ ExpInv
  <2>1. Init => ExpInv
    BY DEF Init, Idle, ExpInv, At, Rotating
  <2> QED
    BY <2>1, InitTypeOK, InitIInv, InitFInv DEF Init, Blank, NoSession, NoToken
<1>3. TypeOK /\ IInv /\ FInv /\ Blank /\ ExpInv /\ [Next]_vars =>
        (TypeOK /\ IInv /\ FInv /\ Blank /\ ExpInv)'
  BY TypeStep, IInvStep, FInvStep, RevocationStep, ExpStep
<1>4. Spec => [](TypeOK /\ IInv /\ FInv /\ Blank /\ ExpInv)
  BY <1>2, <1>3, PTL DEF Spec
<1> QED
  BY <1>1, <1>4, PTL

-----------------------------------------------------------------------------
(* The current token of a session, in terms of its tokens and its live ones. *)

Pick(T, L) == IF T = {} THEN NotYet
              ELSE IF L = {} THEN Lost
              ELSE CHOOSE t \in L : \A u \in L : t <= u

LEMMA PickLeast ==
  ASSUME NEW T, NEW L \in SUBSET GrantIds, T # {}, NEW t \in L, \A u \in L : t <= u
  PROVE  Pick(T, L) = t
<1>1. \A u \in L : u \in Nat
  BY DEF GrantIds
<1>2. Pick(T, L) = CHOOSE x \in L : \A u \in L : x <= u
  BY DEF Pick
<1>3. Pick(T, L) \in L /\ \A u \in L : Pick(T, L) <= u
  BY <1>2
<1> QED
  BY <1>1, <1>3

LEMMA CurrentIs ==
  ASSUME NEW s
  PROVE  /\ Current(s) = Pick(TokensOf({s}), LiveTokens(s))
         /\ Current(s)' = Pick(TokensOf({s})', LiveTokens(s)')
  BY DEF Current, Pick

LEMMA TokensOfIs ==
  ASSUME NEW s
  PROVE  /\ TokensOf({s}) = {t \in GrantIds : Of(t, s)}
         /\ TokensOf({s})' = {t \in GrantIds : Of(t, s)'}
         /\ LiveTokens(s) = {t \in GrantIds : Of(t, s) /\ ~tokens[t].revoked}
         /\ LiveTokens(s)' = {t \in GrantIds : Of(t, s)' /\ ~tokens'[t].revoked}
  BY DEF LiveTokens, TokensOf, Of, IsToken

\* A session keeps its current token when its tokens stay as they are.
LEMMA SameCurrent ==
  ASSUME NEW s, \A t \in GrantIds : /\ Of(t, s)' <=> Of(t, s)
                                    /\ Of(t, s) => (tokens'[t].revoked <=> tokens[t].revoked)
  PROVE  Current(s)' = Current(s)
<1>1. TokensOf({s})' = TokensOf({s}) /\ LiveTokens(s)' = LiveTokens(s)
  BY TokensOfIs
<1> QED
  BY <1>1, CurrentIs

\* The least of its live tokens, and what it is if there is none.
LEMMA LeastIsCurrent ==
  ASSUME NEW s, NEW t \in GrantIds, Of(t, s), ~tokens[t].revoked,
         \A u \in GrantIds : Of(u, s) /\ ~tokens[u].revoked => t <= u
  PROVE  Current(s) = t
<1> DEFINE T == TokensOf({s})
           L == LiveTokens(s)
<1>1. T # {} /\ t \in L /\ L \in SUBSET GrantIds /\ \A u \in L : t <= u
  BY TokensOfIs
<1> HIDE DEF T, L
<1>2. Pick(T, L) = t
  BY <1>1, PickLeast
<1> QED
  BY <1>2, CurrentIs DEF T, L

LEMMA LeastIsCurrentNext ==
  ASSUME NEW s, NEW t \in GrantIds, Of(t, s)', ~tokens'[t].revoked,
         \A u \in GrantIds : Of(u, s)' /\ ~tokens'[u].revoked => t <= u
  PROVE  Current(s)' = t
<1>1. TokensOf({s})' # {} /\ t \in LiveTokens(s)' /\ LiveTokens(s)' \in SUBSET GrantIds
      /\ \A u \in LiveTokens(s)' : t <= u
  BY TokensOfIs
<1>2. ASSUME NEW T, NEW L, T # {}, t \in L, L \in SUBSET GrantIds, \A u \in L : t <= u
      PROVE  Pick(T, L) = t
  BY <1>2, PickLeast
<1>3. Pick(TokensOf({s})', LiveTokens(s)') = t
  BY <1>1, <1>2
<1> QED
  BY <1>3, CurrentIs

LEMMA NoneIsCurrent ==
  ASSUME NEW s
  PROVE  /\ (\A t \in GrantIds : ~Of(t, s)) => Current(s) = NotYet
         /\ (\E t \in GrantIds : Of(t, s)) /\ (\A t \in GrantIds : Of(t, s) => tokens[t].revoked)
              => Current(s) = Lost
         /\ (\E t \in GrantIds : Of(t, s)') /\ (\A t \in GrantIds : Of(t, s)' => tokens'[t].revoked)
              => Current(s)' = Lost
<1>1. (\A t \in GrantIds : ~Of(t, s)) => TokensOf({s}) = {}
  BY TokensOfIs
<1>2. (\E t \in GrantIds : Of(t, s)) /\ (\A t \in GrantIds : Of(t, s) => tokens[t].revoked)
        => TokensOf({s}) # {} /\ LiveTokens(s) = {}
  BY TokensOfIs
<1>3. (\E t \in GrantIds : Of(t, s)') /\ (\A t \in GrantIds : Of(t, s)' => tokens'[t].revoked)
        => TokensOf({s})' # {} /\ LiveTokens(s)' = {}
  BY TokensOfIs
<1>4. \A T, L : /\ T = {} => Pick(T, L) = NotYet
                /\ T # {} /\ L = {} => Pick(T, L) = Lost
  BY DEF Pick
<1> QED
  BY <1>1, <1>2, <1>3, <1>4, CurrentIs

\* What a current token is.
LEMMA CurrentKnown ==
  ASSUME OneAtATime, TypeOK, IInv, FInv, QInv, NEW s \in SessionIds
  PROVE  \/ Current(s) = NotYet /\ \A t \in GrantIds : ~Of(t, s)
         \/ /\ Current(s) = Lost
            /\ \E t \in GrantIds : Of(t, s)
            /\ \A t \in GrantIds : Of(t, s) => tokens[t].revoked
         \/ Current(s) \in GrantIds /\ Of(Current(s), s) /\ ~tokens[Current(s)].revoked
<1>1. CASE \A t \in GrantIds : Of(t, s) => tokens[t].revoked
  BY <1>1, NoneIsCurrent
<1>2. ASSUME NEW t \in GrantIds, Of(t, s), ~tokens[t].revoked
      PROVE  Current(s) \in GrantIds /\ Of(Current(s), s) /\ ~tokens[Current(s)].revoked
  <2>1. CASE \E r \in Reqs : At(r, "retire") /\ Of(req[r].token, s)
    <3>1. PICK r \in Reqs : At(r, "retire") /\ Of(req[r].token, s)
      BY <2>1
    <3>2. PICK old : old = req[r].token
      OBVIOUS
    <3>3. req[r].pc \in Issuing /\ req[r].pc \in Refreshing
      BY <3>1 DEF At, Issuing, Refreshing
    <3>4. old \in GrantIds /\ Of(old, s) /\ ~tokens[old].revoked
      BY <3>1, <3>2, <3>3, Making DEF At, QInv, OpenInv
    <3>5. \A u \in GrantIds : Live(u) /\ u # old => Last(u)
      BY <3>1, <3>2 DEF QInv, LiveInv, OneAtATime
    <3>6. \A u \in GrantIds : Of(u, s) /\ ~tokens[u].revoked => old <= u
      BY <3>4, <3>5 DEF Live, Last, Of, GrantIds
    <3> QED
      BY <3>4, <3>6, LeastIsCurrent
  <2>2. CASE \A r \in Reqs : At(r, "retire") => ~Of(req[r].token, s)
    <3>1. \A u \in GrantIds : Of(u, s) /\ ~tokens[u].revoked => Last(u)
      BY <2>2 DEF QInv, LiveInv, Live, Of
    <3>2. \A u \in GrantIds : Of(u, s) /\ ~tokens[u].revoked => t <= u
      BY <1>2, <3>1 DEF Last, Of
    <3> QED
      BY <1>2, <3>2, LeastIsCurrent
  <2> QED
    BY <2>1, <2>2
<1> QED
  BY <1>1, <1>2

-----------------------------------------------------------------------------
(* Every step is one of SessionLifecycle, or none.                          *)

SameOwner == \A s \in SessionIds : sessions'[s].user = sessions[s].user
SameClosed == \A s \in SessionIds : sessions'[s].revoked <=> sessions[s].revoked
SameCur == \A s \in SessionIds : Current(s)' = Current(s)

LEMMA MappedStutter ==
  ASSUME SameOwner, SameClosed, SameCur, access' = access
  PROVE  UNCHANGED Lifecycle!lifecycle
<1>1. UNCHANGED [s \in SessionIds |-> sessions[s].user]
  BY DEF SameOwner
<1>2. UNCHANGED {s \in SessionIds : sessions[s].revoked}
  BY DEF SameClosed
<1>3. UNCHANGED [s \in SessionIds |-> Current(s)]
  BY DEF SameCur
<1>4. UNCHANGED [s \in SessionIds |-> {g \in GrantIds : IsAccess(g) /\ access[g].session = s}]
  BY DEF IsAccess
<1> QED
  BY <1>1, <1>2, <1>3, <1>4 DEF Lifecycle!lifecycle

\* Tokens that stay as they are.
LEMMA SameTokensCur == ASSUME tokens' = tokens PROVE SameCur
  BY SameCurrent DEF SameCur, Of, IsToken

LEMMA LoginMapped ==
  ASSUME TypeOK, IInv, Blank, NEW r \in Reqs, NEW u \in Users, Login(r, u)
  PROVE  \E s \in SessionIds : Lifecycle!OpenSession(s, u)
<1>1. PICK s \in SessionIds :
        /\ ~IsSession(s)
        /\ \A i \in SessionIds \ {s} : sessions'[i] = sessions[i]
        /\ sessions'[s].user = u /\ ~sessions'[s].revoked
        /\ UNCHANGED <<tokens, access>>
  BY LoginDid
<1>2. [i \in SessionIds |-> sessions[i].user]' =
        [[i \in SessionIds |-> sessions[i].user] EXCEPT ![s] = u]
  BY <1>1
<1>3. UNCHANGED {i \in SessionIds : sessions[i].revoked}
  BY <1>1 DEF Blank
<1>4. UNCHANGED [i \in SessionIds |-> Current(i)]
  BY <1>1, SameTokensCur DEF SameCur
<1>5. UNCHANGED [i \in SessionIds |-> {g \in GrantIds : IsAccess(g) /\ access[g].session = i}]
  BY <1>1 DEF IsAccess
<1> QED
  BY <1>1, <1>2, <1>3, <1>4, <1>5 DEF Lifecycle!OpenSession, IsSession

LEMMA SignMapped ==
  ASSUME OneAtATime, TypeOK, IInv, FInv, QInv, NEW r \in Reqs, SignFirst(r) \/ SignRotated(r)
  PROVE  \E s \in SessionIds, g \in GrantIds : Lifecycle!Sign(s, g)
<1>0. PICK g, s : g = req[r].grant /\ s = req[r].session
  OBVIOUS
<1>1. /\ req[r].pc \in {"sign", "reissue"}
      /\ \A h \in GrantIds \ {g} : access'[h] = access[h]
      /\ access'[g].session = s /\ access'[g].user # NoUser
      /\ UNCHANGED <<sessions, tokens>>
  BY <1>0, SignDid
<1>2. /\ req[r].pc \in Issuing \ {"check"} /\ req[r].pc # "store" /\ ~At(r, "retire")
      /\ req[r].pc = "sign" => req[r].pc \in LoggingIn
      /\ req[r].pc = "reissue" => req[r].pc \in Rotating /\ req[r].pc \in Refreshing
  BY <1>1 DEF Issuing, LoggingIn, Refreshing, Rotating, At
<1>3. /\ g \in GrantIds /\ s \in SessionIds /\ IsSession(s) /\ ~IsAccess(g)
      /\ ~sessions[s].revoked
  BY <1>0, <1>2, Making DEF QInv, OpenInv
<1>4. Current(s) \in {NotYet, g}
  <2>1. CASE req[r].pc = "sign"
    BY <1>0, <1>2, <2>1, Making, NoneIsCurrent
  <2>2. CASE req[r].pc = "reissue"
    <3>1. Of(g, s) /\ ~tokens[g].revoked
      BY <1>0, <1>2, <2>2, RotatedOf DEF QInv, OpenInv
    <3>2. \A u \in GrantIds : Live(u) => Last(u)
      BY <1>2 DEF QInv, LiveInv, OneAtATime
    <3>3. \A u \in GrantIds : Of(u, s) /\ ~tokens[u].revoked => g <= u
      BY <1>3, <3>1, <3>2 DEF Live, Last, Of
    <3> QED
      BY <1>3, <3>1, <3>3, LeastIsCurrent
  <2> QED
    BY <1>1, <2>1, <2>2
<1>5. UNCHANGED [i \in SessionIds |-> Current(i)]
  BY <1>1, SameTokensCur DEF SameCur
<1> DEFINE sg == [i \in SessionIds |-> {h \in GrantIds : IsAccess(h) /\ access[h].session = i}]
<1>6. sg' = [sg EXCEPT ![s] = sg[s] \cup {g}]
  <2>1. ASSUME NEW i \in SessionIds
        PROVE  {h \in GrantIds : IsAccess(h)' /\ access'[h].session = i} =
                 IF i = s THEN {h \in GrantIds : IsAccess(h) /\ access[h].session = i} \cup {g}
                          ELSE {h \in GrantIds : IsAccess(h) /\ access[h].session = i}
    <3>1. ASSUME NEW h \in GrantIds
          PROVE  IsAccess(h)' /\ access'[h].session = i <=>
                   (IsAccess(h) /\ access[h].session = i) \/ (i = s /\ h = g)
      BY <1>1, <1>3 DEF IsAccess
    <3> QED
      BY <1>3, <3>1
  <2> QED
    BY <2>1
<1>7. \A i \in SessionIds : g \notin sg[i]
  BY <1>3
<1> QED
  BY <1>1, <1>3, <1>4, <1>5, <1>6, <1>7 DEF Lifecycle!Sign, Lifecycle!Open, IsSession

LEMMA IssueMapped ==
  ASSUME OneAtATime, TypeOK, IInv, FInv, QInv, NEW r \in Reqs, StoreFirst(r)
  PROVE  \E s \in SessionIds, g \in GrantIds : Lifecycle!Issue(s, g)
<1>0. PICK g, s : g = req[r].grant /\ s = req[r].session
  OBVIOUS
<1>1. /\ req[r].pc = "store"
      /\ \A h \in GrantIds \ {g} : tokens'[h] = tokens[h]
      /\ tokens'[g].user # NoUser /\ tokens'[g].session = s /\ ~tokens'[g].revoked
      /\ UNCHANGED <<sessions, access>>
  BY <1>0, StoreDid
<1>2. req[r].pc \in Issuing \ {"check"} /\ req[r].pc \in LoggingIn /\ \A q \in Reqs : q = r
  BY <1>1 DEF Issuing, LoggingIn, OneAtATime
<1>3. /\ g \in GrantIds /\ s \in SessionIds /\ IsSession(s) /\ IsAccess(g) /\ ~IsToken(g)
      /\ ~sessions[s].revoked /\ \A t \in GrantIds : ~Of(t, s)
  BY <1>0, <1>1, <1>2, Making DEF QInv, OpenInv
<1>4. Current(s) = NotYet
  BY <1>3, NoneIsCurrent
<1>5. {h \in GrantIds : IsAccess(h) /\ access[h].session = s} = {g}
  <2>1. \A h \in delivered : IsToken(h)
    BY DEF IInv, RowsOK
  <2>2. ASSUME NEW h \in GrantIds, IsAccess(h)
        PROVE  access[h].session = s <=> h = g
    BY <1>0, <1>1, <1>2, <1>3, <2>1, <2>2 DEF QInv, DInv, Of
  <2> QED
    BY <1>3, <2>2
<1>6. \A t \in GrantIds : Of(t, s)' <=> t = g
  BY <1>1, <1>3 DEF Of, IsToken
<1>7. Current(s)' = g
  <2>1. g \in Nat
    BY <1>3 DEF GrantIds
  <2> QED
    BY <1>1, <1>3, <1>6, <2>1, LeastIsCurrentNext
<1>8. ASSUME NEW i \in SessionIds \ {s} PROVE Current(i)' = Current(i)
  <2>1. \A t \in GrantIds : /\ Of(t, i)' <=> Of(t, i)
                            /\ Of(t, i) => (tokens'[t].revoked <=> tokens[t].revoked)
    BY <1>1, <1>3 DEF Of, IsToken
  <2> QED
    BY <2>1, SameCurrent
<1>9. [i \in SessionIds |-> Current(i)]' = [[i \in SessionIds |-> Current(i)] EXCEPT ![s] = g]
  BY <1>7, <1>8
<1>10. UNCHANGED [i \in SessionIds |-> {h \in GrantIds : IsAccess(h) /\ access[h].session = i}]
  BY <1>1 DEF IsAccess
<1>11. UNCHANGED <<[i \in SessionIds |-> sessions[i].user],
                   {i \in SessionIds : sessions[i].revoked}>>
  BY <1>1
<1>12. [i \in SessionIds |-> {h \in GrantIds : IsAccess(h) /\ access[h].session = i}][s] = {g}
  BY <1>3, <1>5
<1>13. Lifecycle!Open(s) /\ [i \in SessionIds |-> Current(i)][s] = NotYet
  BY <1>3, <1>4 DEF Lifecycle!Open, IsSession
<1>14. Lifecycle!Issue(s, g)
  BY <1>9, <1>10, <1>11, <1>12, <1>13 DEF Lifecycle!Issue
<1> QED
  BY <1>3, <1>14

LEMMA InsertMapped ==
  ASSUME OneAtATime, TypeOK, IInv, FInv, QInv, NEW r \in Reqs, InsertRotated(r)
  PROVE  UNCHANGED Lifecycle!lifecycle
<1>0. PICK g, s, old : g = req[r].grant /\ s = req[r].session /\ old = req[r].token
  OBVIOUS
<1>1. /\ req[r].pc = "insert"
      /\ \A h \in GrantIds \ {g} : tokens'[h] = tokens[h]
      /\ tokens'[g].user # NoUser /\ tokens'[g].session = s /\ ~tokens'[g].revoked
      /\ UNCHANGED <<sessions, access>>
  BY <1>0, InsertDid
<1>2. req[r].pc \in Issuing /\ req[r].pc \in Refreshing /\ ~At(r, "retire")
  BY <1>1 DEF Issuing, Refreshing, At
<1>3. /\ g \in GrantIds /\ s \in SessionIds /\ ~IsToken(g)
      /\ old \in GrantIds /\ Of(old, s) /\ old # g /\ ~tokens[old].revoked
      /\ \A h \in GrantIds : Row(h) => h <= g
  BY <1>0, <1>1, <1>2, Making DEF QInv, OpenInv, NInv, Of
<1>4. \A u \in GrantIds : Of(u, s) /\ ~tokens[u].revoked => u = old
  <2>1. \A u \in GrantIds : Live(u) => Last(u)
    BY <1>2 DEF QInv, LiveInv, OneAtATime
  <2> QED
    BY <1>3, <2>1 DEF Live, Last, Of, GrantIds
<1>5. old < g
  BY <1>3 DEF Of, Row, GrantIds
<1>6. Current(s) = old
  BY <1>3, <1>4, LeastIsCurrent DEF GrantIds
<1>7. \A t \in GrantIds : /\ Of(t, s)' <=> Of(t, s) \/ t = g
                          /\ Of(t, s)' /\ ~tokens'[t].revoked => t = old \/ t = g
  BY <1>1, <1>3, <1>4 DEF Of, IsToken
<1>8. Current(s)' = old
  <2>1. old \in Nat /\ g \in Nat
    BY <1>3 DEF GrantIds
  <2>2. Of(old, s)' /\ ~tokens'[old].revoked
    BY <1>1, <1>3, <1>7
  <2>3. \A u \in GrantIds : Of(u, s)' /\ ~tokens'[u].revoked => old <= u
    BY <1>5, <1>7, <2>1
  <2> QED
    BY <1>3, <2>2, <2>3, LeastIsCurrentNext
<1>9. ASSUME NEW i \in SessionIds \ {s} PROVE Current(i)' = Current(i)
  <2>1. \A t \in GrantIds : /\ Of(t, i)' <=> Of(t, i)
                            /\ Of(t, i) => (tokens'[t].revoked <=> tokens[t].revoked)
    BY <1>1, <1>3 DEF Of, IsToken
  <2> QED
    BY <2>1, SameCurrent
<1>10. SameOwner /\ SameClosed /\ SameCur
  BY <1>1, <1>6, <1>8, <1>9 DEF SameOwner, SameClosed, SameCur
<1> QED
  BY <1>1, <1>10, MappedStutter

LEMMA RotateMapped ==
  ASSUME OneAtATime, TypeOK, IInv, FInv, QInv, NEW r \in Reqs, RetireOld(r)
  PROVE  \E s \in SessionIds, g \in GrantIds : Lifecycle!Rotate(s, g)
<1>0. PICK g, s, old : g = req[r].grant /\ s = req[r].session /\ old = req[r].token
  OBVIOUS
<1>1. /\ req[r].pc = "retire"
      /\ \A h \in GrantIds \ {old} : tokens'[h] = tokens[h]
      /\ tokens'[old].user = tokens[old].user /\ tokens'[old].session = tokens[old].session
      /\ tokens'[old].revoked
      /\ UNCHANGED <<sessions, access>>
  BY <1>0, RetireDid
<1>2. /\ req[r].pc \in Issuing \ {"check"} /\ req[r].pc \in Refreshing /\ req[r].pc \in Rotating
      /\ req[r].pc # "store" /\ \A q \in Reqs : q = r
  BY <1>1 DEF Issuing, Refreshing, Rotating, OneAtATime
<1>3. /\ g \in GrantIds /\ s \in SessionIds /\ IsSession(s) /\ Of(g, s) /\ ~IsAccess(g)
      /\ old \in GrantIds /\ Of(old, s) /\ old < g
      /\ ~tokens[old].revoked /\ ~tokens[g].revoked /\ ~sessions[s].revoked
  BY <1>0, <1>1, <1>2, Making, RotatedOf DEF QInv, OpenInv
<1>4. old \in Nat /\ g \in Nat /\ old # g /\ \A u \in GrantIds : u \in Nat
  BY <1>3 DEF GrantIds
<1>5. \A u \in GrantIds : Of(u, s) /\ ~tokens[u].revoked /\ u # old => g <= u
  <2>1. \A u \in GrantIds : Live(u) /\ u # old => Last(u)
    BY <1>0, <1>1, <1>2 DEF QInv, LiveInv
  <2> QED
    BY <1>3, <2>1 DEF Live, Last, Of
<1>6. Current(s) = old
  <2>1. \A u \in GrantIds : Of(u, s) /\ ~tokens[u].revoked => old <= u
    BY <1>3, <1>4, <1>5
  <2> QED
    BY <1>3, <2>1, LeastIsCurrent
<1>7. IsAccess(old) /\ access[old].session = s
  <2>1. old \in delivered
    BY <1>0, <1>2, <1>3, <1>4 DEF QInv, DInv, Of
  <2> QED
    BY <1>1, <1>2, <1>3, <2>1 DEF QInv, DInv, IInv, RowsOK, At, Of
<1>8. \A i \in SessionIds : Current(i) # g
  <2>1. NotYet # g /\ Lost # g
    BY <1>3, BoundsAssumption DEF NotYet, Lost, GrantIds
  <2>2. ASSUME NEW i \in SessionIds, Current(i) = g PROVE FALSE
    <3>1. Of(g, i)
      BY <2>1, <2>2, CurrentKnown
    <3>2. i = s
      BY <1>3, <3>1 DEF Of
    <3> QED
      BY <1>4, <1>6, <2>2, <3>2
  <2> QED
    BY <2>2
<1>9. \A t \in GrantIds : \A i \in SessionIds : Of(t, i)' <=> Of(t, i)
  BY <1>1 DEF Of, IsToken
<1>10. Current(s)' = g
  <2>1. Of(g, s)' /\ ~tokens'[g].revoked
    BY <1>1, <1>3, <1>4, <1>9
  <2>2. \A u \in GrantIds : Of(u, s)' /\ ~tokens'[u].revoked => g <= u
    BY <1>1, <1>3, <1>5, <1>9
  <2> QED
    BY <1>3, <2>1, <2>2, LeastIsCurrentNext
<1>11. ASSUME NEW i \in SessionIds \ {s} PROVE Current(i)' = Current(i)
  <2>1. \A t \in GrantIds : Of(t, i) => tokens'[t].revoked <=> tokens[t].revoked
    BY <1>1, <1>3 DEF Of
  <2> QED
    BY <1>9, <2>1, SameCurrent
<1>12. [i \in SessionIds |-> Current(i)]' = [[i \in SessionIds |-> Current(i)] EXCEPT ![s] = g]
  BY <1>10, <1>11
<1> DEFINE sg == [i \in SessionIds |-> {h \in GrantIds : IsAccess(h) /\ access[h].session = i}]
<1>13. UNCHANGED sg
  BY <1>1 DEF IsAccess
<1>14. UNCHANGED <<[i \in SessionIds |-> sessions[i].user],
                   {i \in SessionIds : sessions[i].revoked}>>
  BY <1>1
<1>15. Lifecycle!Open(s) /\ [i \in SessionIds |-> Current(i)][s] \in sg[s]
  BY <1>3, <1>6, <1>7 DEF Lifecycle!Open, IsSession
<1>16. \A i \in SessionIds : g \notin sg[i] \cup {[j \in SessionIds |-> Current(j)][i]}
  BY <1>3, <1>8
<1>17. Lifecycle!Rotate(s, g)
  BY <1>12, <1>13, <1>14, <1>15, <1>16 DEF Lifecycle!Rotate
<1> QED
  BY <1>3, <1>17

\* The token of session s is lost, or was before.
LEMMA LoseMapped ==
  ASSUME OneAtATime, TypeOK, IInv, FInv, QInv, NEW s \in SessionIds, Kept,
         UNCHANGED sessions, NEW t \in GrantIds, Of(t, s),
         \A u \in GrantIds : /\ Of(u, s) => tokens'[u].revoked
                             /\ tokens'[u].revoked => tokens[u].revoked \/ Of(u, s)
  PROVE  Lifecycle!Lose(s) \/ UNCHANGED Lifecycle!lifecycle
<1>1. \A u \in GrantIds : \A i \in SessionIds : Of(u, i)' <=> Of(u, i)
  BY DEF Kept, Of, IsToken
<1>2. Current(s)' = Lost
  BY <1>1, NoneIsCurrent
<1>3. ASSUME NEW i \in SessionIds \ {s} PROVE Current(i)' = Current(i)
  <2>1. \A u \in GrantIds : Of(u, i) => tokens'[u].revoked <=> tokens[u].revoked
    BY DEF Of, Kept
  <2> QED
    BY <1>1, <2>1, SameCurrent
<1>4. access' = access /\ SameOwner /\ SameClosed
  BY DEF Kept, SameOwner, SameClosed
<1>5. CASE Current(s) = Lost
  <2>1. SameCur
    BY <1>2, <1>3, <1>5 DEF SameCur
  <2> QED
    BY <1>4, <2>1, MappedStutter
<1>6. CASE Current(s) \in GrantIds
  <2>1. [i \in SessionIds |-> Current(i)]' = [[i \in SessionIds |-> Current(i)] EXCEPT ![s] = Lost]
    BY <1>2, <1>3
  <2>2. UNCHANGED [i \in SessionIds |-> {h \in GrantIds : IsAccess(h) /\ access[h].session = i}]
    BY <1>4 DEF IsAccess
  <2>3. UNCHANGED <<[i \in SessionIds |-> sessions[i].user],
                    {i \in SessionIds : sessions[i].revoked}>>
    OBVIOUS
  <2>4. [i \in SessionIds |-> Current(i)][s] \in GrantIds
    BY <1>6
  <2> QED
    BY <2>1, <2>2, <2>3, <2>4 DEF Lifecycle!Lose
<1> QED
  BY <1>5, <1>6, CurrentKnown

\* A session is closed, or was before.
LEMMA CloseMapped ==
  ASSUME TypeOK, IInv, NEW r \in Reqs, RevokeReusedSession(r) \/ LogoutSession(r)
  PROVE  (\E s \in SessionIds : Lifecycle!Close(s)) \/ UNCHANGED Lifecycle!lifecycle
<1>0. PICK s : s = req[r].session
  OBVIOUS
<1>1. /\ Kept /\ s \in SessionIds /\ IsSession(s) /\ sessions'[s].revoked
      /\ \A i \in SessionIds \ {s} : sessions'[i] = sessions[i]
      /\ tokens' = tokens
  BY <1>0, CloseDid
<1>2. access' = access /\ SameOwner /\ SameCur
  BY <1>1, SameTokensCur DEF Kept, SameOwner
<1>3. CASE sessions[s].revoked
  <2>1. SameClosed
    BY <1>1, <1>3 DEF SameClosed
  <2> QED
    BY <1>2, <2>1, MappedStutter
<1>4. CASE ~sessions[s].revoked
  <2>1. {i \in SessionIds : sessions[i].revoked}' = {i \in SessionIds : sessions[i].revoked} \cup {s}
    BY <1>1
  <2>2. UNCHANGED <<[i \in SessionIds |-> sessions[i].user], [i \in SessionIds |-> Current(i)],
                    [i \in SessionIds |-> {h \in GrantIds : IsAccess(h) /\ access[h].session = i}]>>
    BY <1>2 DEF SameOwner, SameCur, IsAccess
  <2>3. Lifecycle!Open(s)
    BY <1>1, <1>4 DEF Lifecycle!Open, IsSession
  <2> QED
    BY <1>1, <2>1, <2>2, <2>3 DEF Lifecycle!Close
<1> QED
  BY <1>3, <1>4

LEMMA CloseAllMapped ==
  ASSUME OneAtATime, TypeOK, IInv, FInv, QInv, NEW r \in Reqs, RevokeTx(r)
  PROVE  \/ \E S \in SUBSET SessionIds, u \in Users : Lifecycle!CloseAll(S, u)
         \/ UNCHANGED Lifecycle!lifecycle
<1>0. PICK S, u : S = req[r].todo /\ u = req[r].user
  OBVIOUS
<1>1. /\ Kept /\ req[r].pc = "revoke" /\ S \subseteq SessionIds
      /\ \A s \in SessionIds : /\ s \in S => sessions'[s].revoked
                               /\ s \notin S => sessions'[s] = sessions[s]
      /\ \A t \in GrantIds : LET own == IsToken(t) /\ tokens[t].session \in S IN
              /\ own => tokens'[t].revoked
              /\ tokens'[t].revoked => tokens[t].revoked \/ own
  BY <1>0, RevokeTxDid
<1>2. \A s \in S : IsSession(s) /\ sessions[s].user = u /\ ~sessions[s].revoked
  BY <1>0, <1>1 DEF IInv, SlotsOK, SlotOK, QInv, OpenInv, At
<1>3. \A s \in S : \E t \in GrantIds : Of(t, s)
  <2>1. req[r].pc \notin LoggingIn /\ \A q \in Reqs : q = r
    BY <1>1 DEF LoggingIn, OneAtATime
  <2> QED
    BY <1>1, <1>2, <2>1 DEF QInv, DInv
<1>4. \A t \in GrantIds : \A i \in SessionIds : Of(t, i)' <=> Of(t, i)
  BY <1>1 DEF Kept, Of, IsToken
<1>5. ASSUME NEW i \in S PROVE Current(i)' = Lost
  <2>1. \A t \in GrantIds : Of(t, i) => tokens'[t].revoked
    BY <1>1 DEF Of
  <2>2. \E t \in GrantIds : Of(t, i)'
    BY <1>1, <1>3, <1>4
  <2>3. \A t \in GrantIds : Of(t, i)' => tokens'[t].revoked
    BY <1>1, <1>4, <2>1
  <2> QED
    BY <2>2, <2>3, NoneIsCurrent
<1>6. ASSUME NEW i \in SessionIds \ S PROVE Current(i)' = Current(i)
  <2>1. \A t \in GrantIds : Of(t, i) => tokens'[t].revoked <=> tokens[t].revoked
    BY <1>1 DEF Of, Kept
  <2> QED
    BY <1>4, <2>1, SameCurrent
<1>7. access' = access /\ SameOwner
  BY <1>1 DEF Kept, SameOwner
<1>8. CASE S = {}
  <2>1. SameClosed /\ SameCur
    BY <1>1, <1>6, <1>8 DEF SameClosed, SameCur
  <2> QED
    BY <1>7, <2>1, MappedStutter
<1>9. CASE S # {}
  <2>1. u \in Users
    BY <1>1, <1>2, <1>9 DEF TypeOK, SessionRow, IsSession
  <2>2. {i \in SessionIds : sessions[i].revoked}' = {i \in SessionIds : sessions[i].revoked} \cup S
    BY <1>1 DEF Kept
  <2>3. [i \in SessionIds |-> Current(i)]' =
          [i \in SessionIds |-> IF i \in S THEN Lost ELSE [j \in SessionIds |-> Current(j)][i]]
    BY <1>5, <1>6
  <2>4. UNCHANGED <<[i \in SessionIds |-> sessions[i].user],
                    [i \in SessionIds |-> {h \in GrantIds : IsAccess(h) /\ access[h].session = i}]>>
    BY <1>7 DEF SameOwner, IsAccess
  <2>5. \A s \in S : Lifecycle!Open(s) /\ [i \in SessionIds |-> sessions[i].user][s] = u
    BY <1>1, <1>2 DEF Lifecycle!Open, IsSession
  <2>6. Lifecycle!CloseAll(S, u)
    BY <2>2, <2>3, <2>4, <2>5 DEF Lifecycle!CloseAll
  <2> QED
    BY <1>1, <2>1, <2>6
<1> QED
  BY <1>8, <1>9

\* Requests that are looked at, a session that is touched, keys in Redis and the clock.
LEMMA AsideMapped ==
  ASSUME TypeOK, IInv, NEW r \in Reqs,
         \/ \E t \in GrantIds : BeginRefresh(r, t)
         \/ CheckSession(r)
         \/ \E t \in GrantIds : DetectReuse(r, t)
         \/ (\E g \in GrantIds : Verify(r, g)) \/ Validate(r) \/ Answer(r)
         \/ \/ \E s \in SessionIds : RevokeOne(r, s)
            \/ RevokeOthers(r)
            \/ \E u \in Users : RevokeAllOf(r, u)
         \/ LogoutBlacklist(r)
         \/ \E s \in SessionIds : BlacklistSession(r, s)
         \/ TouchSession(r)
  PROVE  UNCHANGED Lifecycle!lifecycle
<1>1. CASE UNCHANGED <<tokens, sessions, access>>
  BY <1>1, SameTokensCur, MappedStutter DEF SameOwner, SameClosed
<1>2. CASE TouchSession(r)
  <2>1. SameOwner /\ SameClosed /\ UNCHANGED <<tokens, access>>
    BY <1>2, TouchDid DEF SameOwner, SameClosed
  <2> QED
    BY <2>1, SameTokensCur, MappedStutter
<1>3. CASE CheckSession(r) \/ LogoutBlacklist(r) \/ (\E s \in SessionIds : BlacklistSession(r, s))
  BY <1>1, <1>3 DEF CheckSession, LogoutBlacklist, BlacklistSession, db
<1>4. CASE \/ \E t \in GrantIds : BeginRefresh(r, t)
           \/ \E t \in GrantIds : DetectReuse(r, t)
           \/ (\E g \in GrantIds : Verify(r, g)) \/ Validate(r) \/ Answer(r)
  BY <1>1, <1>4 DEF BeginRefresh, DetectReuse, Verify, Validate, Answer, db
<1>5. CASE \/ \E s \in SessionIds : RevokeOne(r, s)
           \/ RevokeOthers(r)
           \/ \E u \in Users : RevokeAllOf(r, u)
  BY <1>1, <1>5 DEF RevokeOne, RevokeOthers, RevokeAllOf, db
<1> QED
  BY <1>2, <1>3, <1>4, <1>5

LEMMA MappedStep ==
  ASSUME OneAtATime, MaxFaults = 0, TypeOK, IInv, FInv, Blank, QInv, [Next]_vars
  PROVE  [Lifecycle!Next]_Lifecycle!lifecycle
<1>1. ~(faults < MaxFaults)
  BY DEF TypeOK
<1>2. CASE Tick \/ UNCHANGED vars
  <2>1. UNCHANGED <<sessions, tokens, access>>
    BY <1>2 DEF Tick, vars, db
  <2>2. UNCHANGED Lifecycle!lifecycle
    BY <2>1, SameTokensCur, MappedStutter DEF SameOwner, SameClosed
  <2> QED
    BY <2>2
<1>3. ASSUME NEW r \in Reqs,
             RevokeReusedFamily(r) \/ \E t \in GrantIds : LogoutFamily(r, t)
      PROVE  \/ \E s \in SessionIds : Lifecycle!Lose(s)
             \/ UNCHANGED Lifecycle!lifecycle
  <2>1. CASE RevokeReusedFamily(r)
    <3>1. PICK s : s = req[r].session
      OBVIOUS
    <3>2. PICK t : t = req[r].token
      OBVIOUS
    <3>3. /\ Kept /\ req[r].pc = "family" /\ s \in SessionIds /\ UNCHANGED sessions
          /\ \A u \in GrantIds : /\ Of(u, s) => tokens'[u].revoked
                                 /\ tokens'[u].revoked => tokens[u].revoked \/ Of(u, s)
      BY <2>1, <3>1, ReusedFamilyDid DEF QInv
    <3>4. t \in GrantIds /\ Of(t, s)
      BY <3>1, <3>2, <3>3 DEF QInv, OpenInv, At, IInv, SlotsOK, SlotOK, Reusing
    <3> QED
      BY <3>3, <3>4, LoseMapped
  <2>2. ASSUME NEW t \in GrantIds, LogoutFamily(r, t)
        PROVE  \/ \E s \in SessionIds : Lifecycle!Lose(s)
               \/ UNCHANGED Lifecycle!lifecycle
    <3>1. PICK s : s = tokens[t].session
      OBVIOUS
    <3>2. /\ Kept /\ s \in SessionIds /\ Of(t, s) /\ UNCHANGED sessions
          /\ \A u \in GrantIds : /\ Of(u, s) => tokens'[u].revoked
                                 /\ tokens'[u].revoked => tokens[u].revoked \/ Of(u, s)
      BY <2>2, <3>1, LogoutFamilyDid
    <3> QED
      BY <3>2, LoseMapped
  <2> QED
    BY <1>3, <2>1, <2>2
<1>4. ASSUME NEW r \in Reqs, Step(r) PROVE Lifecycle!Next \/ UNCHANGED Lifecycle!lifecycle
  <2>1. CASE SignFirst(r) \/ SignRotated(r)
    BY <2>1, SignMapped DEF Lifecycle!Next
  <2>2. CASE StoreFirst(r)
    BY <2>2, IssueMapped DEF Lifecycle!Next
  <2>3. CASE InsertRotated(r)
    BY <2>3, InsertMapped
  <2>4. CASE RetireOld(r)
    BY <2>4, RotateMapped DEF Lifecycle!Next
  <2>5. CASE RevokeReusedFamily(r)
    BY <1>3, <2>5 DEF Lifecycle!Next
  <2>6. CASE RevokeReusedSession(r) \/ LogoutSession(r)
    BY <2>6, CloseMapped DEF Lifecycle!Next
  <2>7. CASE RevokeTx(r)
    BY <2>7, CloseAllMapped DEF Lifecycle!Next
  <2>8. CASE \/ CheckSession(r) \/ TouchSession(r) \/ Validate(r) \/ Answer(r)
             \/ LogoutBlacklist(r) \/ \E s \in SessionIds : BlacklistSession(r, s)
    BY <2>8, AsideMapped
  <2> QED
    BY <1>4, <2>1, <2>2, <2>3, <2>4, <2>5, <2>6, <2>7, <2>8 DEF Step
<1>5. ASSUME NEW r \in Reqs, Call(r) PROVE Lifecycle!Next \/ UNCHANGED Lifecycle!lifecycle
  <2>1. CASE \E u \in Users : Login(r, u)
    BY <2>1, LoginMapped DEF Lifecycle!Next
  <2>2. CASE \E t \in GrantIds : LogoutFamily(r, t)
    BY <1>3, <2>2 DEF Lifecycle!Next
  <2>3. CASE \/ \E t \in GrantIds : BeginRefresh(r, t)
             \/ \E t \in GrantIds : DetectReuse(r, t)
             \/ \E g \in GrantIds : Verify(r, g)
             \/ \E s \in SessionIds : RevokeOne(r, s)
             \/ RevokeOthers(r)
             \/ \E u \in Users : RevokeAllOf(r, u)
    BY <2>3, AsideMapped
  <2> QED
    BY <1>5, <2>1, <2>2, <2>3 DEF Call
<1> QED
  BY <1>1, <1>2, <1>4, <1>5 DEF Next, Abort, RedisRestart, Quiet

LEMMA MappedInit == ASSUME Init PROVE Lifecycle!Init
<1>1. \A s \in SessionIds : /\ sessions[s].user = NoUser /\ ~sessions[s].revoked
                            /\ \A t \in GrantIds : ~Of(t, s)
  BY DEF Init, NoSession, NoToken, Of, IsToken
<1>2. \A s \in SessionIds : Current(s) = NotYet
  BY <1>1, NoneIsCurrent
<1>3. \A g \in GrantIds : ~IsAccess(g)
  BY DEF Init, NoAccess, IsAccess
<1> QED
  BY <1>1, <1>2, <1>3 DEF Lifecycle!Init

\* Served one request at a time, the sessions of the program are those of
\* SessionLifecycle: each has one working refresh token, the rotation of the last, and
\* signs for it alone; a token once replaced or lost, and a session once revoked, never
\* hand out anything again.
THEOREM SessionsImplementLifecycle ==
  ASSUME OneAtATime, MaxFaults = 0
  PROVE  Spec => ImplementsLifecycle
<1>1. TypeOK /\ IInv /\ FInv /\ Blank /\ QInv /\ [Next]_vars
        => [Lifecycle!Next]_Lifecycle!lifecycle
  BY MappedStep
<1> QED
  BY <1>1, MappedInit, Inductive, PTL DEF Spec, ImplementsLifecycle, Lifecycle!Spec

==============================================================================
