------------------------ MODULE EmailVerificationProofs ------------------------
(***************************************************************************)
(* Proofs, for every value of the constants, of every property of          *)
(* EmailVerification that its run checks.                                  *)
(*                                                                         *)
(* Two inductive invariants carry them.  EInv says what a slot knows when  *)
(* it acts on what it read some steps before; from it follow the types and *)
(* who owns an address.  LinkInv adds that a user without a working link   *)
(* has a request underway that will make one.                              *)
(***************************************************************************)
EXTENDS EmailVerification, TLAPS

-----------------------------------------------------------------------------
(* The inductive invariant.                                                 *)

\* What a row of email_verification_tokens is for: who owns it, of which type it is,
\* and to which address it moves the account.  Only consumed ever changes.
TokenIsFor(t, u, k, a) ==
    /\ t \in TokenIds
    /\ u \in Users
    /\ tokens[t].user = u
    /\ tokens[t].type = k
    /\ k = "EMAIL_CHANGE" => tokens[t].newEmail = a

\* A slot that issues a token: for a registration it is an address the user has had.
IssuingSlot(q) ==
    q.pc \in {"send", "invalidate", "create", "mail"} =>
      /\ q.user \in Users
      /\ q.address \in Addresses
      /\ q.type = "REGISTRATION" => q.address \in claims[q.user]

\* A slot that is about to mail a token has created it, for what it was asked for.
MailSlot(q) == q.pc = "mail" => TokenIsFor(q.token, q.user, q.type, q.address)

\* A slot that is about to move an account presented a token for this move.
MoveSlot(q) ==
    q.pc \in {"taken", "update"} =>
      /\ TokenIsFor(q.token, q.user, "EMAIL_CHANGE", q.address)
      /\ mailedTo[q.token] = q.address
      /\ q.address \in Addresses
      /\ <<q.user, q.address>> \in proved

\* A slot that is about to mark an address has proved the one the account has now,
\* even if that is another than the one the token was mailed to.
MarkSlot(q) ==
    q.pc = "mark" =>
      /\ q.token \in TokenIds
      /\ q.user \in Users
      /\ tokens[q.token].user = q.user
      /\ <<q.user, email[q.user]>> \in proved

\* A slot that is about to consume its token has verified the owner.
ConsumeSlot(q) ==
    q.pc = "consume" =>
      /\ q.token \in TokenIds
      /\ q.user \in Users
      /\ tokens[q.token].user = q.user
      /\ verified[q.user]

InsertSlot(q) == q.pc = "insert" => q.address \in Addresses

SlotInv(q) ==
    /\ InsertSlot(q)
    /\ IssuingSlot(q)
    /\ MailSlot(q)
    /\ MoveSlot(q)
    /\ MarkSlot(q)
    /\ ConsumeSlot(q)

\* A mailed token: the mail of a change went to the new address, that of a
\* registration to one the owner has had.
MailedInv(t) ==
    mailedTo[t] # NoAddress =>
      /\ tokens[t].user \in Users
      /\ tokens[t].type = "EMAIL_CHANGE" => mailedTo[t] = tokens[t].newEmail
      /\ tokens[t].type = "REGISTRATION" => mailedTo[t] \in claims[tokens[t].user]

\* An account: it has had no other address than the present one, or it has proved
\* the present one; and it has, when it is verified.
UserInv(u) ==
    /\ ~Registered(u) => claims[u] = {}
    /\ claims[u] \subseteq {email[u]} \/ <<u, email[u]>> \in proved
    /\ verified[u] => <<u, email[u]>> \in proved

\* The listener of a user who is not registered has nothing to do.
ListenersInv == \A u \in Users : ~Registered(u) => At(u, "idle")

EInv ==
    /\ TypeOK
    /\ \A r \in Slots : SlotInv(req[r])
    /\ \A t \in TokenIds : MailedInv(t)
    /\ \A u \in Users : UserInv(u)
    /\ ListenersInv
    /\ AddressesApart

\* As long as no request died, a registered user is verified, or has got a working
\* link or is about to be mailed it, or has a request that will create one.
HasLink(u) ==
    \E t \in TokenIds :
      /\ tokens[t].user = u
      /\ tokens[t].type = "REGISTRATION"
      /\ ~tokens[t].consumed
      /\ \/ mailedTo[t] # NoAddress
         \/ \E r \in Slots : At(r, "mail") /\ req[r].token = t

WillCreate(r, u) ==
    /\ req[r].pc \in {"send", "invalidate", "create"}
    /\ req[r].user = u
    /\ req[r].type = "REGISTRATION"

Linked(u) == verified[u] \/ HasLink(u) \/ \E r \in Slots : WillCreate(r, u)

LinkInv == faults = 0 => \A u \in Users : Registered(u) => Linked(u)

-----------------------------------------------------------------------------
(* What no step takes away, and what a step that moves one slot therefore   *)
(* leaves of the others.                                                    *)

\* Rows of tokens keep what they are for, a mailed change stays mailed where it was,
\* addresses a user has had, proofs and verifications accumulate, and an account
\* that has proved its address moves only to an address it has proved.
Frame ==
    /\ \A t \in TokenIds : tokens[t].user \in Users =>
         /\ tokens'[t].user = tokens[t].user
         /\ tokens'[t].type = tokens[t].type
         /\ tokens'[t].newEmail = tokens[t].newEmail
    /\ \A t \in TokenIds : mailedTo[t] # NoAddress /\ tokens[t].type = "EMAIL_CHANGE" =>
         mailedTo'[t] = mailedTo[t]
    /\ proved \subseteq proved'
    /\ \A u \in Users :
         /\ claims[u] \subseteq claims'[u]
         /\ verified[u] => verified'[u]
         /\ Registered(u) => Registered(u)'
         /\ <<u, email[u]>> \in proved => <<u, email'[u]>> \in proved'

LEMMA IdleTyped == Idle \in Slot /\ Idle.pc = "idle"
  BY DEF Idle, Slot, PCs, Types

LEMMA IdleInv == SlotInv(Idle)
  BY IdleTyped DEF SlotInv, InsertSlot, IssuingSlot, MailSlot, MoveSlot, MarkSlot, ConsumeSlot

\* What a slot knows stays true while others act.
LEMMA SlotKept ==
  ASSUME EInv, Frame, NEW q \in Slot, SlotInv(q)
  PROVE  SlotInv(q)'
<1>1. InsertSlot(q)' /\ IssuingSlot(q)' /\ MarkSlot(q)' /\ ConsumeSlot(q)'
  BY DEF Frame, SlotInv, InsertSlot, IssuingSlot, MarkSlot, ConsumeSlot
<1>2. MailSlot(q)'
  BY DEF Frame, SlotInv, MailSlot, TokenIsFor
<1>3. MoveSlot(q)'
  BY NoAddressAssumption DEF Frame, SlotInv, MoveSlot, TokenIsFor
<1> QED
  BY <1>1, <1>2, <1>3 DEF SlotInv

LEMMA OneSlot ==
  ASSUME EInv, Frame, NEW r \in Slots, NEW q \in Slot, req' = [req EXCEPT ![r] = q],
         SlotInv(q)', r \in Reqs \/ ~At(r, "idle")
  PROVE  /\ req' \in [Slots -> Slot]
         /\ \A s \in Slots : SlotInv(req[s])'
         /\ ListenersInv'
<1>1. req \in [Slots -> Slot]
  BY DEF EInv, TypeOK
<1>2. req' \in [Slots -> Slot]
  BY <1>1
<1>3. ASSUME NEW s \in Slots
      PROVE  SlotInv(req[s])'
  <2>1. CASE s = r
    BY <1>1, <2>1
  <2>2. CASE s # r
    <3>1. req'[s] = req[s] /\ req[s] \in Slot /\ SlotInv(req[s])
      BY <1>1, <2>2 DEF EInv
    <3> QED
      BY <3>1, SlotKept
  <2> QED
    BY <2>1, <2>2
<1>4. ASSUME NEW u \in Users, ~Registered(u)'
      PROVE  At(u, "idle")'
  <2>1. ~Registered(u) /\ At(u, "idle")
    BY <1>4 DEF EInv, ListenersInv, Frame
  <2>2. u # r
    BY <2>1, SlotsAssumption
  <2> QED
    BY <1>1, <2>1, <2>2 DEF At, Slots
<1> QED
  BY <1>2, <1>3, <1>4 DEF ListenersInv

-----------------------------------------------------------------------------
(* What EInv says besides the slots.                                        *)

RowsTyped ==
    /\ email \in [Users -> Addresses \cup {NoAddress}]
    /\ verified \in [Users -> BOOLEAN]
    /\ tokens \in [TokenIds -> Token]
    /\ mailedTo \in [TokenIds -> Addresses \cup {NoAddress}]
    /\ claims \in [Users -> SUBSET Addresses]
    /\ faults \in 0 .. MaxFaults
    /\ proved \subseteq Users \X Addresses
    /\ \A u \in Users : verified[u] => email[u] # NoAddress
    /\ \A t \in TokenIds :
         tokens[t].type = "EMAIL_CHANGE" => tokens[t].newEmail # NoAddress

RowsInv ==
    /\ RowsTyped
    /\ \A t \in TokenIds : MailedInv(t)
    /\ \A u \in Users : UserInv(u)
    /\ AddressesApart

LEMMA Rows == EInv => RowsInv
  BY DEF EInv, RowsInv, RowsTyped, TypeOK

LEMMA SlotTyped == ASSUME EInv, NEW r \in Slots PROVE req[r] \in Slot /\ SlotInv(req[r])
  BY DEF EInv, TypeOK

\* A step that moves one slot to a state that knows what it must.
LEMMA Assemble ==
  ASSUME EInv, Frame, RowsInv', NEW r \in Slots, NEW q \in Slot,
         req' = [req EXCEPT ![r] = q], SlotInv(q)', r \in Reqs \/ ~At(r, "idle")
  PROVE  EInv'
<1>1. /\ req' \in [Slots -> Slot]
      /\ \A s \in Slots : SlotInv(req[s])'
      /\ ListenersInv'
  BY OneSlot
<1> QED
  BY <1>1 DEF EInv, RowsInv, RowsTyped, TypeOK

\* A step that changes no row: it may count a fault, and learn who got a mail.
LEMMA RowsKept ==
  ASSUME EInv, UNCHANGED <<accounts, tokens, mailedTo, claims>>, faults' \in 0 .. MaxFaults,
         proved \subseteq proved', proved' \subseteq Users \X Addresses
  PROVE  Frame /\ RowsInv'
<1>1. Frame
  BY DEF Frame, accounts, Registered
<1>2. RowsTyped'
  BY Rows DEF RowsInv, RowsTyped, accounts
<1>3. \A t \in TokenIds : MailedInv(t)'
  BY Rows DEF RowsInv, MailedInv
<1>4. \A u \in Users : UserInv(u)'
  BY Rows DEF RowsInv, UserInv, Registered, accounts
<1>5. AddressesApart'
  BY Rows DEF RowsInv, AddressesApart, Registered, accounts
<1> QED
  BY <1>1, <1>2, <1>3, <1>4, <1>5 DEF RowsInv

LEMMA RowsSame ==
  ASSUME EInv, UNCHANGED <<accounts, tokens, mailedTo, claims, faults, proved>>
  PROVE  Frame /\ RowsInv'
<1>1. faults' \in 0 .. MaxFaults /\ proved \subseteq proved' /\ proved' \subseteq Users \X Addresses
  BY DEF EInv, TypeOK
<1> QED
  BY <1>1, RowsKept

LEMMA GotoStep ==
  ASSUME EInv, NEW r \in Slots, NEW p \in PCs, Goto(r, p)
  PROVE  \E q \in Slot :
           /\ q.pc = p
           /\ q.user = req[r].user /\ q.type = req[r].type
           /\ q.address = req[r].address /\ q.token = req[r].token
           /\ req' = [req EXCEPT ![r] = q]
<1> DEFINE e == [req[r] EXCEPT !.pc = p]
<1>1. /\ e \in Slot
      /\ e.pc = p
      /\ e.user = req[r].user /\ e.type = req[r].type
      /\ e.address = req[r].address /\ e.token = req[r].token
  BY SlotTyped DEF Slot
<1>2. req' = [req EXCEPT ![r] = e]
  BY DEF EInv, TypeOK, Slot, Goto
<1> HIDE DEF e
<1> QED
  BY <1>1, <1>2

\* A slot that is through, or died.
LEMMA DoneStep ==
  ASSUME EInv, Frame, RowsInv', NEW r \in Slots, Done(r), ~At(r, "idle")
  PROVE  EInv'
<1>1. SlotInv(Idle)'
  BY IdleTyped, IdleInv DEF SlotInv, InsertSlot, IssuingSlot, MailSlot, MoveSlot,
                            MarkSlot, ConsumeSlot
<1> QED
  BY <1>1, IdleTyped, Assemble DEF Done

-----------------------------------------------------------------------------
(* Requests that arrive.                                                    *)

LEMMA RegisterStep ==
  ASSUME EInv, NEW r \in Reqs, NEW a \in Addresses, Register(r, a)
  PROVE  EInv'
<1> DEFINE q == [Idle EXCEPT !.pc = "insert", !.address = a]
<1>1. q \in Slot /\ q.pc = "insert" /\ q.address = a
  BY DEF Idle, Slot, PCs, Types
<1>2. req' = [req EXCEPT ![r] = q]
  BY DEF Register
<1>3. Frame /\ RowsInv'
  BY RowsSame DEF Register
<1> HIDE DEF q
<1>4. SlotInv(q)'
  BY <1>1 DEF SlotInv, InsertSlot, IssuingSlot, MailSlot, MoveSlot, MarkSlot, ConsumeSlot
<1> QED
  BY <1>1, <1>2, <1>3, <1>4, Assemble DEF Slots

LEMMA ResendStep ==
  ASSUME EInv, NEW r \in Reqs, NEW u \in Users, NEW a \in Addresses, Resend(r, u, a)
  PROVE  EInv'
<1> DEFINE q == [Idle EXCEPT !.pc = "send", !.user = u, !.address = a]
<1>1. q \in Slot /\ q.pc = "send" /\ q.address = a /\ q.user = u
  BY DEF Idle, Slot, PCs, Types
<1>2. req' = [req EXCEPT ![r] = q] /\ a \in claims'[u]
  BY DEF Resend
<1>3. Frame /\ RowsInv'
  BY RowsSame DEF Resend
<1> HIDE DEF q
<1>4. SlotInv(q)'
  BY <1>1, <1>2 DEF SlotInv, InsertSlot, IssuingSlot, MailSlot, MoveSlot, MarkSlot, ConsumeSlot
<1> QED
  BY <1>1, <1>2, <1>3, <1>4, Assemble DEF Slots

LEMMA RequestEmailChangeStep ==
  ASSUME EInv, NEW r \in Reqs, NEW u \in Users, NEW a \in Addresses,
         RequestEmailChange(r, u, a)
  PROVE  EInv'
<1> DEFINE q == [Idle EXCEPT !.pc = "invalidate", !.user = u, !.type = "EMAIL_CHANGE",
                             !.address = a]
<1>1. /\ q \in Slot /\ q.pc = "invalidate" /\ q.address = a /\ q.user = u
      /\ q.type = "EMAIL_CHANGE"
  BY DEF Idle, Slot, PCs, Types
<1>2. req' = [req EXCEPT ![r] = q]
  BY DEF RequestEmailChange
<1>3. Frame /\ RowsInv'
  BY RowsSame DEF RequestEmailChange
<1> HIDE DEF q
<1>4. SlotInv(q)'
  BY <1>1 DEF SlotInv, InsertSlot, IssuingSlot, MailSlot, MoveSlot, MarkSlot, ConsumeSlot
<1> QED
  BY <1>1, <1>2, <1>3, <1>4, Assemble DEF Slots

\* Who presents a token has got its mail, so the address it went to is one of the
\* owner's, and the present one if the owner has proved none.
LEMMA VerifyStep ==
  ASSUME EInv, NEW r \in Reqs, NEW t \in TokenIds, Verify(r, t)
  PROVE  EInv'
<1> DEFINE u == tokens[t].user
           change == tokens[t].type = "EMAIL_CHANGE"
           e == [pc |-> IF change THEN "taken" ELSE "mark",
                 user |-> u, type |-> tokens[t].type,
                 address |-> tokens[t].newEmail, token |-> t]
<1>1. /\ tokens[t] \in Token
      /\ mailedTo[t] \in Addresses
      /\ u \in Users
      /\ MailedInv(t)
      /\ UserInv(u)
  BY DEF EInv, TypeOK, Verify, MailedInv
<1>2. req' = [req EXCEPT ![r] = e] /\ proved' = proved \cup {<<u, mailedTo[t]>>}
  BY DEF Verify
<1>3. Frame /\ RowsInv'
  <2>1. /\ faults' \in 0 .. MaxFaults
        /\ proved \subseteq proved' /\ proved' \subseteq Users \X Addresses
    BY <1>1, <1>2 DEF EInv, TypeOK, Verify
  <2> QED
    BY <2>1, RowsKept DEF Verify
<1>4. PICK q \in Slot :
        /\ q.pc = (IF change THEN "taken" ELSE "mark")
        /\ q.user = u /\ q.type = tokens[t].type /\ q.address = tokens[t].newEmail
        /\ q.token = t
        /\ req' = [req EXCEPT ![r] = q]
  <2>1. /\ e \in Slot /\ e.pc = (IF change THEN "taken" ELSE "mark")
        /\ e.user = u /\ e.type = tokens[t].type /\ e.address = tokens[t].newEmail
        /\ e.token = t
    BY <1>1 DEF Slot, PCs, Token
  <2> HIDE DEF e
  <2> QED
    BY <1>2, <2>1
<1>5. change => mailedTo[t] = tokens[t].newEmail
  BY <1>1, NoAddressAssumption DEF MailedInv
<1>6. ~change => <<u, email[u]>> \in proved'
  <2>1. ~change => mailedTo[t] \in claims[u]
    BY <1>1, NoAddressAssumption DEF MailedInv, Token, Types
  <2> QED
    BY <2>1, <1>1, <1>2 DEF UserInv
<1>7. UNCHANGED <<email, tokens, mailedTo>>
  BY DEF Verify, accounts
<1>8. SlotInv(q)'
  BY <1>1, <1>2, <1>4, <1>5, <1>6, <1>7
     DEF SlotInv, InsertSlot, IssuingSlot, MailSlot, MoveSlot, MarkSlot, ConsumeSlot, TokenIsFor
<1> QED
  BY <1>3, <1>4, <1>8, Assemble DEF Slots

-----------------------------------------------------------------------------
(* Steps.                                                                   *)

LEMMA SendRegistrationVerificationStep ==
  ASSUME EInv, NEW r \in Slots, SendRegistrationVerification(r)
  PROVE  EInv'
<1>1. At(r, "send") /\ ~At(r, "idle")
  BY DEF SendRegistrationVerification, At
<1>2. Frame /\ RowsInv'
  BY RowsSame DEF SendRegistrationVerification
<1>3. CASE Done(r)
  BY <1>1, <1>2, <1>3, DoneStep
<1>4. CASE Goto(r, "invalidate")
  <2>2. PICK q \in Slot :
          /\ q.pc = "invalidate" /\ q.user = req[r].user
          /\ q.type = req[r].type /\ q.address = req[r].address
          /\ req' = [req EXCEPT ![r] = q]
    BY <1>4, GotoStep DEF PCs
  <2>3. IssuingSlot(req[r]) /\ claims' = claims
    BY SlotTyped DEF SlotInv, SendRegistrationVerification
  <2>4. SlotInv(q)'
    BY <1>1, <2>2, <2>3 DEF At, SlotInv, InsertSlot, IssuingSlot, MailSlot, MoveSlot,
                            MarkSlot, ConsumeSlot
  <2> QED
    BY <1>1, <1>2, <2>2, <2>4, Assemble
<1> QED
  BY <1>3, <1>4 DEF SendRegistrationVerification

LEMMA InvalidateOutstandingStep ==
  ASSUME EInv, NEW r \in Slots, InvalidateOutstanding(r)
  PROVE  EInv'
<1>1. At(r, "invalidate") /\ ~At(r, "idle")
  BY DEF InvalidateOutstanding, At
<1>2. UNCHANGED <<accounts, mailedTo, claims, faults, proved>>
  BY DEF InvalidateOutstanding
<1>3. ASSUME NEW t \in TokenIds
      PROVE  /\ tokens'[t] \in Token
             /\ tokens'[t].user = tokens[t].user
             /\ tokens'[t].type = tokens[t].type
             /\ tokens'[t].newEmail = tokens[t].newEmail
  <2>1. tokens'[t] = Invalidated(tokens[t], req[r].user, req[r].type)
    BY DEF InvalidateOutstanding
  <2>2. tokens[t] \in Token
    BY DEF EInv, TypeOK
  <2>3. /\ [tokens[t] EXCEPT !.consumed = TRUE] \in Token
        /\ [tokens[t] EXCEPT !.consumed = TRUE].user = tokens[t].user
        /\ [tokens[t] EXCEPT !.consumed = TRUE].type = tokens[t].type
        /\ [tokens[t] EXCEPT !.consumed = TRUE].newEmail = tokens[t].newEmail
    BY <2>2 DEF Token
  <2> QED
    BY <2>1, <2>2, <2>3 DEF Invalidated
<1>4. Frame /\ RowsInv'
  <2>1. Frame
    BY <1>2, <1>3 DEF Frame, accounts, Registered
  <2>2. tokens' \in [TokenIds -> Token]
    BY <1>3 DEF InvalidateOutstanding
  <2>3. RowsTyped'
    BY <1>2, <1>3, <2>2, Rows DEF RowsInv, RowsTyped, accounts
  <2>4. \A t \in TokenIds : MailedInv(t)'
    BY <1>2, <1>3, Rows DEF RowsInv, MailedInv
  <2>5. (\A u \in Users : UserInv(u)') /\ AddressesApart'
    BY <1>2, Rows DEF RowsInv, UserInv, AddressesApart, Registered, accounts
  <2> QED
    BY <2>1, <2>3, <2>4, <2>5 DEF RowsInv
<1>6. PICK q \in Slot :
        /\ q.pc = "create" /\ q.user = req[r].user
        /\ q.type = req[r].type /\ q.address = req[r].address
        /\ req' = [req EXCEPT ![r] = q]
  BY GotoStep DEF PCs, InvalidateOutstanding
<1>7. IssuingSlot(req[r])
  BY SlotTyped DEF SlotInv
<1>8. SlotInv(q)'
  BY <1>1, <1>2, <1>6, <1>7 DEF At, SlotInv, InsertSlot, IssuingSlot, MailSlot, MoveSlot,
                               MarkSlot, ConsumeSlot
<1> QED
  BY <1>1, <1>4, <1>6, <1>8, Assemble

\* The token is one that nobody owned: no slot and no mail is about it.
LEMMA CreateTokenStep ==
  ASSUME EInv, NEW r \in Slots, CreateToken(r)
  PROVE  EInv'
<1>1. At(r, "create") /\ ~At(r, "idle")
  BY DEF CreateToken, At
<1>2. UNCHANGED <<accounts, mailedTo, claims, faults, proved>>
  BY DEF CreateToken
<1>3. PICK t \in TokenIds :
        /\ tokens[t].user = NoUser
        /\ tokens' = [tokens EXCEPT ![t] = Created(req[r].user, req[r].type,
                                                   req[r].address)]
        /\ req' = [req EXCEPT ![r].pc = "mail", ![r].token = t]
  BY DEF CreateToken, Lowest, Unissued, Issued
<1> DEFINE u == req[r].user
           k == req[r].type
           a == req[r].address
           c == Created(u, k, a)
<1>4. /\ u \in Users /\ k \in Types /\ a \in Addresses
      /\ k = "REGISTRATION" => a \in claims[u]
  BY <1>1, SlotTyped DEF At, SlotInv, IssuingSlot, Slot
<1>5. /\ c \in Token /\ c.user = u /\ c.type = k
      /\ k = "EMAIL_CHANGE" => c.newEmail = a
  BY <1>4 DEF Created, Token
<1>6. mailedTo[t] = NoAddress /\ mailedTo'[t] = NoAddress
  BY <1>2, <1>3, NoUserAssumption, Rows DEF RowsInv, MailedInv
<1>7. tokens \in [TokenIds -> Token]
  BY DEF EInv, TypeOK
<1> HIDE DEF c
<1>8. /\ tokens' \in [TokenIds -> Token]
      /\ tokens'[t] = c
      /\ \A s \in TokenIds \ {t} : tokens'[s] = tokens[s]
  BY <1>3, <1>5, <1>7 DEF c
<1>9. Frame /\ RowsInv'
  <2>1. Frame
    BY <1>2, <1>3, <1>6, <1>8, NoUserAssumption DEF Frame, accounts, Registered
  <2>2. RowsTyped'
    BY <1>2, <1>4, <1>5, <1>8, NoAddressAssumption, Rows DEF RowsInv, RowsTyped, accounts
  <2>3. \A s \in TokenIds : MailedInv(s)'
    BY <1>2, <1>6, <1>8, Rows DEF RowsInv, MailedInv
  <2>4. (\A v \in Users : UserInv(v)') /\ AddressesApart'
    BY <1>2, Rows DEF RowsInv, UserInv, AddressesApart, Registered, accounts
  <2> QED
    BY <2>1, <2>2, <2>3, <2>4 DEF RowsInv
<1>10. PICK q \in Slot :
         /\ q.pc = "mail" /\ q.user = u /\ q.type = k /\ q.address = a /\ q.token = t
         /\ req' = [req EXCEPT ![r] = q]
  <2> DEFINE e == [req[r] EXCEPT !.pc = "mail", !.token = t]
  <2>1. e \in Slot /\ e.pc = "mail" /\ e.user = u /\ e.type = k /\ e.address = a /\ e.token = t
    BY SlotTyped DEF Slot, PCs
  <2>2. req' = [req EXCEPT ![r] = e]
    BY <1>3 DEF EInv, TypeOK, Slot
  <2> HIDE DEF e
  <2> QED
    BY <2>1, <2>2
<1> HIDE DEF u, k, a
<1>12. SlotInv(q)'
  BY <1>2, <1>4, <1>5, <1>8, <1>10
     DEF SlotInv, InsertSlot, IssuingSlot, MailSlot, MoveSlot, MarkSlot, ConsumeSlot, TokenIsFor
<1> QED
  BY <1>1, <1>9, <1>10, <1>12, Assemble

\* The mail of a change goes to the address the token is for.
LEMMA SendMailStep ==
  ASSUME EInv, NEW r \in Slots, SendMail(r)
  PROVE  EInv'
<1> DEFINE t == req[r].token
           a == req[r].address
<1>1. At(r, "mail") /\ ~At(r, "idle")
  BY DEF SendMail, At
<1>2. UNCHANGED <<accounts, tokens, claims, faults, proved>> /\ Done(r)
  BY DEF SendMail
<1>3. /\ t \in TokenIds /\ a \in Addresses /\ tokens[t].user \in Users
      /\ tokens[t].type = "EMAIL_CHANGE" => tokens[t].newEmail = a
      /\ tokens[t].type = "REGISTRATION" => a \in claims[tokens[t].user]
  BY <1>1, SlotTyped DEF At, SlotInv, IssuingSlot, MailSlot, TokenIsFor
<1>4. mailedTo' = [mailedTo EXCEPT ![t] = a]
  BY DEF SendMail, MailTo
<1> HIDE DEF t, a
<1>5. Frame
  BY <1>2, <1>3, <1>4, Rows DEF RowsInv, RowsTyped, MailedInv, Frame, accounts, Registered
<1>6. RowsTyped'
  BY <1>2, <1>3, <1>4, Rows DEF RowsInv, RowsTyped, accounts
<1>7. \A s \in TokenIds : MailedInv(s)'
  BY <1>2, <1>3, <1>4, Rows DEF RowsInv, RowsTyped, MailedInv
<1>8. (\A v \in Users : UserInv(v)') /\ AddressesApart'
  BY <1>2, Rows DEF RowsInv, UserInv, AddressesApart, Registered, accounts
<1> QED
  BY <1>1, <1>2, <1>5, <1>6, <1>7, <1>8, DoneStep DEF RowsInv

LEMMA CheckTakenStep ==
  ASSUME EInv, NEW r \in Slots, CheckTaken(r)
  PROVE  EInv'
<1>1. At(r, "taken") /\ ~At(r, "idle")
  BY DEF CheckTaken, At
<1>2. Frame /\ RowsInv'
  BY RowsSame DEF CheckTaken
<1>3. CASE Done(r)
  BY <1>1, <1>2, <1>3, DoneStep
<1>4. CASE Goto(r, "update")
  <2>1. PICK q \in Slot :
          /\ q.pc = "update" /\ q.user = req[r].user
          /\ q.address = req[r].address /\ q.token = req[r].token
          /\ req' = [req EXCEPT ![r] = q]
    BY <1>4, GotoStep DEF PCs
  <2>2. MoveSlot(req[r]) /\ UNCHANGED <<tokens, mailedTo, proved>>
    BY SlotTyped DEF SlotInv, CheckTaken
  <2>3. SlotInv(q)'
    BY <1>1, <2>1, <2>2 DEF At, SlotInv, InsertSlot, IssuingSlot, MailSlot, MoveSlot,
                            MarkSlot, ConsumeSlot, TokenIsFor
  <2> QED
    BY <1>1, <1>2, <2>1, <2>3, Assemble
<1> QED
  BY <1>3, <1>4 DEF CheckTaken

\* An account moves to an address it has proved, which nobody else has.
LEMMA UpdateEmailStep ==
  ASSUME EInv, NEW r \in Slots, UpdateEmail(r)
  PROVE  EInv'
<1> DEFINE u == req[r].user
           a == req[r].address
<1>1. At(r, "update") /\ ~At(r, "idle")
  BY DEF UpdateEmail, At
<1>2. MoveSlot(req[r]) /\ UNCHANGED <<tokens, mailedTo, faults, proved>>
  BY SlotTyped DEF SlotInv, UpdateEmail
<1>3. u \in Users /\ a \in Addresses /\ <<u, a>> \in proved
  BY <1>1, <1>2 DEF At, MoveSlot, TokenIsFor
<1>4. CASE Refused(u, a)
  <2>1. Done(r) /\ UNCHANGED <<accounts, claims>>
    BY <1>4 DEF UpdateEmail
  <2>2. Frame /\ RowsInv'
    BY <1>2, <2>1, RowsSame
  <2> QED
    BY <1>1, <2>1, <2>2, DoneStep
<1>5. CASE ~Refused(u, a)
  <2>1. /\ email' = [email EXCEPT ![u] = a]
        /\ verified' = [verified EXCEPT ![u] = TRUE]
        /\ claims' = [claims EXCEPT ![u] = @ \cup {a}]
        /\ Goto(r, "consume")
    BY <1>5 DEF UpdateEmail
  <2>2. PICK q \in Slot :
          /\ q.pc = "consume" /\ q.user = u /\ q.token = req[r].token
          /\ req' = [req EXCEPT ![r] = q]
    BY <2>1, GotoStep DEF PCs
  <2>3. q.token \in TokenIds /\ tokens[q.token].user = u
    BY <1>1, <1>2, <2>2 DEF At, MoveSlot, TokenIsFor
  <2>4. \A v \in Users \ {u} : email[v] # a
    BY <1>5 DEF Refused
  <2> HIDE DEF u, a
  <2>5. /\ email \in [Users -> Addresses \cup {NoAddress}]
        /\ verified \in [Users -> BOOLEAN]
        /\ claims \in [Users -> SUBSET Addresses]
    BY DEF EInv, TypeOK
  <2>6. /\ email'[u] = a /\ verified'[u] /\ claims'[u] = claims[u] \cup {a}
        /\ \A v \in Users \ {u} : /\ email'[v] = email[v] /\ verified'[v] = verified[v]
                                  /\ claims'[v] = claims[v]
    BY <1>3, <2>1, <2>5
  <2>7. Frame
    BY <1>2, <1>3, <2>6, NoAddressAssumption DEF Frame, Registered
  <2>8. RowsTyped'
    <3>1. /\ email' \in [Users -> Addresses \cup {NoAddress}]
          /\ verified' \in [Users -> BOOLEAN]
          /\ claims' \in [Users -> SUBSET Addresses]
      BY <1>3, <2>1, <2>5
    <3>2. \A v \in Users : verified'[v] => email'[v] # NoAddress
      BY <1>3, <2>6, NoAddressAssumption, Rows DEF RowsInv, RowsTyped
    <3> QED
      BY <1>2, <3>1, <3>2, Rows DEF RowsInv, RowsTyped
  <2>9. \A s \in TokenIds : MailedInv(s)'
    BY <1>2, <2>6, Rows DEF RowsInv, MailedInv
  <2>10. \A v \in Users : UserInv(v)'
    BY <1>2, <1>3, <2>6, NoAddressAssumption, Rows DEF RowsInv, UserInv, Registered
  <2>11. AddressesApart'
    BY <1>3, <2>4, <2>6, Rows DEF RowsInv, AddressesApart, Registered
  <2>12. SlotInv(q)'
    BY <1>2, <1>3, <2>2, <2>3, <2>6
       DEF SlotInv, InsertSlot, IssuingSlot, MailSlot, MoveSlot, MarkSlot, ConsumeSlot
  <2> QED
    BY <1>1, <2>2, <2>7, <2>8, <2>9, <2>10, <2>11, <2>12, Assemble DEF RowsInv
<1> QED
  BY <1>4, <1>5

LEMMA MarkEmailVerifiedStep ==
  ASSUME EInv, NEW r \in Slots, MarkEmailVerified(r)
  PROVE  EInv'
<1> DEFINE u == req[r].user
<1>1. At(r, "mark") /\ ~At(r, "idle")
  BY DEF MarkEmailVerified, At
<1>2. /\ UNCHANGED <<email, tokens, mailedTo, claims, faults, proved>>
      /\ verified' = [verified EXCEPT ![u] = TRUE]
  BY DEF MarkEmailVerified
<1>3. /\ u \in Users /\ <<u, email[u]>> \in proved
      /\ req[r].token \in TokenIds /\ tokens[req[r].token].user = u
  BY <1>1, SlotTyped DEF At, SlotInv, MarkSlot
<1>4. PICK q \in Slot :
        /\ q.pc = "consume" /\ q.user = u /\ q.token = req[r].token
        /\ req' = [req EXCEPT ![r] = q]
  BY GotoStep DEF PCs, MarkEmailVerified
<1>5. q.token \in TokenIds /\ tokens[q.token].user = u
  BY <1>3, <1>4
<1>6. email[u] # NoAddress
  BY <1>3, NoAddressAssumption DEF EInv, TypeOK
<1> HIDE DEF u
<1>7. /\ verified' \in [Users -> BOOLEAN]
      /\ verified'[u]
      /\ \A v \in Users \ {u} : verified'[v] = verified[v]
  BY <1>2, <1>3, Rows DEF RowsInv, RowsTyped
<1>8. Frame
  BY <1>2, <1>7 DEF Frame, Registered
<1>9. RowsTyped'
  BY <1>2, <1>6, <1>7, Rows DEF RowsInv, RowsTyped
<1>10. \A s \in TokenIds : MailedInv(s)'
  BY <1>2, Rows DEF RowsInv, MailedInv
<1>11. (\A v \in Users : UserInv(v)') /\ AddressesApart'
  BY <1>2, <1>3, <1>7, Rows DEF RowsInv, UserInv, AddressesApart, Registered
<1>12. SlotInv(q)'
  BY <1>2, <1>3, <1>4, <1>5, <1>7
     DEF SlotInv, InsertSlot, IssuingSlot, MailSlot, MoveSlot, MarkSlot, ConsumeSlot
<1> QED
  BY <1>1, <1>4, <1>8, <1>9, <1>10, <1>11, <1>12, Assemble DEF RowsInv

LEMMA MarkConsumedStep ==
  ASSUME EInv, NEW r \in Slots, MarkConsumed(r)
  PROVE  EInv'
<1> DEFINE t == req[r].token
<1>1. At(r, "consume") /\ ~At(r, "idle")
  BY DEF MarkConsumed, At
<1>2. UNCHANGED <<accounts, mailedTo, claims, faults, proved>> /\ Done(r)
  BY DEF MarkConsumed
<1>3. t \in TokenIds
  BY <1>1, SlotTyped DEF At, SlotInv, ConsumeSlot
<1>4. tokens' = [tokens EXCEPT ![t].consumed = TRUE]
  BY DEF MarkConsumed
<1> HIDE DEF t
<1>5. /\ tokens' \in [TokenIds -> Token]
      /\ \A s \in TokenIds : /\ tokens'[s].user = tokens[s].user
                             /\ tokens'[s].type = tokens[s].type
                             /\ tokens'[s].newEmail = tokens[s].newEmail
  BY <1>3, <1>4, Rows DEF RowsInv, RowsTyped, Token
<1>6. Frame
  BY <1>2, <1>5 DEF Frame, accounts, Registered
<1>7. RowsTyped'
  BY <1>2, <1>5, Rows DEF RowsInv, RowsTyped, accounts
<1>8. \A s \in TokenIds : MailedInv(s)'
  BY <1>2, <1>5, Rows DEF RowsInv, MailedInv
<1>9. (\A v \in Users : UserInv(v)') /\ AddressesApart'
  BY <1>2, Rows DEF RowsInv, UserInv, AddressesApart, Registered, accounts
<1> QED
  BY <1>1, <1>2, <1>6, <1>7, <1>8, <1>9, DoneStep DEF RowsInv

LEMMA AbortStep ==
  ASSUME EInv, NEW r \in Slots, Abort(r)
  PROVE  EInv'
<1>1. /\ faults' \in 0 .. MaxFaults
      /\ proved \subseteq proved' /\ proved' \subseteq Users \X Addresses
  BY EmailBounds DEF Abort, EInv, TypeOK
<1> QED
  BY <1>1, RowsKept, DoneStep DEF Abort

\* A registration takes a row that nobody uses: it has no address, no claims, and
\* its listener's slot is free.
LEMMA InsertUserStep ==
  ASSUME EInv, NEW r \in Slots, InsertUser(r)
  PROVE  EInv'
<1> DEFINE a == req[r].address
           fresh == {u \in Users : ~Registered(u)}
<1>1. At(r, "insert") /\ ~At(r, "idle")
  BY DEF InsertUser, At
<1>2. UNCHANGED <<verified, tokens, mailedTo, faults, proved>>
  BY DEF InsertUser
<1>3. a \in Addresses
  BY <1>1, SlotTyped DEF At, SlotInv, InsertSlot
<1>4. CASE Done(r) /\ UNCHANGED <<email, claims>>
  <2>1. Frame /\ RowsInv'
    BY <1>2, <1>4, RowsSame DEF accounts
  <2> QED
    BY <1>1, <1>4, <2>1, DoneStep
<1>5. ASSUME NEW u \in fresh,
             ~Refused(NoUser, a),
             email' = [email EXCEPT ![u] = a],
             claims' = [claims EXCEPT ![u] = {a}],
             req' = [req EXCEPT ![r] = Idle,
                                ![u] = [Idle EXCEPT !.pc = "send", !.user = u,
                                                    !.address = a]]
      PROVE  EInv'
  <2>1. u \in Users /\ u \in Slots /\ email[u] = NoAddress
    BY DEF Registered, Slots
  <2>2. claims[u] = {} /\ ~verified[u] /\ At(u, "idle")
    BY <2>1, Rows DEF EInv, ListenersInv, RowsInv, RowsTyped, UserInv, Registered
  <2>3. \A v \in Users : email[v] # a
    BY <1>5, NoUserAssumption DEF Refused
  <2>4. u # r
    BY <1>1, <2>2
  <2>5. PICK q \in Slot :
          /\ q.pc = "send" /\ q.user = u /\ q.address = a
          /\ req' = [req EXCEPT ![r] = Idle, ![u] = q]
    <3> DEFINE e == [Idle EXCEPT !.pc = "send", !.user = u, !.address = a]
    <3>1. e \in Slot /\ e.pc = "send" /\ e.user = u /\ e.address = a
      BY <1>3, <2>1 DEF Idle, Slot, PCs, Types
    <3>2. req' = [req EXCEPT ![r] = Idle, ![u] = e]
      BY <1>5
    <3> HIDE DEF e
    <3> QED
      BY <3>1, <3>2
  <2> HIDE DEF a
  <2>6. /\ email \in [Users -> Addresses \cup {NoAddress}]
        /\ claims \in [Users -> SUBSET Addresses]
        /\ req \in [Slots -> Slot]
    BY DEF EInv, TypeOK
  <2>7. /\ email'[u] = a /\ claims'[u] = {a}
        /\ \A v \in Users \ {u} : email'[v] = email[v] /\ claims'[v] = claims[v]
    BY <1>5, <2>1, <2>6
  <2>8. Frame
    BY <1>2, <1>3, <2>1, <2>2, <2>7, NoAddressAssumption, Rows
       DEF Frame, Registered, RowsInv, RowsTyped
  <2>9. RowsTyped'
    <3>1. /\ email' \in [Users -> Addresses \cup {NoAddress}]
          /\ claims' \in [Users -> SUBSET Addresses]
      BY <1>3, <1>5, <2>6
    <3>2. \A v \in Users : verified'[v] => email'[v] # NoAddress
      BY <1>2, <2>2, <2>7, Rows DEF RowsInv, RowsTyped
    <3> QED
      BY <1>2, <3>1, <3>2, Rows DEF RowsInv, RowsTyped
  <2>10. \A t \in TokenIds : MailedInv(t)'
    BY <1>2, <2>2, <2>7, Rows DEF RowsInv, MailedInv
  <2>11. \A v \in Users : UserInv(v)'
    BY <1>2, <1>3, <2>1, <2>2, <2>7, NoAddressAssumption, Rows DEF RowsInv, UserInv, Registered
  <2>12. AddressesApart'
    BY <2>3, <2>7, Rows DEF RowsInv, AddressesApart, Registered
  <2>13. SlotInv(q)'
    BY <1>3, <2>1, <2>5, <2>7
       DEF SlotInv, InsertSlot, IssuingSlot, MailSlot, MoveSlot, MarkSlot, ConsumeSlot
  <2>14. SlotInv(Idle)'
    BY IdleTyped DEF SlotInv, InsertSlot, IssuingSlot, MailSlot, MoveSlot, MarkSlot, ConsumeSlot
  <2>15. /\ req' \in [Slots -> Slot]
         /\ req'[u] = q /\ req'[r] = Idle
         /\ \A s \in Slots \ {r, u} : req'[s] = req[s]
    BY <2>1, <2>4, <2>5, <2>6, IdleTyped
  <2>16. ASSUME NEW s \in Slots
         PROVE  SlotInv(req[s])'
    <3>1. CASE s = u
      BY <2>13, <2>15, <3>1
    <3>2. CASE s = r
      BY <2>14, <2>15, <3>2
    <3>3. CASE s \notin {r, u}
      <4>1. req'[s] = req[s] /\ req[s] \in Slot /\ SlotInv(req[s])
        BY <2>15, <3>3, SlotTyped
      <4> QED
        BY <2>8, <4>1, SlotKept
    <3> QED
      BY <3>1, <3>2, <3>3
  <2>17. ListenersInv'
    <3> SUFFICES ASSUME NEW v \in Users, ~Registered(v)'
                 PROVE  At(v, "idle")'
      BY DEF ListenersInv
    <3>1. v # u /\ ~Registered(v)
      BY <1>3, <2>7, NoAddressAssumption DEF Registered
    <3>2. At(v, "idle")
      BY <3>1 DEF EInv, ListenersInv
    <3>3. v # r /\ v \in Slots
      BY <1>1, <3>2 DEF Slots
    <3> QED
      BY <2>15, <3>1, <3>2, <3>3 DEF At
  <2> QED
    BY <2>9, <2>10, <2>11, <2>12, <2>15, <2>16, <2>17 DEF EInv, TypeOK, RowsTyped
<1> QED
  BY <1>4, <1>5 DEF InsertUser

-----------------------------------------------------------------------------
(* The theorems.                                                            *)

LEMMA InitEInv == Init => EInv
<1> SUFFICES ASSUME Init PROVE EInv
  OBVIOUS
<1>1. TypeOK
  BY IdleTyped, EmailBounds DEF Init, TypeOK, NoToken, Token, Types
<1>2. \A r \in Slots : SlotInv(req[r])
  BY IdleInv DEF Init
<1>3. (\A t \in TokenIds : MailedInv(t)) /\ (\A u \in Users : UserInv(u))
  BY DEF Init, MailedInv, UserInv, Registered
<1>4. ListenersInv /\ AddressesApart
  BY IdleTyped DEF Init, ListenersInv, AddressesApart, Registered, At, Slots
<1> QED
  BY <1>1, <1>2, <1>3, <1>4 DEF EInv

LEMMA UnchangedEInv == EInv /\ UNCHANGED vars => EInv'
  BY DEF EInv, TypeOK, vars, SlotInv, InsertSlot, IssuingSlot, MailSlot, MoveSlot, MarkSlot,
         ConsumeSlot, TokenIsFor, MailedInv, UserInv, ListenersInv, AddressesApart, Registered, At

LEMMA EInvStep == EInv /\ [Next]_vars => EInv'
<1> SUFFICES ASSUME EInv, [Next]_vars PROVE EInv'
  OBVIOUS
<1>1. ASSUME NEW r \in Slots, Step(r) PROVE EInv'
  BY <1>1, InsertUserStep, SendRegistrationVerificationStep, InvalidateOutstandingStep,
     CreateTokenStep, SendMailStep, CheckTakenStep, UpdateEmailStep, MarkEmailVerifiedStep,
     MarkConsumedStep DEF Step
<1>2. ASSUME NEW r \in Reqs, Call(r) PROVE EInv'
  BY <1>2, RegisterStep, ResendStep, RequestEmailChangeStep, VerifyStep DEF Call
<1>3. ASSUME NEW r \in Slots, Abort(r) PROVE EInv'
  BY <1>3, AbortStep
<1>4. CASE UNCHANGED vars
  BY <1>4, UnchangedEInv
<1> QED
  BY <1>1, <1>2, <1>3, <1>4 DEF Next, Quiet

LEMMA EInvAlways == Spec => []EInv
  BY InitEInv, EInvStep, PTL DEF Spec

\* Rows, slots and history keep their types; only a registered user is verified, and
\* a change of address names the new one.
THEOREM EmailTypeCorrect == Spec => []TypeOK
<1>1. EInv => TypeOK
  BY DEF EInv
<1> QED
  BY <1>1, EInvAlways, PTL

\* However many users, requests and addresses race past findByEmail, no two accounts
\* end up with one address (auth.service.ts:44-55, email-verification.service.ts:70-74).
THEOREM NoSharedAddress == Spec => []AddressesApart
<1>1. EInv => AddressesApart
  BY DEF EInv
<1> QED
  BY <1>1, EInvAlways, PTL

\* A verified account belongs to somebody who received mail at the address it has now
\* (email-verification.service.ts:65-78, users.repository.ts:34-39, 80-85).
THEOREM OnlyProvedVerified == Spec => []VerifiedIsProved
<1>1. EInv => VerifiedIsProved
  BY DEF EInv, UserInv, VerifiedIsProved
<1> QED
  BY <1>1, EInvAlways, PTL

\* Only its own confirmation moves an account to another address: a request with a link
\* issued to change the address of this user, and mailed to the address it moves to.
THEOREM OnlyConfirmedMoves == Spec => MovesWhenConfirmed
<1>1. EInv /\ [Next]_vars =>
        [\A u \in Users : Registered(u) /\ email'[u] # email[u] =>
           \E r \in Slots, t \in TokenIds : /\ At(r, "update") /\ req[r].token = t
                                            /\ tokens[t].user = u
                                            /\ tokens[t].type = "EMAIL_CHANGE"
                                            /\ mailedTo[t] = email'[u]]_vars
  <2> SUFFICES ASSUME EInv, Next, NEW u \in Users, Registered(u), email'[u] # email[u]
               PROVE  \E r \in Slots, t \in TokenIds : /\ At(r, "update") /\ req[r].token = t
                                                       /\ tokens[t].user = u
                                                       /\ tokens[t].type = "EMAIL_CHANGE"
                                                       /\ mailedTo[t] = email'[u]
    OBVIOUS
  <2>1. ASSUME NEW q \in Slots, UpdateEmail(q)
        PROVE  \E r \in Slots, t \in TokenIds : /\ At(r, "update") /\ req[r].token = t
                                                /\ tokens[t].user = u
                                                /\ tokens[t].type = "EMAIL_CHANGE"
                                                /\ mailedTo[t] = email'[u]
    <3>1. MoveSlot(req[q]) /\ At(q, "update")
      BY <2>1, SlotTyped DEF SlotInv, UpdateEmail
    <3>2. email' = [email EXCEPT ![req[q].user] = req[q].address]
      BY <2>1 DEF UpdateEmail, accounts
    <3>3. req[q].user = u /\ email'[u] = req[q].address
      BY <3>2 DEF EInv, TypeOK
    <3>4. /\ req[q].token \in TokenIds /\ tokens[req[q].token].user = u
          /\ tokens[req[q].token].type = "EMAIL_CHANGE"
          /\ mailedTo[req[q].token] = email'[u]
      BY <3>1, <3>3 DEF At, MoveSlot, TokenIsFor
    <3> QED
      BY <3>1, <3>4
  <2>2. ASSUME NEW r \in Slots, InsertUser(r)
        PROVE  FALSE
    <3>1. \A v \in Users : ~Registered(v) => v # u
      OBVIOUS
    <3> QED
      BY <2>2, <3>1 DEF InsertUser, EInv, TypeOK
  <2>3. ASSUME NEW r \in Slots, Step(r), ~UpdateEmail(r), ~InsertUser(r)
        PROVE  email' = email
    BY <2>3 DEF Step, SendRegistrationVerification, InvalidateOutstanding, CreateToken,
                SendMail, CheckTaken, MarkEmailVerified, MarkConsumed, accounts
  <2>4. ASSUME NEW r \in Reqs, Call(r)
        PROVE  email' = email
    BY <2>4 DEF Call, Register, Resend, RequestEmailChange, Verify, accounts
  <2>5. ASSUME NEW r \in Slots, Abort(r)
        PROVE  email' = email
    BY <2>5 DEF Abort, accounts
  <2> QED
    BY <2>1, <2>2, <2>3, <2>4, <2>5 DEF Next, Quiet, vars
<1> QED
  BY <1>1, EInvAlways, PTL DEF Spec, MovesWhenConfirmed

-----------------------------------------------------------------------------
(* Everybody registered has a working link.                                 *)

\* A step of a slot that is not issuing a token, and consumes none of the user's:
\* what the user has stays.
LEMMA LinkKept ==
  ASSUME NEW u \in Users, Linked(u), NEW r \in Slots,
         req \in [Slots -> Slot],
         req[r].pc \notin {"send", "invalidate", "create", "mail"},
         \A s \in Slots \ {r} : req[s].pc \in {"send", "invalidate", "create", "mail"} =>
                                  req'[s] = req[s],
         verified[u] => verified'[u],
         \A t \in TokenIds : tokens[t].user = u => tokens'[t] = tokens[t],
         \A t \in TokenIds : mailedTo[t] # NoAddress => mailedTo'[t] # NoAddress
  PROVE  Linked(u)'
<1>1. CASE verified[u]
  BY <1>1 DEF Linked
<1>2. CASE HasLink(u)
  <2>1. PICK t \in TokenIds :
          /\ tokens[t].user = u /\ tokens[t].type = "REGISTRATION" /\ ~tokens[t].consumed
          /\ mailedTo[t] # NoAddress \/ \E s \in Slots : At(s, "mail") /\ req[s].token = t
    BY <1>2 DEF HasLink
  <2>2. tokens'[t] = tokens[t]
    BY <2>1
  <2>3. mailedTo'[t] # NoAddress \/ \E s \in Slots : At(s, "mail")' /\ req'[s].token = t
    BY <2>1 DEF At
  <2> QED
    BY <2>1, <2>2, <2>3 DEF Linked, HasLink
<1>3. ASSUME NEW s \in Slots, WillCreate(s, u)
      PROVE  Linked(u)'
  BY <1>3 DEF WillCreate, Linked
<1> QED
  BY <1>1, <1>2, <1>3 DEF Linked

LEMMA InsertUserLinks ==
  ASSUME EInv, LinkInv, faults = 0, NEW r \in Slots, InsertUser(r),
         NEW v \in Users, Registered(v)'
  PROVE  Linked(v)'
<1>1. At(r, "insert") /\ UNCHANGED <<verified, tokens, mailedTo>>
  BY DEF InsertUser
<1>2. req \in [Slots -> Slot]
  BY DEF EInv, TypeOK
<1>3. CASE Done(r) /\ email' = email
  <2>1. Linked(v)
    BY <1>3 DEF LinkInv, Registered
  <2> QED
    BY <1>1, <1>2, <1>3, <2>1, LinkKept DEF At, Done
<1>4. ASSUME NEW u \in Users, ~Registered(u),
             email' = [email EXCEPT ![u] = req[r].address],
             req' = [req EXCEPT ![r] = Idle,
                                ![u] = [Idle EXCEPT !.pc = "send", !.user = u,
                                                    !.address = req[r].address]]
      PROVE  Linked(v)'
  <2>1. At(u, "idle") /\ u \in Slots
    BY <1>4 DEF EInv, ListenersInv, Slots
  <2>2. CASE v = u
    <3>1. req'[u] = [Idle EXCEPT !.pc = "send", !.user = u, !.address = req[r].address]
      BY <1>2, <1>4, <2>1
    <3>2. WillCreate(u, u)'
      BY <3>1 DEF WillCreate, Idle
    <3> QED
      BY <2>1, <2>2, <3>2 DEF Linked
  <2>3. CASE v # u
    <3>1. Linked(v)
      BY <1>4, <2>3 DEF LinkInv, Registered, EInv, TypeOK
    <3>2. \A s \in Slots \ {r} : req[s].pc \in {"send", "invalidate", "create", "mail"} =>
                                   req'[s] = req[s]
      BY <1>2, <1>4, <2>1 DEF At
    <3> QED
      BY <1>1, <1>2, <3>1, <3>2, LinkKept DEF At
  <2> QED
    BY <2>2, <2>3
<1> QED
  BY <1>3, <1>4 DEF InsertUser

\* Who is turned away here is verified; the others go on to invalidate.
LEMMA SendRegistrationVerificationLinks ==
  ASSUME EInv, NEW r \in Slots, SendRegistrationVerification(r), NEW v \in Users, Linked(v)
  PROVE  Linked(v)'
<1>1. At(r, "send") /\ UNCHANGED <<verified, tokens, mailedTo>>
  BY DEF SendRegistrationVerification, accounts
<1>2. req \in [Slots -> Slot]
  BY DEF EInv, TypeOK
<1>3. req' \in [Slots -> Slot] /\ \A s \in Slots \ {r} : req'[s] = req[s]
  BY <1>2, IdleTyped DEF SendRegistrationVerification, Done, Goto, Slot, PCs
<1>4. CASE verified[v]
  BY <1>1, <1>4 DEF Linked
<1>5. CASE HasLink(v)
  <2>1. PICK t \in TokenIds :
          /\ tokens[t].user = v /\ tokens[t].type = "REGISTRATION" /\ ~tokens[t].consumed
          /\ mailedTo[t] # NoAddress \/ \E s \in Slots : At(s, "mail") /\ req[s].token = t
    BY <1>5 DEF HasLink
  <2>2. mailedTo'[t] # NoAddress \/ \E s \in Slots : At(s, "mail")' /\ req'[s].token = t
    BY <1>1, <1>3, <2>1 DEF At
  <2> QED
    BY <1>1, <2>1, <2>2 DEF Linked, HasLink
<1>6. ASSUME NEW s \in Slots, WillCreate(s, v), ~verified[v]
      PROVE  Linked(v)'
  <2>1. CASE s = r
    <3>1. Goto(r, "invalidate")
      BY <1>6, <2>1 DEF WillCreate, SendRegistrationVerification
    <3>2. WillCreate(r, v)'
      BY <1>2, <1>6, <2>1, <3>1 DEF Goto, WillCreate, Slot
    <3> QED
      BY <3>2 DEF Linked
  <2>2. CASE s # r
    BY <1>3, <1>6, <2>2 DEF WillCreate, Linked
  <2> QED
    BY <2>1, <2>2
<1> QED
  BY <1>4, <1>5, <1>6 DEF Linked

\* Who takes a link away by invalidating it goes on to create another.
LEMMA InvalidateOutstandingLinks ==
  ASSUME EInv, NEW r \in Slots, InvalidateOutstanding(r), NEW v \in Users, Linked(v)
  PROVE  Linked(v)'
<1>1. /\ At(r, "invalidate") /\ UNCHANGED <<verified, mailedTo>>
      /\ \A t \in TokenIds : tokens'[t] = Invalidated(tokens[t], req[r].user, req[r].type)
  BY DEF InvalidateOutstanding, accounts
<1>2. req \in [Slots -> Slot]
  BY DEF EInv, TypeOK
<1>3. /\ \A s \in Slots \ {r} : req'[s] = req[s]
      /\ req'[r].pc = "create" /\ req'[r].user = req[r].user /\ req'[r].type = req[r].type
  BY <1>2 DEF InvalidateOutstanding, Goto, Slot
<1>4. CASE verified[v]
  BY <1>1, <1>4 DEF Linked
<1>5. CASE req[r].user = v /\ req[r].type = "REGISTRATION"
  BY <1>3, <1>5 DEF WillCreate, Linked
<1>6. CASE HasLink(v) /\ ~(req[r].user = v /\ req[r].type = "REGISTRATION")
  <2>1. PICK t \in TokenIds :
          /\ tokens[t].user = v /\ tokens[t].type = "REGISTRATION" /\ ~tokens[t].consumed
          /\ mailedTo[t] # NoAddress \/ \E s \in Slots : At(s, "mail") /\ req[s].token = t
    BY <1>6 DEF HasLink
  <2>2. tokens'[t] = tokens[t]
    BY <1>1, <1>6, <2>1 DEF Invalidated
  <2>3. mailedTo'[t] # NoAddress \/ \E s \in Slots : At(s, "mail")' /\ req'[s].token = t
    BY <1>1, <1>3, <2>1 DEF At
  <2> QED
    BY <2>1, <2>2, <2>3 DEF Linked, HasLink
<1>7. ASSUME NEW s \in Slots, WillCreate(s, v),
             ~(req[r].user = v /\ req[r].type = "REGISTRATION")
      PROVE  Linked(v)'
  BY <1>3, <1>7 DEF WillCreate, Linked
<1> QED
  BY <1>4, <1>5, <1>6, <1>7 DEF Linked

\* A new row takes the place of no link; its own is about to be mailed.
LEMMA CreateTokenLinks ==
  ASSUME EInv, NEW r \in Slots, CreateToken(r), NEW v \in Users, Linked(v)
  PROVE  Linked(v)'
<1>1. At(r, "create") /\ UNCHANGED <<verified, mailedTo>>
  BY DEF CreateToken, accounts
<1>2. PICK t \in TokenIds :
        /\ tokens[t].user = NoUser
        /\ tokens' = [tokens EXCEPT ![t] = Created(req[r].user, req[r].type,
                                                   req[r].address)]
        /\ req' = [req EXCEPT ![r].pc = "mail", ![r].token = t]
  BY DEF CreateToken, Lowest, Unissued, Issued
<1>3. req \in [Slots -> Slot] /\ tokens \in [TokenIds -> Token]
  BY DEF EInv, TypeOK
<1>4. /\ \A s \in Slots \ {r} : req'[s] = req[s]
      /\ req'[r].pc = "mail" /\ req'[r].token = t
  BY <1>2, <1>3 DEF Slot
<1>5. /\ tokens'[t] = Created(req[r].user, req[r].type, req[r].address)
      /\ \A s \in TokenIds \ {t} : tokens'[s] = tokens[s]
  BY <1>2, <1>3
<1>6. CASE verified[v]
  BY <1>1, <1>6 DEF Linked
<1>7. CASE HasLink(v)
  <2>1. PICK k \in TokenIds :
          /\ tokens[k].user = v /\ tokens[k].type = "REGISTRATION" /\ ~tokens[k].consumed
          /\ mailedTo[k] # NoAddress \/ \E s \in Slots : At(s, "mail") /\ req[s].token = k
    BY <1>7 DEF HasLink
  <2>2. tokens'[k] = tokens[k]
    BY <1>2, <1>5, <2>1, NoUserAssumption
  <2>3. mailedTo'[k] # NoAddress \/ \E s \in Slots : At(s, "mail")' /\ req'[s].token = k
    BY <1>1, <1>4, <2>1 DEF At
  <2> QED
    BY <2>1, <2>2, <2>3 DEF Linked, HasLink
<1>8. ASSUME NEW s \in Slots, WillCreate(s, v)
      PROVE  Linked(v)'
  <2>1. CASE s = r
    <3>1. /\ tokens'[t].user = v /\ tokens'[t].type = "REGISTRATION"
          /\ ~tokens'[t].consumed
      BY <1>5, <1>8, <2>1 DEF WillCreate, Created
    <3>2. At(r, "mail")' /\ req'[r].token = t
      BY <1>4 DEF At
    <3> QED
      BY <3>1, <3>2 DEF Linked, HasLink
  <2>2. CASE s # r
    BY <1>4, <1>8, <2>2 DEF WillCreate, Linked
  <2> QED
    BY <2>1, <2>2
<1> QED
  BY <1>6, <1>7, <1>8 DEF Linked

LEMMA SendMailLinks ==
  ASSUME EInv, NEW r \in Slots, SendMail(r), NEW v \in Users, Linked(v)
  PROVE  Linked(v)'
<1>1. At(r, "mail") /\ UNCHANGED <<verified, tokens>>
  BY DEF SendMail, accounts
<1>2. req[r].address \in Addresses
  BY <1>1, SlotTyped DEF At, SlotInv, IssuingSlot
<1>3. \A t \in TokenIds : mailedTo[t] # NoAddress \/ t = req[r].token => mailedTo'[t] # NoAddress
  BY <1>2, NoAddressAssumption DEF SendMail, MailTo, EInv, TypeOK
<1>4. \A s \in Slots \ {r} : req'[s] = req[s]
  BY DEF SendMail, Done, EInv, TypeOK
<1>5. CASE verified[v]
  BY <1>1, <1>5 DEF Linked
<1>6. CASE HasLink(v)
  <2>1. PICK t \in TokenIds :
          /\ tokens[t].user = v /\ tokens[t].type = "REGISTRATION" /\ ~tokens[t].consumed
          /\ mailedTo[t] # NoAddress \/ \E s \in Slots : At(s, "mail") /\ req[s].token = t
    BY <1>6 DEF HasLink
  <2>2. mailedTo'[t] # NoAddress \/ \E s \in Slots : At(s, "mail")' /\ req'[s].token = t
    BY <1>3, <1>4, <2>1 DEF At
  <2> QED
    BY <1>1, <2>1, <2>2 DEF Linked, HasLink
<1>7. ASSUME NEW s \in Slots, WillCreate(s, v)
      PROVE  Linked(v)'
  BY <1>1, <1>4, <1>7 DEF At, WillCreate, Linked
<1> QED
  BY <1>5, <1>6, <1>7 DEF Linked

\* The owner of a token that is consumed is verified.
LEMMA MarkConsumedLinks ==
  ASSUME EInv, NEW r \in Slots, MarkConsumed(r), NEW v \in Users, Linked(v)
  PROVE  Linked(v)'
<1>1. At(r, "consume") /\ UNCHANGED <<verified, mailedTo>>
  BY DEF MarkConsumed, accounts
<1>2. /\ req[r].token \in TokenIds
      /\ tokens[req[r].token].user = v => verified[v]
  BY <1>1, SlotTyped DEF At, SlotInv, ConsumeSlot
<1>3. CASE verified[v]
  BY <1>1, <1>3 DEF Linked
<1>4. CASE ~verified[v]
  <2>1. \A t \in TokenIds : tokens[t].user = v => tokens'[t] = tokens[t]
    BY <1>2, <1>4 DEF MarkConsumed, EInv, TypeOK
  <2>2. \A s \in Slots \ {r} : req'[s] = req[s]
    BY DEF MarkConsumed, Done, EInv, TypeOK
  <2>3. req \in [Slots -> Slot]
    BY DEF EInv, TypeOK
  <2> QED
    BY <1>1, <2>1, <2>2, <2>3, LinkKept DEF At
<1> QED
  BY <1>3, <1>4

\* The steps that touch no token and issue none.
LEMMA OtherLinks ==
  ASSUME EInv, NEW v \in Users, Linked(v), NEW r \in Slots,
         \/ CheckTaken(r) \/ UpdateEmail(r) \/ MarkEmailVerified(r)
         \/ r \in Reqs /\ Call(r)
  PROVE  Linked(v)'
<1>1. req \in [Slots -> Slot] /\ verified \in [Users -> BOOLEAN]
  BY DEF EInv, TypeOK
<1>2. req[r].pc \notin {"send", "invalidate", "create", "mail"}
  BY DEF CheckTaken, UpdateEmail, MarkEmailVerified, Call, Register, Resend,
         RequestEmailChange, Verify, At
<1>3. \A s \in Slots \ {r} : req'[s] = req[s]
  BY <1>1 DEF CheckTaken, UpdateEmail, MarkEmailVerified, Call, Register, Resend,
              RequestEmailChange, Verify, Done, Goto
<1>4. tokens' = tokens /\ mailedTo' = mailedTo
  BY DEF CheckTaken, UpdateEmail, MarkEmailVerified, Call, Register, Resend,
         RequestEmailChange, Verify
<1>5. verified[v] => verified'[v]
  BY <1>1 DEF CheckTaken, UpdateEmail, MarkEmailVerified, Call, Register, Resend,
              RequestEmailChange, Verify, accounts
<1> QED
  BY <1>1, <1>2, <1>3, <1>4, <1>5, LinkKept

\* Who gets an address was registered before, or is verified with it.
LEMMA UpdateEmailLinks ==
  ASSUME EInv, LinkInv, faults = 0, NEW r \in Slots, UpdateEmail(r),
         NEW v \in Users, Registered(v)'
  PROVE  Linked(v)'
<1>1. MoveSlot(req[r]) /\ At(r, "update")
  BY SlotTyped DEF SlotInv, UpdateEmail
<1>2. CASE email' = email
  <2>1. Linked(v)
    BY <1>2 DEF LinkInv, Registered
  <2> QED
    BY <2>1, OtherLinks
<1>3. CASE email' # email /\ v = req[r].user
  <2>1. verified' = [verified EXCEPT ![v] = TRUE]
    BY <1>3 DEF UpdateEmail, accounts
  <2>2. verified'[v]
    BY <2>1 DEF EInv, TypeOK
  <2> QED
    BY <2>2 DEF Linked
<1>4. CASE email' # email /\ v # req[r].user
  <2>1. email' = [email EXCEPT ![req[r].user] = req[r].address]
    BY <1>4 DEF UpdateEmail, accounts
  <2>2. Linked(v)
    BY <1>4, <2>1 DEF LinkInv, Registered, EInv, TypeOK
  <2> QED
    BY <2>2, OtherLinks
<1> QED
  BY <1>2, <1>3, <1>4

LEMMA LinkStep == EInv /\ LinkInv /\ [Next]_vars => LinkInv'
<1> SUFFICES ASSUME EInv, LinkInv, [Next]_vars, faults' = 0, NEW v \in Users, Registered(v)'
             PROVE  Linked(v)'
  BY DEF LinkInv
<1>1. ASSUME NEW r \in Slots, Abort(r)
      PROVE  FALSE
  BY <1>1 DEF Abort, EInv, TypeOK
<1>2. ASSUME NEW r \in Slots, Step(r)
      PROVE  Linked(v)'
  <2>1. faults = 0
    BY <1>2 DEF Step, InsertUser, SendRegistrationVerification, InvalidateOutstanding,
                CreateToken, SendMail, CheckTaken, UpdateEmail, MarkEmailVerified, MarkConsumed
  <2>2. CASE InsertUser(r)
    BY <2>1, <2>2, InsertUserLinks
  <2>3. CASE UpdateEmail(r)
    BY <2>1, <2>3, UpdateEmailLinks
  <2>4. CASE ~InsertUser(r) /\ ~UpdateEmail(r)
    <3>1. email' = email
      BY <1>2, <2>4 DEF Step, SendRegistrationVerification, InvalidateOutstanding, CreateToken,
                        SendMail, CheckTaken, MarkEmailVerified, MarkConsumed, accounts
    <3>2. Linked(v)
      BY <2>1, <3>1 DEF LinkInv, Registered
    <3> QED
      BY <1>2, <2>4, <3>2, SendRegistrationVerificationLinks, InvalidateOutstandingLinks,
         CreateTokenLinks, SendMailLinks, MarkConsumedLinks, OtherLinks DEF Step
  <2> QED
    BY <2>2, <2>3, <2>4
<1>3. ASSUME NEW r \in Reqs, Call(r)
      PROVE  Linked(v)'
  <2>1. faults = 0 /\ email' = email
    BY <1>3 DEF Call, Register, Resend, RequestEmailChange, Verify, accounts
  <2>2. Linked(v)
    BY <2>1 DEF LinkInv, Registered
  <2> QED
    BY <1>3, <2>2, OtherLinks DEF Slots
<1>4. CASE UNCHANGED vars
  BY <1>4 DEF vars, LinkInv, Linked, HasLink, WillCreate, Registered, At
<1> QED
  BY <1>1, <1>2, <1>3, <1>4 DEF Next, Quiet

\* When nothing is in flight and no request died, everybody registered is verified or
\* has got a link that works, whatever resends, changes of address and registrations
\* overlapped (registration.listener.ts:13-24, email-verification.service.ts:32-39).
THEOREM LinkDelivered == Spec => []RegisteredHasLink
<1>1. Init => LinkInv
  BY DEF Init, LinkInv, Registered
<1>2. LinkInv => RegisteredHasLink
  <2> SUFFICES ASSUME LinkInv, faults = 0, \A r \in Slots : At(r, "idle"),
                      NEW u \in Users, Registered(u), ~verified[u]
               PROVE  \E t \in TokenIds : /\ tokens[t].user = u
                                          /\ tokens[t].type = "REGISTRATION"
                                          /\ ~tokens[t].consumed
                                          /\ mailedTo[t] # NoAddress
    BY DEF RegisteredHasLink
  <2>1. Linked(u)
    BY DEF LinkInv
  <2> QED
    BY <2>1 DEF Linked, HasLink, WillCreate, At
<1> QED
  BY <1>1, <1>2, LinkStep, EInvAlways, PTL DEF Spec

==============================================================================
