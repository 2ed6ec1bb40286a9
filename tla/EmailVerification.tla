-------------------------- MODULE EmailVerification --------------------------
(***************************************************************************)
(* Registration, and the addresses of accounts: AuthService.register up to *)
(* issueSession, RegistrationListener, EmailVerificationService and its    *)
(* repository, with the unique index on users.email.                       *)
(*                                                                         *)
(* As in AuthSessions a request takes one step per awaited query that      *)
(* changes or decides something.  The listener of a registration is called *)
(* by emit, and runs next to the requests from its first await on, in a    *)
(* slot named after the new user.                                          *)
(*                                                                         *)
(* Left out: passwords, names, sessions.                                   *)
(***************************************************************************)
EXTENDS Naturals, FiniteSets

CONSTANTS
    Reqs,       \* slots: how many requests may be in flight at once
    Users,      \* rows of users, registered or not yet
    Addresses,  \* e-mail addresses, in lower case
    NoUser,     \* the owner of a token that does not exist
    NoAddress,  \* the address of a user not registered
    MaxTokens,  \* bound: how many tokens may be created
    MaxFaults   \* bound: how many requests die half way

ASSUME NoUserAssumption == NoUser \notin Users
ASSUME NoAddressAssumption == NoAddress \notin Addresses
ASSUME SlotsAssumption == Reqs \cap Users = {}
ASSUME EmailBounds == MaxTokens \in Nat /\ MaxFaults \in Nat

TokenIds == 1 .. MaxTokens
Slots == Reqs \cup Users
Types == {"REGISTRATION", "EMAIL_CHANGE"}

VARIABLES
    email,     \* users.email
    verified,  \* users.isEmailVerified
    tokens,    \* table email_verification_tokens
    mailedTo,  \* the address that got the mail with a token
    claims,    \* the addresses that JWTs of a user carry: those it has had
    faults,    \* how many requests died
    req,       \* what each slot is doing
    proved     \* history: the user of every token presented, and who got its mail

accounts == <<email, verified>>
vars == <<email, verified, tokens, mailedTo, claims, faults, req, proved>>

-----------------------------------------------------------------------------
NoToken == [user |-> NoUser, type |-> "REGISTRATION", newEmail |-> NoAddress,
            consumed |-> TRUE]

Idle == [pc |-> "idle", user |-> NoUser, type |-> "REGISTRATION",
         address |-> NoAddress, token |-> 0]

PCs == {"idle",
        "insert",                          \* register
        "send", "invalidate", "create", "mail", \* a token is issued
        "taken", "update", "mark", "consume"}   \* verify

Token == [user : Users \cup {NoUser}, type : Types,
          newEmail : Addresses \cup {NoAddress}, consumed : BOOLEAN]

Slot == [pc : PCs, user : Users \cup {NoUser}, type : Types,
         address : Addresses \cup {NoAddress}, token : TokenIds \cup {0}]

\* Types; only a registered user is verified, and a change of address names the
\* new one, which verify would refuse to do without.
TypeOK ==
    /\ email \in [Users -> Addresses \cup {NoAddress}]
    /\ verified \in [Users -> BOOLEAN]
    /\ tokens \in [TokenIds -> Token]
    /\ mailedTo \in [TokenIds -> Addresses \cup {NoAddress}]
    /\ claims \in [Users -> SUBSET Addresses]
    /\ faults \in 0 .. MaxFaults
    /\ req \in [Slots -> Slot]
    /\ proved \subseteq Users \X Addresses
    /\ \A u \in Users : verified[u] => email[u] # NoAddress
    /\ \A t \in TokenIds :
         tokens[t].type = "EMAIL_CHANGE" => tokens[t].newEmail # NoAddress

At(r, pc) == req[r].pc = pc
Goto(r, pc) == req' = [req EXCEPT ![r].pc = pc]
Done(r) == req' = [req EXCEPT ![r] = Idle]

Registered(u) == email[u] # NoAddress
Issued(t) == tokens[t].user # NoUser

\* The bound leaves room for the tokens that requests in flight will create.
Unissued == {t \in TokenIds : ~Issued(t)}
Issuing == {r \in Slots : req[r].pc \in {"insert", "send", "invalidate", "create"}}
RoomForToken == Cardinality(Issuing) < Cardinality(Unissued)

\* Identifiers carry no information: the next one is the lowest unused.
Lowest(i, ids) == i \in ids /\ \A j \in ids : i <= j

-----------------------------------------------------------------------------
(* What the code reads and computes.                                       *)

\* findByEmail finds nobody.
Free(a) == \A u \in Users : email[u] # a

\* verify(): taken && taken.id !== user.id.
TakenByOther(u, a) == \E v \in Users \ {u} : email[v] = a

\* The unique index on users.email refuses a row; the client is answered 409.
RefusedNever(u, a) == FALSE
Refused(u, a) == \E v \in Users \ {u} : email[v] = a

\* Who gets the mail: the address the caller gave, the new one for a change.
MailToAccount(r) == email[req[r].user]
MailTo(r) == req[r].address

\* verify(): the token is not consumed.  An expired one is refused, which changes
\* nothing: any token may count as expired by never being presented again.
Usable(t) == ~tokens[t].consumed

\* invalidateOutstanding, one row of it; by user and by type.
InvalidatedAnyType(row, u, k) ==
    IF row.user = u THEN [row EXCEPT !.consumed = TRUE] ELSE row
Invalidated(row, u, k) ==
    IF row.user = u /\ row.type = k THEN [row EXCEPT !.consumed = TRUE] ELSE row

\* A new row; a registration leaves newEmail empty.
CreatedWithoutAddress(u, k, a) ==
    [user |-> u, type |-> k, newEmail |-> NoAddress, consumed |-> FALSE]
Created(u, k, a) ==
    [user |-> u, type |-> k, newEmail |-> IF k = "EMAIL_CHANGE" THEN a ELSE NoAddress,
     consumed |-> FALSE]

-----------------------------------------------------------------------------
Init ==
    /\ email = [u \in Users |-> NoAddress]
    /\ verified = [u \in Users |-> FALSE]
    /\ tokens = [t \in TokenIds |-> NoToken]
    /\ mailedTo = [t \in TokenIds |-> NoAddress]
    /\ claims = [u \in Users |-> {}]
    /\ faults = 0
    /\ req = [r \in Slots |-> Idle]
    /\ proved = {}

-----------------------------------------------------------------------------
(* AuthService.register and RegistrationListener.                          *)

\* findByEmail, 409 when there is an account.
Register(r, a) ==
    /\ At(r, "idle")
    /\ Free(a)
    /\ RoomForToken
    /\ req' = [req EXCEPT ![r] = [Idle EXCEPT !.pc = "insert", !.address = a]]
    /\ UNCHANGED <<accounts, tokens, mailedTo, claims, faults, proved>>

\* create, which the unique index may refuse.  Then the event, whose listener begins,
\* and the session, whose JWT carries the address.
InsertUser(r) ==
    /\ At(r, "insert")
    /\ LET a == req[r].address
           fresh == {u \in Users : ~Registered(u)} IN
         \/ /\ fresh = {} \/ Refused(NoUser, a)
            /\ Done(r)
            /\ UNCHANGED <<email, claims>>
         \/ /\ ~Refused(NoUser, a)
            /\ \E u \in fresh :
                 /\ email' = [email EXCEPT ![u] = a]
                 /\ claims' = [claims EXCEPT ![u] = {a}]
                 /\ req' = [req EXCEPT ![r] = Idle,
                                       ![u] = [Idle EXCEPT !.pc = "send", !.user = u,
                                                           !.address = a]]
    /\ UNCHANGED <<verified, tokens, mailedTo, faults, proved>>

-----------------------------------------------------------------------------
(* EmailVerificationService: issuing tokens.                                *)

\* POST /auth/resend-verification, with the address of the access token.
Resend(r, u, a) ==
    /\ At(r, "idle")
    /\ a \in claims[u]
    /\ RoomForToken
    /\ req' = [req EXCEPT ![r] = [Idle EXCEPT !.pc = "send", !.user = u, !.address = a]]
    /\ UNCHANGED <<accounts, tokens, mailedTo, claims, faults, proved>>

\* sendRegistrationVerification: findById, and 400 when verified already.
SendRegistrationVerification(r) ==
    /\ At(r, "send")
    /\ IF verified[req[r].user] THEN Done(r) ELSE Goto(r, "invalidate")
    /\ UNCHANGED <<accounts, tokens, mailedTo, claims, faults, proved>>

\* requestEmailChange: findByEmail, and 409 when there is an account.
RequestEmailChange(r, u, a) ==
    /\ At(r, "idle")
    /\ Registered(u)
    /\ Free(a)
    /\ RoomForToken
    /\ req' = [req EXCEPT ![r] = [Idle EXCEPT !.pc = "invalidate", !.user = u,
                                              !.type = "EMAIL_CHANGE", !.address = a]]
    /\ UNCHANGED <<accounts, tokens, mailedTo, claims, faults, proved>>

\* issueToken: invalidateOutstanding.
InvalidateOutstanding(r) ==
    /\ At(r, "invalidate")
    /\ tokens' = [t \in TokenIds |-> Invalidated(tokens[t], req[r].user, req[r].type)]
    /\ Goto(r, "create")
    /\ UNCHANGED <<accounts, mailedTo, claims, faults, proved>>

\* issueToken: create.
CreateToken(r) ==
    /\ At(r, "create")
    /\ \E t \in TokenIds :
         /\ Lowest(t, Unissued)
         /\ tokens' = [tokens EXCEPT ![t] = Created(req[r].user, req[r].type,
                                                  req[r].address)]
         /\ req' = [req EXCEPT ![r].pc = "mail", ![r].token = t]
    /\ UNCHANGED <<accounts, mailedTo, claims, faults, proved>>

\* sendVerificationEmail or sendEmailChangeConfirmation.
SendMail(r) ==
    /\ At(r, "mail")
    /\ mailedTo' = [mailedTo EXCEPT ![req[r].token] = MailTo(r)]
    /\ Done(r)
    /\ UNCHANGED <<accounts, tokens, claims, faults, proved>>

-----------------------------------------------------------------------------
(* EmailVerificationService.verify.                                         *)

\* findByHash and its checks; then findById, which finds the user.
Verify(r, t) ==
    /\ At(r, "idle")
    /\ mailedTo[t] # NoAddress
    /\ Usable(t)
    /\ tokens[t].type = "EMAIL_CHANGE" => tokens[t].newEmail # NoAddress
    /\ req' = [req EXCEPT ![r] =
                 [pc |-> IF tokens[t].type = "EMAIL_CHANGE" THEN "taken" ELSE "mark",
                  user |-> tokens[t].user, type |-> tokens[t].type,
                  address |-> tokens[t].newEmail, token |-> t]]
    /\ proved' = proved \cup {<<tokens[t].user, mailedTo[t]>>}
    /\ UNCHANGED <<accounts, tokens, mailedTo, claims, faults>>

\* findByEmail of the new address, and 409 when another account has it.
CheckTaken(r) ==
    /\ At(r, "taken")
    /\ IF TakenByOther(req[r].user, req[r].address) THEN Done(r) ELSE Goto(r, "update")
    /\ UNCHANGED <<accounts, tokens, mailedTo, claims, faults, proved>>

\* updateEmail, which the unique index may refuse.  Later JWTs carry the address.
UpdateEmail(r) ==
    /\ At(r, "update")
    /\ LET u == req[r].user
           a == req[r].address IN
         IF Refused(u, a)
         THEN /\ Done(r)
              /\ UNCHANGED <<accounts, claims>>
         ELSE /\ email' = [email EXCEPT ![u] = a]
              /\ verified' = [verified EXCEPT ![u] = TRUE]
              /\ claims' = [claims EXCEPT ![u] = @ \cup {a}]
              /\ Goto(r, "consume")
    /\ UNCHANGED <<tokens, mailedTo, faults, proved>>

MarkEmailVerified(r) ==
    /\ At(r, "mark")
    /\ verified' = [verified EXCEPT ![req[r].user] = TRUE]
    /\ Goto(r, "consume")
    /\ UNCHANGED <<email, tokens, mailedTo, claims, faults, proved>>

MarkConsumed(r) ==
    /\ At(r, "consume")
    /\ tokens' = [tokens EXCEPT ![req[r].token].consumed = TRUE]
    /\ Done(r)
    /\ UNCHANGED <<accounts, mailedTo, claims, faults, proved>>

-----------------------------------------------------------------------------
(* The environment.                                                         *)

\* The process dies, or a query or the mail provider fails, between two steps.
Abort(r) ==
    /\ ~At(r, "idle")
    /\ faults < MaxFaults
    /\ faults' = faults + 1
    /\ Done(r)
    /\ UNCHANGED <<accounts, tokens, mailedTo, claims, proved>>

\* Nothing is in flight: the system may stay like this for ever.
Quiet == (\A r \in Slots : At(r, "idle")) /\ UNCHANGED vars

Step(r) ==
    \/ InsertUser(r)
    \/ SendRegistrationVerification(r)
    \/ InvalidateOutstanding(r)
    \/ CreateToken(r)
    \/ SendMail(r)
    \/ CheckTaken(r)
    \/ UpdateEmail(r)
    \/ MarkEmailVerified(r)
    \/ MarkConsumed(r)

Call(r) ==
    \/ \E a \in Addresses : Register(r, a)
    \/ \E u \in Users, a \in Addresses : Resend(r, u, a)
    \/ \E u \in Users, a \in Addresses : RequestEmailChange(r, u, a)
    \/ \E t \in TokenIds : Verify(r, t)

Next ==
    \/ \E r \in Slots : Step(r)
    \/ \E r \in Reqs : Call(r)
    \/ \E r \in Slots : Abort(r)
    \/ Quiet

Spec == Init /\ [][Next]_vars

-----------------------------------------------------------------------------
(* Properties.                                                              *)

\* A verified account belongs to somebody who received mail at the address it has
\* now, whatever links are used in whatever order and however changes of address
\* overlap (email-verification.service.ts:65-78, users.repository.ts:34-39, 80-85).
VerifiedIsProved == \A u \in Users : verified[u] => <<u, email[u]>> \in proved

\* However registrations and changes race past their checks, no two accounts end up
\* with one address, and none loses its own to another (auth.service.ts:44-55,
\* email-verification.service.ts:70-74, schema.prisma:16).
AddressesApart ==
    \A u, v \in Users : Registered(u) /\ email[u] = email[v] => u = v

\* Only its own confirmation moves an account to another address: a request that
\* presents a link issued to change the address of this user, and mailed to the
\* address it moves to.  The link may have been used before: verify consumes it in
\* a query of its own.
MovesWhenConfirmed ==
    [][\A u \in Users : Registered(u) /\ email'[u] # email[u] =>
         \E r \in Slots, t \in TokenIds : /\ At(r, "update") /\ req[r].token = t
                                          /\ tokens[t].user = u
                                          /\ tokens[t].type = "EMAIL_CHANGE"
                                          /\ mailedTo[t] = email'[u]]_vars

\* However resending, changing, verifying and the listener of the registration
\* invalidate each other's tokens, when all of them are through, and none died,
\* everybody registered is verified or has got a link that works, unless it
\* expires (registration.listener.ts:13-24, email-verification.service.ts:32-39).
RegisteredHasLink ==
    (faults = 0 /\ \A r \in Slots : At(r, "idle")) =>
      \A u \in Users : Registered(u) =>
        \/ verified[u]
        \/ \E t \in TokenIds : /\ tokens[t].user = u
                               /\ tokens[t].type = "REGISTRATION"
                               /\ ~tokens[t].consumed
                               /\ mailedTo[t] # NoAddress

=============================================================================
