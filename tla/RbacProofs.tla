------------------------------- MODULE RbacProofs -------------------------------
(***************************************************************************)
(* Proofs, for every value of the constants, of every invariant of Rbac    *)
(* that its run checks.                                                    *)
(*                                                                         *)
(* RInv is the inductive invariant of the tables and the requests that     *)
(* change them; on top of it come what a token being signed has read       *)
(* (WatchInv), what there is before the seed script has run (BootInv), and *)
(* what the script has achieved while nothing was taken away (SeedInv).    *)
(***************************************************************************)
EXTENDS Rbac, TLAPS

-----------------------------------------------------------------------------
(* The inductive invariants.                                                *)

\* What a request carries for the write it is about to make.
SlotInv(q) ==
    /\ q.op \in {"createRole", "rename"} => q.name \in RoleNames
    /\ q.op \in {"rename", "removeRole"} => q.role \in Ids
    /\ q.op = "createPermission" => q.name \in Permissions
    /\ q.op = "removePermission" => q.permission \in Ids
    /\ q.op \in {"assign", "unassign", "access", "sign"} => q.user \in Users
    /\ q.op = "error" => q.code \in Codes

\* The script has an entry of the list left while it upserts permissions.
CursorInv == seed.pc = "permissions" => seed.next <= Len(PermissionList)

RInv ==
    /\ TypeOK
    /\ \A r \in Reqs : SlotInv(req[r])
    /\ CursorInv
    /\ UniqueNames
    /\ NothingDangles

\* A token being signed: what is there now was observed, what was kept is still there,
\* and the roles that were read are those the user had when they were read.
Signing(r) == req[r].op \in {"access", "sign"}

WatchInv ==
    \A r \in Reqs :
      /\ Signing(r) =>
           /\ GrantedNames \subseteq watch[r].grants
           /\ \A g \in watch[r].kept : g \in GrantedNames
      /\ At(r, "access") =>
           /\ req[r].read \subseteq watch[r].roles
           /\ \A g \in watch[r].kept : g[1] \in req[r].read

\* Before somebody is admin nobody has a permission, so that no request which writes
\* passes the guard: whoever signs in gets an empty token.
BootInv ==
    ~bootstrapped =>
      /\ holders = {}
      /\ jwts = {{}}
      /\ calls = 0
      /\ \A r \in Reqs : /\ req[r].op \in {"idle", "access", "sign"}
                         /\ At(r, "access") => req[r].read = {}
                         /\ At(r, "sign") => req[r].claims = {}

\* There is a row for the permission.
Exists(n) == \E p \in Ids : permission[p] = n

\* What the script has achieved up to each of its steps.
PermissionsDone ==
    \A k \in 1 .. Len(PermissionList) :
      (seed.pc = "permissions" /\ k < seed.next) \/ seed.pc \in {"admin", "user", "read"} =>
        Exists(PermissionList[k])

RoleDone ==
    seed.pc \in {"user", "read", "grant", "assign", "done"} =>
      seed.admin \in Ids /\ role[seed.admin] = "admin"

GrantsDone ==
    seed.pc \in {"grant", "assign", "done"} =>
      \A n \in Permissions : \E p \in Ids :
        /\ permission[p] = n
        /\ (seed.pc = "grant" /\ p \in seed.todo) \/ <<seed.admin, p>> \in grants

AssignDone ==
    seed.pc = "done" /\ seed.user # NoUser => <<seed.user, seed.admin>> \in holders

Achieved == PermissionsDone /\ RoleDone /\ GrantsDone /\ AssignDone

SeedInv == intact => Achieved

-----------------------------------------------------------------------------
(* Constants.                                                               *)

LEMMA ListFacts ==
  /\ Len(PermissionList) = 3
  /\ Permissions = {"roles:write", "roles:assign", "permissions:write"}
  /\ \A k \in 1 .. 3 : PermissionList[k] \in Permissions
  /\ \A n \in Permissions : \E k \in 1 .. 3 : PermissionList[k] = n
<1>1. Len(PermissionList) = 3 /\ DOMAIN PermissionList = 1 .. 3
  BY DEF PermissionList
<1>2. /\ PermissionList[1] = "roles:write" /\ PermissionList[2] = "roles:assign"
      /\ PermissionList[3] = "permissions:write"
  BY DEF PermissionList
<1>3. 1 .. 3 = {1, 2, 3}
  OBVIOUS
<1> QED
  BY <1>1, <1>2, <1>3 DEF Permissions

LEMMA IdleTyped == Idle \in Slot /\ SlotInv(Idle) /\ Idle.op = "idle"
  BY DEF Idle, Slot, Ops, SlotInv

-----------------------------------------------------------------------------
(* The slots.                                                               *)

ReqsInv == req \in [Reqs -> Slot] /\ \A r \in Reqs : SlotInv(req[r])

LEMMA PutReqs ==
  ASSUME ReqsInv, NEW r \in Reqs, NEW q \in Slot, SlotInv(q), req' = [req EXCEPT ![r] = q]
  PROVE  ReqsInv'
  BY DEF ReqsInv

LEMMA DoneReqs == ASSUME ReqsInv, NEW r \in Reqs, Done(r) PROVE ReqsInv'
  BY IdleTyped, PutReqs DEF Done

LEMMA RefuseReqs ==
  ASSUME ReqsInv, NEW r \in Reqs, NEW code \in Codes, Refuse(r, code)
  PROVE  ReqsInv'
<1> DEFINE q == [Idle EXCEPT !.op = "error", !.code = code]
<1>1. q \in Slot /\ SlotInv(q)
  BY DEF Idle, Slot, Ops, SlotInv
<1> HIDE DEF q
<1> QED
  BY <1>1, PutReqs DEF Refuse, q

\* What each request begins with.
LEMMA CallReqs ==
  ASSUME ReqsInv, NEW r \in Reqs, Call(r), grants \subseteq RolePermission,
         holders \subseteq UserRole
  PROVE  ReqsInv'
<1>1. ASSUME NEW needed \in Permissions, NEW q \in Slot, SlotInv(q), Begin(r, needed, q)
      PROVE  ReqsInv'
  BY <1>1, PutReqs DEF Begin
<1>2. \A n \in RoleNames : /\ [Idle EXCEPT !.op = "createRole", !.name = n] \in Slot
                           /\ SlotInv([Idle EXCEPT !.op = "createRole", !.name = n])
  BY DEF Idle, Slot, Ops, SlotInv
<1>3. \A i \in Ids, n \in RoleNames :
        /\ [Idle EXCEPT !.op = "rename", !.role = i, !.name = n] \in Slot
        /\ SlotInv([Idle EXCEPT !.op = "rename", !.role = i, !.name = n])
  BY DEF Idle, Slot, Ops, SlotInv
<1>4. \A i \in Ids : /\ [Idle EXCEPT !.op = "removeRole", !.role = i] \in Slot
                     /\ SlotInv([Idle EXCEPT !.op = "removeRole", !.role = i])
  BY DEF Idle, Slot, Ops, SlotInv
<1>5. ASSUME NEW i \in Ids, NEW p \in Ids, NEW o \in {"findPermission", "ungrant"}
      PROVE  /\ [Idle EXCEPT !.op = o, !.role = i, !.permission = p] \in Slot
             /\ SlotInv([Idle EXCEPT !.op = o, !.role = i, !.permission = p])
  <2>1. o \in Ops
    BY DEF Ops
  <2> QED
    BY <2>1 DEF Idle, Slot, SlotInv
<1>6. ASSUME NEW i \in Ids, NEW u \in Users, NEW o \in {"assign", "unassign"}
      PROVE  /\ [Idle EXCEPT !.op = o, !.role = i, !.user = u] \in Slot
             /\ SlotInv([Idle EXCEPT !.op = o, !.role = i, !.user = u])
  <2>1. o \in Ops
    BY DEF Ops
  <2> QED
    BY <2>1 DEF Idle, Slot, SlotInv
<1>7. \A n \in Permissions :
        /\ [Idle EXCEPT !.op = "createPermission", !.name = n] \in Slot
        /\ SlotInv([Idle EXCEPT !.op = "createPermission", !.name = n])
  BY DEF Idle, Slot, Ops, SlotInv
<1>8. \A p \in Ids :
        /\ [Idle EXCEPT !.op = "removePermission", !.permission = p] \in Slot
        /\ SlotInv([Idle EXCEPT !.op = "removePermission", !.permission = p])
  BY DEF Idle, Slot, Ops, SlotInv
<1>9. "roles:write" \in Permissions /\ "roles:assign" \in Permissions
      /\ "permissions:write" \in Permissions
  BY ListFacts
<1>10. ASSUME NEW n \in RoleNames, CreateRole(r, n) PROVE ReqsInv'
  BY <1>1, <1>2, <1>9, <1>10 DEF CreateRole
<1>11. ASSUME NEW i \in Roles, NEW n \in RoleNames, RenameRole(r, i, n) PROVE ReqsInv'
  BY <1>1, <1>3, <1>9, <1>11 DEF RenameRole, Roles
<1>12. ASSUME NEW i \in Roles, RemoveRole(r, i) PROVE ReqsInv'
  BY <1>1, <1>4, <1>9, <1>12 DEF RemoveRole, Roles
<1>13. ASSUME NEW i \in Roles, NEW p \in PermissionRows,
              AssignPermission(r, i, p) \/ RevokePermission(r, i, p)
       PROVE  ReqsInv'
  BY <1>1, <1>5, <1>9, <1>13 DEF AssignPermission, RevokePermission, Roles, PermissionRows
<1>14. ASSUME NEW i \in Roles, NEW u \in Users, AssignToUser(r, i, u) \/ RevokeFromUser(r, i, u)
       PROVE  ReqsInv'
  BY <1>1, <1>6, <1>9, <1>14 DEF AssignToUser, RevokeFromUser, Roles
<1>15. ASSUME NEW n \in Permissions, CreatePermission(r, n) PROVE ReqsInv'
  BY <1>1, <1>7, <1>9, <1>15 DEF CreatePermission
<1>16. ASSUME NEW p \in PermissionRows, RemovePermission(r, p) PROVE ReqsInv'
  BY <1>1, <1>8, <1>9, <1>16 DEF RemovePermission, PermissionRows
<1>17. ASSUME NEW u \in Users, SignIn(r, u) PROVE ReqsInv'
  <2>1. RolesIn(holders, u) \in SUBSET Ids
    BY DEF RolesIn, UserRole
  <2>2. ASSUME NEW s \in SUBSET Ids
        PROVE  /\ [Idle EXCEPT !.op = "access", !.user = u, !.read = s] \in Slot
               /\ SlotInv([Idle EXCEPT !.op = "access", !.user = u, !.read = s])
    BY DEF Idle, Slot, Ops, SlotInv
  <2> QED
    BY <1>17, <2>1, <2>2, PutReqs DEF SignIn
<1> QED
  BY <1>10, <1>11, <1>12, <1>13, <1>14, <1>15, <1>16, <1>17 DEF Call

LEMMA ClaimsTyped ==
  ASSUME NothingDangles, permission \in [Ids -> Permissions \cup {NoName}], NEW ids
  PROVE  Claims(ids) \in SUBSET Permissions
BY DEF Claims, NothingDangles, Roles, PermissionRows

\* A write ends the request, has it refused, or goes on with what it has.
LEMMA WriteReqs ==
  ASSUME ReqsInv, NEW r \in Reqs, Write(r), NothingDangles,
         permission \in [Ids -> Permissions \cup {NoName}]
  PROVE  ReqsInv'
<1>1. "P2002" \in Codes /\ "P2003" \in Codes /\ "P2025" \in Codes
  BY DEF Codes
<1>2. CASE InsertRole(r) \/ InsertPermission(r)
  BY <1>1, <1>2, DoneReqs, RefuseReqs DEF InsertRole, InsertPermission
<1>3. CASE UpdateRole(r) \/ DeleteRole(r) \/ DeletePermission(r)
  BY <1>1, <1>3, DoneReqs, RefuseReqs DEF UpdateRole, DeleteRole, DeletePermission
<1>4. CASE UpsertGrant(r) \/ DeleteGrant(r)
  BY <1>1, <1>4, DoneReqs, RefuseReqs DEF UpsertGrant, DeleteGrant
<1>5. CASE UpsertHolder(r) \/ DeleteHolder(r)
  BY <1>1, <1>5, DoneReqs, RefuseReqs DEF UpsertHolder, DeleteHolder
<1>6. CASE FindPermission(r)
  <2>1. CASE Done(r)
    BY <2>1, DoneReqs
  <2>2. CASE Goto(r, "grant")
    <3> DEFINE q == [req[r] EXCEPT !.op = "grant"]
    <3>1. q \in Slot /\ SlotInv(q)
      BY DEF ReqsInv, Slot, Ops, SlotInv
    <3>2. req' = [req EXCEPT ![r] = q]
      BY <2>2 DEF ReqsInv, Slot, Goto
    <3> HIDE DEF q
    <3> QED
      BY <3>1, <3>2, PutReqs
  <2> QED
    BY <1>6, <2>1, <2>2 DEF FindPermission
<1>7. CASE ReadAccess(r)
  <2>1. CASE Done(r)
    BY <2>1, DoneReqs
  <2>2. CASE req' = [req EXCEPT ![r].op = "sign", ![r].claims = Claims(req[r].read)]
    <3> DEFINE c == Claims(req[r].read)
               q == [req[r] EXCEPT !.op = "sign", !.claims = c]
    <3>1. c \in SUBSET Permissions
      BY ClaimsTyped
    <3>2. req' = [req EXCEPT ![r] = q]
      BY <2>2 DEF ReqsInv, Slot
    <3> HIDE DEF c
    <3>3. q \in Slot
      BY <3>1 DEF ReqsInv, Slot, Ops
    <3>4. SlotInv(q)
      <4>1. q.op = "sign" /\ q.user = req[r].user
        BY DEF ReqsInv, Slot
      <4>2. req[r].user \in Users
        BY <1>7 DEF ReqsInv, SlotInv, ReadAccess, At
      <4> HIDE DEF q
      <4> QED
        BY <4>1, <4>2 DEF SlotInv
    <3> HIDE DEF q
    <3> QED
      BY <3>2, <3>3, <3>4, PutReqs
  <2> QED
    BY <1>7, <2>1, <2>2 DEF ReadAccess
<1>8. CASE Catch(r) \/ Sign(r)
  BY <1>8, DoneReqs DEF Catch, Sign
<1> QED
  BY <1>2, <1>3, <1>4, <1>5, <1>6, <1>7, <1>8 DEF Write

-----------------------------------------------------------------------------
(* The tables.                                                              *)

TablesInv ==
    /\ role \in [Ids -> RoleNames \cup {NoName}]
    /\ permission \in [Ids -> Permissions \cup {NoName}]
    /\ UniqueNames
    /\ NothingDangles

LEMMA SameTables == TablesInv /\ UNCHANGED tables => TablesInv'
  BY DEF TablesInv, tables, UniqueNames, NothingDangles, Roles, PermissionRows

\* A role gets a name that no other has; a permission likewise.
LEMMA NameRole ==
  ASSUME TablesInv, NEW i \in Ids, NEW n \in RoleNames, role' = [role EXCEPT ![i] = n],
         \A j \in Ids \ {i} : role[j] # n, UNCHANGED <<permission, grants, holders>>
  PROVE  TablesInv'
<1>1. /\ role' \in [Ids -> RoleNames \cup {NoName}]
      /\ role'[i] = n /\ \A j \in Ids \ {i} : role'[j] = role[j]
  BY DEF TablesInv
<1>2. n # NoName
  BY NamesAssumption
<1>3. UniqueNames'
  BY <1>1 DEF TablesInv, UniqueNames, Roles, PermissionRows
<1>4. NothingDangles'
  <2>1. Roles \subseteq Roles'
    BY <1>1, <1>2 DEF Roles
  <2>2. PermissionRows' = PermissionRows
    BY DEF PermissionRows
  <2> QED
    BY <2>1, <2>2 DEF TablesInv, NothingDangles
<1> QED
  BY <1>1, <1>3, <1>4 DEF TablesInv

LEMMA NamePermission ==
  ASSUME TablesInv, NEW p \in Ids, NEW n \in Permissions,
         permission' = [permission EXCEPT ![p] = n],
         \A j \in Ids \ {p} : permission[j] # n, UNCHANGED <<role, grants, holders>>
  PROVE  TablesInv'
<1>1. /\ permission' \in [Ids -> Permissions \cup {NoName}]
      /\ permission'[p] = n /\ \A j \in Ids \ {p} : permission'[j] = permission[j]
  BY DEF TablesInv
<1>2. n # NoName
  BY NamesAssumption
<1>3. UniqueNames'
  BY <1>1 DEF TablesInv, UniqueNames, Roles, PermissionRows
<1>4. NothingDangles'
  <2>1. PermissionRows \subseteq PermissionRows'
    BY <1>1, <1>2 DEF PermissionRows
  <2>2. Roles' = Roles
    BY DEF Roles
  <2> QED
    BY <2>1, <2>2 DEF TablesInv, NothingDangles
<1> QED
  BY <1>1, <1>3, <1>4 DEF TablesInv

LEMMA UpsertedRole ==
  ASSUME TablesInv, NEW n \in RoleNames, NEW i \in Ids, Upsert(role, UsedRoles, n, i)
  PROVE  /\ \A j \in Ids \ {i} : role[j] # n
         /\ \A j \in Roles : role[j] = [role EXCEPT ![i] = n][j]
<1>1. CASE Taken(role, 0, n)
  <2>1. role[i] = n /\ i \in Roles
    BY <1>1, NamesAssumption DEF Upsert, Roles
  <2> QED
    BY <2>1 DEF TablesInv, UniqueNames, Roles
<1>2. CASE ~Taken(role, 0, n)
  <2>1. i \notin Roles
    BY <1>2 DEF Upsert, Lowest, UsedRoles
  <2>2. \A j \in Ids \ {i} : role[j] # n
    BY <1>2, RbacBounds DEF Taken, Ids
  <2> QED
    BY <2>1, <2>2 DEF TablesInv, Roles
<1> QED
  BY <1>1, <1>2

LEMMA UpsertedPermission ==
  ASSUME TablesInv, NEW n \in Permissions, NEW p \in Ids,
         Upsert(permission, UsedPermissions, n, p)
  PROVE  /\ \A j \in Ids \ {p} : permission[j] # n
         /\ \A j \in PermissionRows : permission[j] = [permission EXCEPT ![p] = n][j]
<1>1. CASE Taken(permission, 0, n)
  <2>1. permission[p] = n /\ p \in PermissionRows
    BY <1>1, NamesAssumption DEF Upsert, PermissionRows
  <2> QED
    BY <2>1 DEF TablesInv, UniqueNames, PermissionRows
<1>2. CASE ~Taken(permission, 0, n)
  <2>1. p \notin PermissionRows
    BY <1>2 DEF Upsert, Lowest, UsedPermissions
  <2>2. \A j \in Ids \ {p} : permission[j] # n
    BY <1>2, RbacBounds DEF Taken, Ids
  <2> QED
    BY <2>1, <2>2 DEF TablesInv, PermissionRows
<1> QED
  BY <1>1, <1>2

\* A deleted row takes with it what refers to it.
LEMMA DropRole ==
  ASSUME TablesInv, NEW i \in Ids, role' = [role EXCEPT ![i] = NoName],
         grants' = Cascade(grants, i, 1), holders' = Cascade(holders, i, 2),
         permission' = permission
  PROVE  TablesInv'
<1>1. /\ role' \in [Ids -> RoleNames \cup {NoName}]
      /\ role'[i] = NoName /\ \A j \in Ids \ {i} : role'[j] = role[j]
  BY DEF TablesInv
<1>2. UniqueNames'
  BY <1>1 DEF TablesInv, UniqueNames, Roles, PermissionRows
<1>3. Roles' = Roles \ {i} /\ PermissionRows' = PermissionRows
  BY <1>1 DEF Roles, PermissionRows
<1>4. NothingDangles'
  BY <1>3 DEF TablesInv, NothingDangles, Cascade
<1> QED
  BY <1>1, <1>2, <1>4 DEF TablesInv

LEMMA DropPermission ==
  ASSUME TablesInv, NEW p \in Ids, permission' = [permission EXCEPT ![p] = NoName],
         grants' = Cascade(grants, p, 2), UNCHANGED <<role, holders>>
  PROVE  TablesInv'
<1>1. /\ permission' \in [Ids -> Permissions \cup {NoName}]
      /\ permission'[p] = NoName /\ \A j \in Ids \ {p} : permission'[j] = permission[j]
  BY DEF TablesInv
<1>2. UniqueNames'
  BY <1>1 DEF TablesInv, UniqueNames, Roles, PermissionRows
<1>3. PermissionRows' = PermissionRows \ {p} /\ Roles' = Roles
  BY <1>1 DEF Roles, PermissionRows
<1>4. NothingDangles'
  BY <1>3 DEF TablesInv, NothingDangles, Cascade
<1> QED
  BY <1>1, <1>2, <1>4 DEF TablesInv

\* Rows of the tables that join, added between rows that exist or removed.
LEMMA JoinTables ==
  ASSUME TablesInv, UNCHANGED <<role, permission>>,
         grants' \subseteq grants \cup (Roles \X PermissionRows),
         holders' \subseteq holders \cup (Users \X Roles)
  PROVE  TablesInv'
<1>1. Roles' = Roles /\ PermissionRows' = PermissionRows
  BY DEF Roles, PermissionRows
<1>2. UniqueNames' /\ NothingDangles'
  BY <1>1 DEF TablesInv, UniqueNames, NothingDangles
<1> QED
  BY <1>2 DEF TablesInv

\* Nothing was taken away or renamed by this step.
Grown ==
    /\ \A i \in Roles : role'[i] = role[i]
    /\ \A p \in PermissionRows : permission'[p] = permission[p]
    /\ grants \subseteq grants'
    /\ holders \subseteq holders'

LEMMA SameGrown == UNCHANGED tables => Grown
  BY DEF tables, Grown

LEMMA RefuseTables ==
  ASSUME TablesInv, NEW r \in Reqs, NEW code, Refuse(r, code)
  PROVE  TablesInv' /\ Grown /\ UNCHANGED history
  BY SameTables, SameGrown DEF Refuse

\* Every write of a request keeps the tables consistent, and marks that something was
\* taken away if it was.
LEMMA WriteTables ==
  ASSUME TablesInv, ReqsInv, NEW r \in Reqs, Write(r)
  PROVE  /\ TablesInv'
         /\ Grown \/ ~intact'
         /\ intact' => intact
<1>1. CASE \E code \in Codes : Refuse(r, code)
  BY <1>1, RefuseTables DEF history
<1>2. CASE UNCHANGED <<tables, history>>
  BY <1>2, SameTables, SameGrown DEF history
<1>3. CASE InsertRole(r) /\ ~Taken(role, 0, req[r].name) /\ UNCHANGED history
  <2>1. At(r, "createRole") /\ UNCHANGED <<permission, grants, holders>>
    BY <1>3 DEF InsertRole, Refuse, tables
  <2>2. req[r].name \in RoleNames
    BY <2>1 DEF At, ReqsInv, SlotInv
  <2>3. PICK i \in Ids : i \notin Roles /\ role' = [role EXCEPT ![i] = req[r].name]
    BY <1>3 DEF InsertRole, Refuse, Lowest, UsedRoles
  <2>4. \A j \in Ids \ {i} : role[j] # req[r].name
    BY <1>3, RbacBounds DEF Taken, Ids
  <2>5. TablesInv'
    BY <2>1, <2>2, <2>3, <2>4, NameRole
  <2>6. Grown
    BY <2>1, <2>3 DEF Grown, TablesInv, Roles
  <2> QED
    BY <1>3, <2>5, <2>6 DEF history
<1>4. CASE UpdateRole(r) /\ ~intact'
  <2>1. CASE Refuse(r, "P2025") \/ Refuse(r, "P2002")
    BY <1>1, <2>1 DEF Codes
  <2>2. CASE ~(Refuse(r, "P2025") \/ Refuse(r, "P2002"))
    <3>1. /\ At(r, "rename") /\ ~Taken(role, req[r].role, req[r].name)
          /\ role' = [role EXCEPT ![req[r].role] = req[r].name]
          /\ UNCHANGED <<permission, grants, holders>>
      BY <1>4, <2>2 DEF UpdateRole
    <3>2. req[r].name \in RoleNames /\ req[r].role \in Ids
      BY <3>1 DEF At, ReqsInv, SlotInv
    <3>3. \A j \in Ids \ {req[r].role} : role[j] # req[r].name
      BY <3>1 DEF Taken
    <3> QED
      BY <1>4, <3>1, <3>2, <3>3, NameRole
  <2> QED
    BY <2>1, <2>2
<1>5. CASE DeleteRole(r) /\ ~(\E code \in Codes : Refuse(r, code))
  <2>1. /\ role' = [role EXCEPT ![req[r].role] = NoName]
        /\ grants' = Cascade(grants, req[r].role, 1)
        /\ holders' = Cascade(holders, req[r].role, 2)
        /\ permission' = permission /\ intact' = FALSE /\ req[r].role \in Ids
    BY <1>5 DEF DeleteRole, Codes, Roles
  <2> QED
    BY <2>1, DropRole
<1>6. CASE DeletePermission(r) /\ ~(\E code \in Codes : Refuse(r, code))
  <2>1. /\ permission' = [permission EXCEPT ![req[r].permission] = NoName]
        /\ grants' = Cascade(grants, req[r].permission, 2)
        /\ UNCHANGED <<role, holders>> /\ intact' = FALSE /\ req[r].permission \in Ids
    BY <1>6 DEF DeletePermission, Codes, PermissionRows
  <2> QED
    BY <2>1, DropPermission
<1>7. CASE InsertPermission(r) /\ ~Taken(permission, 0, req[r].name) /\ UNCHANGED history
  <2>1. At(r, "createPermission") /\ UNCHANGED <<role, grants, holders>>
    BY <1>7 DEF InsertPermission, Refuse, tables
  <2>2. req[r].name \in Permissions
    BY <2>1 DEF At, ReqsInv, SlotInv
  <2>3. PICK p \in Ids : /\ p \notin PermissionRows
                         /\ permission' = [permission EXCEPT ![p] = req[r].name]
    BY <1>7 DEF InsertPermission, Refuse, Lowest, UsedPermissions
  <2>4. \A j \in Ids \ {p} : permission[j] # req[r].name
    BY <1>7, RbacBounds DEF Taken, Ids
  <2>5. TablesInv'
    BY <2>1, <2>2, <2>3, <2>4, NamePermission
  <2>6. Grown
    BY <2>1, <2>3 DEF Grown, TablesInv, PermissionRows
  <2> QED
    BY <1>7, <2>5, <2>6 DEF history
<1>8. CASE UpsertGrant(r) /\ ~(\E code \in Codes : Refuse(r, code))
  <2>1. /\ grants' = grants \cup {<<req[r].role, req[r].permission>>}
        /\ <<req[r].role, req[r].permission>> \in Roles \X PermissionRows
        /\ UNCHANGED <<role, permission, holders, history>>
    BY <1>8 DEF UpsertGrant, Codes
  <2> QED
    BY <2>1, JoinTables DEF Grown, history
<1>9. CASE DeleteGrant(r) /\ ~(\E code \in Codes : Refuse(r, code))
  <2>1. /\ grants' = grants \ {<<req[r].role, req[r].permission>>}
        /\ UNCHANGED <<role, permission, holders>> /\ intact' = FALSE
    BY <1>9 DEF DeleteGrant, Codes
  <2> QED
    BY <2>1, JoinTables
<1>10. CASE UpsertHolder(r) /\ ~(\E code \in Codes : Refuse(r, code))
  <2>1. /\ holders' = holders \cup {<<req[r].user, req[r].role>>}
        /\ req[r].role \in Roles /\ At(r, "assign")
        /\ UNCHANGED <<role, permission, grants, history>>
    BY <1>10 DEF UpsertHolder, Codes
  <2>2. req[r].user \in Users
    BY <2>1 DEF At, ReqsInv, SlotInv
  <2> QED
    BY <2>1, <2>2, JoinTables DEF Grown, history
<1>11. CASE DeleteHolder(r) /\ ~(\E code \in Codes : Refuse(r, code))
  <2>1. /\ holders' = holders \ {<<req[r].user, req[r].role>>}
        /\ UNCHANGED <<role, permission, grants>> /\ intact' = FALSE
    BY <1>11 DEF DeleteHolder, Codes
  <2> QED
    BY <2>1, JoinTables
<1>12. CASE FindPermission(r) \/ Catch(r) \/ ReadAccess(r) \/ Sign(r)
  BY <1>2, <1>12 DEF FindPermission, Catch, ReadAccess, Sign
<1>13. CASE InsertRole(r) \/ InsertPermission(r)
  BY <1>1, <1>3, <1>7, <1>13 DEF InsertRole, InsertPermission, Codes
<1>14. CASE UpdateRole(r)
  BY <1>1, <1>4, <1>14 DEF UpdateRole, Codes
<1> QED
  BY <1>1, <1>5, <1>6, <1>8, <1>9, <1>10, <1>11, <1>12, <1>13, <1>14 DEF Write

SeedRecord == [pc : SeedPCs, user : Users \cup {NoUser},
               next : 1 .. Len(PermissionList) + 1, admin : Ids \cup {0}, todo : SUBSET Ids]

\* The script, the counters and the histories.
RestInv ==
    /\ jwts \subseteq SUBSET Permissions
    /\ seed \in SeedRecord
    /\ calls \in 0 .. MaxCalls
    /\ seeds \in 0 .. MaxSeeds
    /\ <<intact, bootstrapped>> \in BOOLEAN \X BOOLEAN
    /\ CursorInv

\* The script adds rows only, and leaves the tables consistent.
LEMMA SeedTables ==
  ASSUME TablesInv, RestInv, Seed, Admin \in Users
  PROVE  TablesInv' /\ Grown
<1>1. ASSUME NEW u \in {Admin, NoUser}, StartSeed(u) PROVE TablesInv' /\ Grown
  BY <1>1, SameTables, SameGrown DEF StartSeed
<1>2. CASE SeedPermission
  <2> DEFINE n == PermissionList[seed.next]
  <2>1. n \in Permissions
    BY <1>2, ListFacts DEF SeedPermission, RestInv, CursorInv, SeedRecord
  <2>2. PICK p \in Ids : /\ Upsert(permission, UsedPermissions, n, p)
                         /\ permission' = [permission EXCEPT ![p] = n]
    BY <1>2 DEF SeedPermission
  <2>3. UNCHANGED <<role, grants, holders>>
    BY <1>2 DEF SeedPermission
  <2> HIDE DEF n
  <2>4. /\ \A j \in Ids \ {p} : permission[j] # n
        /\ \A j \in PermissionRows : permission[j] = permission'[j]
    BY <2>1, <2>2, UpsertedPermission
  <2> QED
    BY <2>1, <2>2, <2>3, <2>4, NamePermission DEF Grown
<1>3. CASE SeedRole
  <2>1. seed.pc \in RoleNames
    BY <1>3 DEF SeedRole, RoleNames
  <2>2. PICK i \in Ids : /\ Upsert(role, UsedRoles, seed.pc, i)
                         /\ role' = [role EXCEPT ![i] = seed.pc]
    BY <1>3 DEF SeedRole
  <2>3. UNCHANGED <<permission, grants, holders>>
    BY <1>3 DEF SeedRole
  <2>4. /\ \A j \in Ids \ {i} : role[j] # seed.pc
        /\ \A j \in Roles : role[j] = role'[j]
    BY <2>1, <2>2, UpsertedRole
  <2> QED
    BY <2>1, <2>2, <2>3, <2>4, NameRole DEF Grown
<1>4. CASE SeedRead \/ SeedExit
  BY <1>4, SameTables, SameGrown DEF SeedRead, SeedExit
<1>5. ASSUME NEW p \in Ids, SeedGrant(p) PROVE TablesInv' /\ Grown
  BY <1>5, JoinTables DEF SeedGrant, Grown
<1>6. CASE SeedAssign
  <2>1. holders' = holders \/ /\ seed.user # NoUser /\ seed.admin \in Roles
                              /\ holders' = holders \cup {<<seed.user, seed.admin>>}
    BY <1>6 DEF SeedAssign
  <2> QED
    BY <1>6, <2>1, JoinTables DEF SeedAssign, Grown, RestInv, SeedRecord
<1> QED
  BY <1>1, <1>2, <1>3, <1>4, <1>5, <1>6 DEF Seed

LEMMA SeedRest ==
  ASSUME TablesInv, RestInv, Seed, Admin \in Users
  PROVE  RestInv'
<1>1. NoSeed \in SeedRecord /\ NoSeed.pc = "idle" /\ NoSeed.next = 1
  BY ListFacts DEF NoSeed, SeedRecord, SeedPCs
<1>2. ASSUME NEW u \in {Admin, NoUser}, StartSeed(u) PROVE RestInv'
  <2> DEFINE s == [NoSeed EXCEPT !.pc = "permissions", !.user = u]
  <2>1. s \in SeedRecord /\ s.next = 1
    BY <1>1 DEF SeedRecord, SeedPCs
  <2>2. seed' = s
    BY <1>2 DEF StartSeed
  <2>3. seeds' \in 0 .. MaxSeeds
    BY <1>2, RbacBounds DEF StartSeed, RestInv
  <2>4. CursorInv'
    BY <2>1, <2>2, ListFacts DEF CursorInv
  <2> HIDE DEF s
  <2>5. <<intact', bootstrapped'>> \in BOOLEAN \X BOOLEAN
    BY <1>2 DEF StartSeed, RestInv
  <2> QED
    BY <1>2, <2>1, <2>2, <2>3, <2>4, <2>5 DEF StartSeed, RestInv, RestOfSeed
<1>3. CASE SeedPermission
  <2> DEFINE p == IF seed.next = Len(PermissionList) THEN "admin" ELSE seed.pc
             s == [seed EXCEPT !.next = @ + 1, !.pc = p]
  <2>1. seed \in SeedRecord /\ seed.next \in 1 .. 3 /\ seed.pc = "permissions"
    BY <1>3, ListFacts DEF SeedPermission, RestInv, SeedRecord, CursorInv
  <2>2. p \in SeedPCs /\ (p = "permissions" => seed.next + 1 <= 3)
    BY <2>1, ListFacts DEF SeedPCs
  <2>3. seed' = s
    BY <1>3 DEF SeedPermission
  <2> HIDE DEF p
  <2>4. s \in SeedRecord /\ s.pc = p /\ s.next = seed.next + 1
    <3>1. seed.next + 1 \in 1 .. Len(PermissionList) + 1
      BY <2>1, ListFacts
    <3>2. p \in SeedPCs
      BY <2>2
    <3> QED
      BY <2>1, <3>1, <3>2 DEF SeedRecord
  <2> HIDE DEF s
  <2> QED
    BY <1>3, <2>2, <2>3, <2>4, ListFacts
       DEF SeedPermission, RestInv, RestOfSeed, CursorInv, history
<1>4. CASE SeedRole
  <2>1. PICK i \in Ids : seed' = IF seed.pc = "admin"
                                 THEN [seed EXCEPT !.pc = "user", !.admin = i]
                                 ELSE [seed EXCEPT !.pc = "read"]
    BY <1>4 DEF SeedRole
  <2>2. seed' \in SeedRecord /\ seed'.pc \in {"user", "read"}
    BY <2>1 DEF RestInv, SeedRecord, SeedPCs
  <2> QED
    BY <1>4, <2>2 DEF SeedRole, RestInv, RestOfSeed, CursorInv, history
<1>5. CASE SeedRead
  <2>1. seed' \in SeedRecord /\ seed'.pc \in {"assign", "grant"}
    BY <1>5 DEF SeedRead, RestInv, SeedRecord, SeedPCs, PermissionRows
  <2> QED
    BY <1>5, <2>1 DEF SeedRead, RestInv, RestOfSeed, CursorInv, history
<1>6. ASSUME NEW p \in Ids, SeedGrant(p) PROVE RestInv'
  <2> DEFINE left == LeftToGrant(seed.todo, p)
  <2>1. left \in SUBSET Ids /\ seed.pc \in {"grant", "failed"}
    BY <1>6 DEF LeftToGrant, RestInv, SeedRecord, SeedGrant
  <2> HIDE DEF left
  <2>2. PICK pc \in {"grant", "failed", "assign"} :
          seed' = [seed EXCEPT !.todo = left, !.pc = pc]
    <3>1. seed' = [seed EXCEPT !.todo = left, !.pc = "failed"]
          \/ seed' = [seed EXCEPT !.todo = left, !.pc = "assign"]
          \/ seed' = [seed EXCEPT !.todo = left, !.pc = seed.pc]
      BY <1>6 DEF SeedGrant, left
    <3> QED
      BY <2>1, <3>1
  <2>3. seed' \in SeedRecord /\ seed'.pc # "permissions"
    BY <2>1, <2>2 DEF RestInv, SeedRecord, SeedPCs
  <2> QED
    BY <1>6, <2>3 DEF SeedGrant, RestInv, RestOfSeed, CursorInv, history
<1>7. CASE SeedAssign
  <2>1. PICK pc \in {"done", "failed"} : seed' = [seed EXCEPT !.pc = pc]
    BY <1>7 DEF SeedAssign
  <2>2. seed' \in SeedRecord /\ seed'.pc # "permissions"
    BY <2>1 DEF RestInv, SeedRecord, SeedPCs
  <2>3. bootstrapped' \in BOOLEAN
    BY <1>7 DEF SeedAssign, RestInv
  <2> QED
    BY <1>7, <2>2, <2>3 DEF SeedAssign, RestInv, RestOfSeed, CursorInv
<1>8. CASE SeedExit
  BY <1>1, <1>8 DEF SeedExit, RestInv, RestOfSeed, CursorInv, history
<1> QED
  BY <1>2, <1>3, <1>4, <1>5, <1>6, <1>7, <1>8 DEF Seed

LEMMA CallRest ==
  ASSUME RestInv, NEW r \in Reqs, Call(r)
  PROVE  RestInv' /\ UNCHANGED <<tables, history>>
<1>1. CASE \E u \in Users : SignIn(r, u)
  BY <1>1 DEF SignIn, RestInv, CursorInv, history
<1>2. ASSUME NEW needed, NEW q, Begin(r, needed, q)
      PROVE  RestInv' /\ UNCHANGED <<tables, history>>
  <2>1. calls' \in 0 .. MaxCalls
    BY <1>2, RbacBounds DEF Begin, RestInv
  <2> QED
    BY <1>2, <2>1 DEF Begin, RestInv, CursorInv, history
<1> QED
  BY <1>1, <1>2 DEF Call, CreateRole, RenameRole, RemoveRole, AssignPermission,
     RevokePermission, AssignToUser, RevokeFromUser, CreatePermission, RemovePermission

LEMMA WriteRest ==
  ASSUME RestInv, ReqsInv, NEW r \in Reqs, Write(r)
  PROVE  RestInv'
<1>1. UNCHANGED <<seed, calls, seeds, bootstrapped>> /\ (intact' = intact \/ intact' = FALSE)
  BY DEF Write, InsertRole, UpdateRole, DeleteRole, FindPermission, UpsertGrant, DeleteGrant,
         UpsertHolder, DeleteHolder, InsertPermission, DeletePermission, Catch, ReadAccess, Sign,
         RestOfWrite, Refuse, history
<1>2. jwts' = jwts \/ jwts' = jwts \cup {req[r].claims}
  BY DEF Write, InsertRole, UpdateRole, DeleteRole, FindPermission, UpsertGrant, DeleteGrant,
         UpsertHolder, DeleteHolder, InsertPermission, DeletePermission, Catch, ReadAccess, Sign,
         RestOfWrite
<1>3. req[r].claims \subseteq Permissions
  BY DEF ReqsInv, Slot
<1>4. jwts' \subseteq SUBSET Permissions
  BY <1>2, <1>3 DEF RestInv
<1>5. <<intact', bootstrapped'>> \in BOOLEAN \X BOOLEAN
  BY <1>1 DEF RestInv
<1>6. CursorInv'
  BY <1>1 DEF RestInv, CursorInv
<1> QED
  BY <1>1, <1>4, <1>5, <1>6 DEF RestInv

-----------------------------------------------------------------------------
(* What is observed of a token being signed.                                *)

WatchRecord == [roles : SUBSET Ids, grants : SUBSET (Ids \X Permissions),
                kept : SUBSET (Ids \X Permissions)]

LEMMA NextObserves == Next => Observe
  BY DEF Next, Call, Write, Seed, CreateRole, RenameRole, RemoveRole, AssignPermission,
     RevokePermission, AssignToUser, RevokeFromUser, CreatePermission, RemovePermission,
     Begin, SignIn, InsertRole, UpdateRole, DeleteRole, FindPermission, UpsertGrant,
     DeleteGrant, UpsertHolder, DeleteHolder, InsertPermission, DeletePermission, Catch,
     ReadAccess, Sign, RestOfWrite, RestOfSeed, StartSeed, SeedPermission, SeedRole, SeedRead,
     SeedAssign, SeedExit, SeedGrant

LEMMA ObserveTyped ==
  ASSUME watch \in [Reqs -> WatchRecord], Observe, TablesInv'
  PROVE  watch' \in [Reqs -> WatchRecord]
<1>1. GrantedNames' \subseteq Ids \X Permissions
  BY DEF TablesInv, GrantedNames, NothingDangles, Roles, PermissionRows
<1>2. ASSUME NEW r \in Reqs
      PROVE  watch'[r] \in WatchRecord
  <2> DEFINE held == RolesIn(holders', req'[r].user)
             now == GrantedNames'
             through == {g \in now : g[1] \in held}
  <2>1. held \in SUBSET Ids
    BY DEF TablesInv, NothingDangles, RolesIn, Roles
  <2>2. now \in SUBSET (Ids \X Permissions) /\ through \in SUBSET (Ids \X Permissions)
    BY <1>1
  <2>3. watch'[r] =
          IF req'[r].op \notin {"access", "sign"} THEN NoWatch
          ELSE IF At(r, "idle") THEN [roles |-> held, grants |-> now, kept |-> through]
          ELSE [roles |-> watch[r].roles \cup held, grants |-> watch[r].grants \cup now,
                kept |-> watch[r].kept \cap through]
    BY DEF Observe
  <2> HIDE DEF held, now, through
  <2>4. NoWatch \in WatchRecord
    BY DEF NoWatch, WatchRecord
  <2>5. watch[r] \in WatchRecord
    OBVIOUS
  <2> QED
    BY <2>1, <2>2, <2>3, <2>4, <2>5 DEF WatchRecord
<1> QED
  BY <1>2 DEF Observe

-----------------------------------------------------------------------------
(* The inductive invariant holds.                                           *)

LEMMA Parts ==
  RInv <=> ReqsInv /\ TablesInv /\ RestInv /\ watch \in [Reqs -> WatchRecord]
<1>1. TablesInv => grants \subseteq RolePermission /\ holders \subseteq UserRole
  BY DEF TablesInv, NothingDangles, Roles, PermissionRows, RolePermission, UserRole
<1> QED
  BY <1>1 DEF RInv, TypeOK, ReqsInv, TablesInv, RestInv, SeedRecord, WatchRecord

LEMMA PartsNext ==
  ReqsInv' /\ TablesInv' /\ RestInv' /\ watch' \in [Reqs -> WatchRecord] => RInv'
<1>1. TablesInv' => grants' \subseteq RolePermission /\ holders' \subseteq UserRole
  BY DEF TablesInv, NothingDangles, Roles, PermissionRows, RolePermission, UserRole
<1> QED
  BY <1>1 DEF RInv, TypeOK, ReqsInv, TablesInv, RestInv, SeedRecord, WatchRecord

LEMMA InitRInv == Init => RInv
<1> SUFFICES ASSUME Init PROVE RInv
  OBVIOUS
<1>1. ReqsInv
  BY IdleTyped DEF Init, ReqsInv
<1>2. TablesInv
  BY DEF Init, TablesInv, UniqueNames, NothingDangles, Roles, PermissionRows
<1>3. RestInv
  <2>1. NoSeed \in SeedRecord /\ NoSeed.pc = "idle"
    BY ListFacts DEF NoSeed, SeedRecord, SeedPCs
  <2>2. calls \in 0 .. MaxCalls /\ seeds \in 0 .. MaxSeeds
    BY RbacBounds DEF Init
  <2>3. <<intact, bootstrapped>> \in BOOLEAN \X BOOLEAN
    BY DEF Init
  <2> QED
    BY <2>1, <2>2, <2>3 DEF Init, RestInv, CursorInv
<1>4. watch \in [Reqs -> WatchRecord]
  BY DEF Init, NoWatch, WatchRecord
<1> QED
  BY <1>1, <1>2, <1>3, <1>4, Parts

LEMMA RInvStep == RInv /\ [Next]_vars => RInv'
<1> SUFFICES ASSUME RInv, [Next]_vars PROVE RInv'
  OBVIOUS
<1>0. ReqsInv /\ TablesInv /\ RestInv /\ watch \in [Reqs -> WatchRecord]
  BY Parts
<1>1. CASE Next
  <2>1. ASSUME NEW r \in Reqs, Call(r)
        PROVE  ReqsInv' /\ TablesInv' /\ RestInv'
    <3>1. grants \subseteq RolePermission /\ holders \subseteq UserRole
      BY DEF RInv, TypeOK
    <3> QED
      BY <1>0, <2>1, <3>1, CallReqs, CallRest, SameTables
  <2>2. ASSUME NEW r \in Reqs, Write(r)
        PROVE  ReqsInv' /\ TablesInv' /\ RestInv'
    <3>1. NothingDangles /\ permission \in [Ids -> Permissions \cup {NoName}]
      BY <1>0 DEF TablesInv
    <3> QED
      BY <1>0, <2>2, <3>1, WriteReqs, WriteTables, WriteRest
  <2>3. ASSUME Seed
        PROVE  ReqsInv' /\ TablesInv' /\ RestInv'
    <3>1. req' = req
      BY <2>3 DEF Seed, StartSeed, SeedPermission, SeedRole, SeedRead, SeedAssign, SeedExit,
                  SeedGrant, RestOfSeed
    <3> QED
      BY <1>0, <2>3, <3>1, SeedTables, SeedRest, UsersAssumption DEF ReqsInv
  <2>4. ReqsInv' /\ TablesInv' /\ RestInv'
    BY <1>1, <2>1, <2>2, <2>3 DEF Next
  <2> QED
    BY <1>0, <1>1, <2>4, NextObserves, ObserveTyped, PartsNext
<1>2. CASE UNCHANGED vars
  <2>1. ReqsInv' /\ TablesInv' /\ watch' \in [Reqs -> WatchRecord]
    BY <1>0, <1>2, SameTables DEF vars, ReqsInv
  <2>2. RestInv'
    BY <1>0, <1>2 DEF vars, history, RestInv, CursorInv
  <2> QED
    BY <2>1, <2>2, PartsNext
<1> QED
  BY <1>1, <1>2

LEMMA RInvAlways == Spec => []RInv
  BY InitRInv, RInvStep, PTL DEF Spec

\* Tables, slots, script and histories keep their types.
THEOREM RbacTypeCorrect == Spec => []TypeOK
<1>1. RInv => TypeOK
  BY DEF RInv
<1> QED
  BY <1>1, RInvAlways, PTL

\* However many creations, renamings and seed scripts race past their checks, no name
\* is given twice (roles.service.ts:29-35, schema.prisma:48, 61).
THEOREM NamesAreUnique == Spec => []UniqueNames
<1>1. RInv => UniqueNames
  BY DEF RInv
<1> QED
  BY <1>1, RInvAlways, PTL

\* Nothing refers to a role or a permission that was deleted (schema.prisma:76-77, 89-90).
THEOREM NoDanglingRows == Spec => []NothingDangles
<1>1. RInv => NothingDangles
  BY DEF RInv
<1> QED
  BY <1>1, RInvAlways, PTL

\* A write refused because of what others did is never answered with a server error:
\* every code that a constraint raises here has a status below 500
\* (global-exception.filter.ts:90-111).
THEOREM RefusalsAreClientErrors == Spec => []RacesAreClientErrors
<1>1. \A code \in Codes : Status(code) < 500
  BY DEF Codes, Status
<1>2. RInv => RacesAreClientErrors
  BY <1>1 DEF RInv, SlotInv, At, RacesAreClientErrors
<1> QED
  BY <1>2, RInvAlways, PTL

-----------------------------------------------------------------------------
(* A token carries what its user's roles granted while it was being signed. *)

\* The steps of a slot that concern a token being signed.
LEMMA SlotMoves ==
  ASSUME ReqsInv, Next, NEW r \in Reqs
  PROVE  \/ req'[r] = req[r]
         \/ req'[r].op \notin {"access", "sign"}
         \/ \E u \in Users : SignIn(r, u)
         \/ /\ At(r, "access")
            /\ req' = [req EXCEPT ![r].op = "sign", ![r].claims = Claims(req[r].read)]
            /\ UNCHANGED tables
<1>0. req \in [Reqs -> Slot] /\ Idle.op = "idle"
  BY IdleTyped DEF ReqsInv
<1>1. ASSUME NEW s \in Reqs, Done(s) \/ \E code : Refuse(s, code)
      PROVE  req'[r] = req[r] \/ req'[r].op \notin {"access", "sign"}
  BY <1>0, <1>1 DEF Done, Refuse, Idle
<1>2. ASSUME NEW s \in Reqs, Call(s), ~\E u \in Users : SignIn(s, u)
      PROVE  req'[r] = req[r] \/ req'[r].op \notin {"access", "sign"}
  <2>1. ASSUME NEW needed, NEW q, q.op \notin {"access", "sign"}, Begin(s, needed, q)
        PROVE  req'[r] = req[r] \/ req'[r].op \notin {"access", "sign"}
    BY <1>0, <2>1 DEF Begin
  <2>2. CASE \E i \in Roles, n \in RoleNames : RenameRole(s, i, n)
    BY <2>1, <2>2 DEF RenameRole, Idle
  <2>3. CASE \E n \in RoleNames : CreateRole(s, n)
    BY <2>1, <2>3 DEF CreateRole, Idle
  <2>4. CASE \E i \in Roles : RemoveRole(s, i)
    BY <2>1, <2>4 DEF RemoveRole, Idle
  <2>5. CASE \E i \in Roles, p \in PermissionRows :
               AssignPermission(s, i, p) \/ RevokePermission(s, i, p)
    BY <2>1, <2>5 DEF AssignPermission, RevokePermission, Idle
  <2>6. CASE \E i \in Roles, u \in Users : AssignToUser(s, i, u) \/ RevokeFromUser(s, i, u)
    BY <2>1, <2>6 DEF AssignToUser, RevokeFromUser, Idle
  <2>7. CASE \E n \in Permissions : CreatePermission(s, n)
    BY <2>1, <2>7 DEF CreatePermission, Idle
  <2>8. CASE \E p \in PermissionRows : RemovePermission(s, p)
    BY <2>1, <2>8 DEF RemovePermission, Idle
  <2> QED
    BY <1>2, <2>2, <2>3, <2>4, <2>5, <2>6, <2>7, <2>8 DEF Call
<1>3. ASSUME NEW s \in Reqs, \E u \in Users : SignIn(s, u)
      PROVE  req'[r] = req[r] \/ \E u \in Users : SignIn(r, u)
  BY <1>0, <1>3 DEF SignIn
<1>4. ASSUME NEW s \in Reqs, Write(s)
      PROVE  \/ req'[r] = req[r]
             \/ req'[r].op \notin {"access", "sign"}
             \/ /\ At(r, "access")
                /\ req' = [req EXCEPT ![r].op = "sign", ![r].claims = Claims(req[r].read)]
                /\ UNCHANGED tables
  <2>1. CASE InsertRole(s) \/ UpdateRole(s) \/ DeleteRole(s) \/ UpsertGrant(s) \/ DeleteGrant(s)
    BY <1>1, <2>1 DEF InsertRole, UpdateRole, DeleteRole, UpsertGrant, DeleteGrant
  <2>2. CASE UpsertHolder(s) \/ DeleteHolder(s) \/ InsertPermission(s) \/ DeletePermission(s)
             \/ Catch(s) \/ Sign(s)
    BY <1>1, <2>2 DEF UpsertHolder, DeleteHolder, InsertPermission, DeletePermission, Catch, Sign
  <2>3. CASE FindPermission(s)
    <3>1. CASE Goto(s, "grant")
      BY <1>0, <3>1 DEF Goto, Slot
    <3> QED
      BY <1>1, <2>3, <3>1 DEF FindPermission
  <2>4. CASE ReadAccess(s)
    <3>1. CASE Done(s)
      BY <1>1, <3>1
    <3>2. CASE req' = [req EXCEPT ![s].op = "sign", ![s].claims = Claims(req[s].read)]
      <4>1. CASE s = r
        BY <2>4, <3>2, <4>1 DEF ReadAccess
      <4>2. CASE s # r
        BY <1>0, <3>2, <4>2
      <4> QED
        BY <4>1, <4>2
    <3> QED
      BY <2>4, <3>1, <3>2 DEF ReadAccess
  <2> QED
    BY <1>4, <2>1, <2>2, <2>3, <2>4 DEF Write
<1>5. CASE Seed
  BY <1>5 DEF Seed, StartSeed, SeedPermission, SeedRole, SeedRead, SeedAssign, SeedExit,
              SeedGrant, RestOfSeed
<1> QED
  BY <1>2, <1>3, <1>4, <1>5 DEF Next

\* What Observe leaves of the history of one slot.
LEMMA Observed ==
  ASSUME Observe, NEW r \in Reqs, req'[r].op \in {"access", "sign"}
  PROVE  LET held == RolesIn(holders', req'[r].user)
             now == GrantedNames'
             through == {g \in now : g[1] \in held}
         IN  watch'[r] = IF At(r, "idle")
                         THEN [roles |-> held, grants |-> now, kept |-> through]
                         ELSE [roles |-> watch[r].roles \cup held,
                               grants |-> watch[r].grants \cup now,
                               kept |-> watch[r].kept \cap through]
BY DEF Observe

LEMMA WatchStep ==
  ASSUME RInv, WatchInv, SignedWhatWasHeld, [Next]_vars
  PROVE  WatchInv' /\ SignedWhatWasHeld'
<1>0. ReqsInv /\ TablesInv
  BY Parts
<1>1. CASE UNCHANGED vars
  BY <1>1 DEF vars, tables, WatchInv, SignedWhatWasHeld, Signing, At, GrantedNames
<1>2. ASSUME Next, NEW r \in Reqs
      PROVE  /\ Signing(r)' => /\ GrantedNames' \subseteq watch'[r].grants
                               /\ \A g \in watch'[r].kept : g \in GrantedNames'
             /\ At(r, "access")' => /\ req'[r].read \subseteq watch'[r].roles
                                    /\ \A g \in watch'[r].kept : g[1] \in req'[r].read
             /\ At(r, "sign")' =>
                  /\ \A n \in req'[r].claims :
                       \E i \in watch'[r].roles : <<i, n>> \in watch'[r].grants
                  /\ \A g \in watch'[r].kept : g[2] \in req'[r].claims
  <2> DEFINE held == RolesIn(holders', req'[r].user)
             now == GrantedNames'
             through == {g \in now : g[1] \in held}
  <2>1. CASE req'[r].op \notin {"access", "sign"}
    BY <2>1 DEF Signing, At
  <2>2. CASE req'[r].op \in {"access", "sign"} /\ At(r, "idle")
    <3>1. PICK u \in Users : SignIn(r, u)
      BY <1>0, <1>2, <2>2, SlotMoves DEF At
    <3>2. watch'[r] = [roles |-> held, grants |-> now, kept |-> through]
      BY <1>2, <2>2, NextObserves, Observed
    <3>3. req'[r] = [Idle EXCEPT !.op = "access", !.user = u, !.read = RolesIn(holders, u)]
      BY <1>0, <3>1 DEF SignIn, ReqsInv
    <3>4. /\ req'[r].op = "access" /\ req'[r].user = u
          /\ req'[r].read = RolesIn(holders, u) /\ holders' = holders
      <4>1. holders' = holders
        BY <3>1 DEF SignIn, tables
      <4> DEFINE ids == RolesIn(holders, u)
      <4>2. req'[r] = [Idle EXCEPT !.op = "access", !.user = u, !.read = ids]
        BY <3>3
      <4> HIDE DEF ids
      <4>3. req'[r].op = "access" /\ req'[r].user = u /\ req'[r].read = ids
        BY <4>2 DEF Idle
      <4> QED
        BY <4>1, <4>3 DEF ids
    <3>5. req'[r].read = held
      BY <3>4
    <3> HIDE DEF held, now
    <3> QED
      BY <3>2, <3>4, <3>5 DEF Signing, At, now
  <2>3. CASE req'[r].op \in {"access", "sign"} /\ ~At(r, "idle")
    <3>1. /\ watch'[r].roles = watch[r].roles \cup held
          /\ watch'[r].grants = watch[r].grants \cup now
          /\ watch'[r].kept = watch[r].kept \cap through
      <4>1. watch'[r] = [roles |-> watch[r].roles \cup held,
                         grants |-> watch[r].grants \cup now,
                         kept |-> watch[r].kept \cap through]
        BY <1>2, <2>3, NextObserves, Observed
      <4> HIDE DEF held, now, through
      <4> QED
        BY <4>1
    <3>2. CASE req'[r] = req[r]
      <4> HIDE DEF held, now
      <4> QED
        BY <2>3, <3>1, <3>2 DEF WatchInv, SignedWhatWasHeld, Signing, At, now
    <3>3. CASE /\ At(r, "access")
               /\ req' = [req EXCEPT ![r].op = "sign", ![r].claims = Claims(req[r].read)]
               /\ UNCHANGED tables
      <4>1. req'[r].op = "sign" /\ req'[r].claims = Claims(req[r].read)
        BY <1>0, <3>3 DEF ReqsInv, Slot
      <4>2. /\ GrantedNames \subseteq watch[r].grants
            /\ \A g \in watch[r].kept : g \in GrantedNames
            /\ req[r].read \subseteq watch[r].roles
            /\ \A g \in watch[r].kept : g[1] \in req[r].read
        BY <3>3 DEF WatchInv, Signing, At
      <4>3. ASSUME NEW n \in req'[r].claims
            PROVE  \E i \in watch'[r].roles : <<i, n>> \in watch'[r].grants
        <5>1. PICK g \in grants : g[1] \in req[r].read /\ n = permission[g[2]]
          BY <4>1, <4>3 DEF Claims
        <5>2. <<g[1], n>> \in GrantedNames
          BY <5>1 DEF GrantedNames
        <5> HIDE DEF held, now
        <5> QED
          BY <3>1, <4>2, <5>1, <5>2
      <4>4. ASSUME NEW g \in watch'[r].kept
            PROVE  g[2] \in req'[r].claims
        <5>1. g \in GrantedNames /\ g[1] \in req[r].read
          BY <3>1, <4>2, <4>4
        <5>2. PICK h \in grants : g = <<h[1], permission[h[2]]>>
          BY <5>1 DEF GrantedNames
        <5>3. h[1] \in req[r].read /\ g[2] = permission[h[2]]
          BY <5>1, <5>2
        <5> QED
          BY <4>1, <5>3 DEF Claims
      <4>5. now \subseteq watch'[r].grants /\ \A g \in watch'[r].kept : g \in now
        <5> HIDE DEF held, now
        <5> QED
          BY <3>1
      <4> QED
        BY <4>1, <4>3, <4>4, <4>5 DEF Signing, At
    <3>4. ~\E u \in Users : SignIn(r, u)
      BY <2>3 DEF SignIn
    <3> QED
      BY <1>0, <1>2, <2>3, <3>2, <3>3, <3>4, SlotMoves
  <2> QED
    BY <2>1, <2>2, <2>3
<1> QED
  BY <1>1, <1>2 DEF WatchInv, SignedWhatWasHeld

\* A token carries nothing that no role of its user granted while it was being signed,
\* and everything that one of them granted all the while: a change of roles reaches a
\* user with the next token (README.md:80, auth.service.ts:236-248).
THEOREM TokensCarryWhatWasHeld == Spec => []SignedWhatWasHeld
<1>1. Init => WatchInv /\ SignedWhatWasHeld
  BY IdleTyped DEF Init, WatchInv, SignedWhatWasHeld, Signing, At
<1>2. RInv /\ (WatchInv /\ SignedWhatWasHeld) /\ [Next]_vars => (WatchInv /\ SignedWhatWasHeld)'
  BY WatchStep
<1> QED
  BY <1>1, <1>2, RInvAlways, PTL DEF Spec

-----------------------------------------------------------------------------
(* Nobody has anything before the seed script has made somebody admin.      *)

LEMMA BootStep ==
  ASSUME RInv, BootInv, [Next]_vars
  PROVE  BootInv'
<1> SUFFICES ASSUME ~bootstrapped'
             PROVE  /\ holders' = {}
                    /\ jwts' = {{}}
                    /\ calls' = 0
                    /\ \A r \in Reqs : /\ req'[r].op \in {"idle", "access", "sign"}
                                       /\ At(r, "access")' => req'[r].read = {}
                                       /\ At(r, "sign")' => req'[r].claims = {}
  BY DEF BootInv
<1>0. ReqsInv
  BY Parts
<1>1. ~bootstrapped
  <2>1. ASSUME Seed PROVE bootstrapped => bootstrapped'
    BY <2>1 DEF Seed, StartSeed, SeedPermission, SeedRole, SeedRead, SeedAssign, SeedExit,
                SeedGrant, history
  <2>2. ASSUME NEW r \in Reqs, Call(r) \/ Write(r) PROVE bootstrapped' = bootstrapped
    BY <2>2 DEF Call, CreateRole, RenameRole, RemoveRole, AssignPermission, RevokePermission,
       AssignToUser, RevokeFromUser, CreatePermission, RemovePermission, Begin, SignIn, Write,
       InsertRole, UpdateRole, DeleteRole, FindPermission, UpsertGrant, DeleteGrant,
       UpsertHolder, DeleteHolder, InsertPermission, DeletePermission, Catch, ReadAccess, Sign,
       Refuse, history
  <2> QED
    BY <2>1, <2>2 DEF Next, vars, history
<1>2. /\ holders = {} /\ jwts = {{}} /\ calls = 0
      /\ \A r \in Reqs : /\ req[r].op \in {"idle", "access", "sign"}
                         /\ At(r, "access") => req[r].read = {}
                         /\ At(r, "sign") => req[r].claims = {}
  BY <1>1 DEF BootInv
<1>3. ASSUME NEW s \in Reqs, NEW q, req' = [req EXCEPT ![s] = q],
             q.op \in {"idle", "access", "sign"}, q.op = "access" => q.read = {},
             q.op = "sign" => q.claims = {}
      PROVE  \A r \in Reqs : /\ req'[r].op \in {"idle", "access", "sign"}
                             /\ At(r, "access")' => req'[r].read = {}
                             /\ At(r, "sign")' => req'[r].claims = {}
  BY <1>0, <1>2, <1>3 DEF ReqsInv, At
<1>4. ASSUME NEW s \in Reqs, Call(s) PROVE \E u \in Users : SignIn(s, u)
  <2>1. ASSUME NEW needed, NEW q PROVE ~Begin(s, needed, q)
    BY <1>2 DEF Begin, Allowed
  <2> QED
    BY <1>4, <2>1 DEF Call, CreateRole, RenameRole, RemoveRole, AssignPermission,
       RevokePermission, AssignToUser, RevokeFromUser, CreatePermission, RemovePermission
<1>5. ASSUME NEW s \in Reqs, NEW u \in Users, SignIn(s, u)
      PROVE  BootInv'
  <2> DEFINE q == [Idle EXCEPT !.op = "access", !.user = u, !.read = {}]
  <2>1. RolesIn(holders, u) = {}
    BY <1>2 DEF RolesIn
  <2>2. req' = [req EXCEPT ![s] = q] /\ UNCHANGED <<holders, jwts, calls>>
    BY <1>5, <2>1 DEF SignIn, tables
  <2>3. q.op = "access" /\ q.read = {}
    BY DEF Idle
  <2> HIDE DEF q
  <2> QED
    BY <1>2, <1>3, <2>2, <2>3 DEF BootInv
<1>6. ASSUME NEW s \in Reqs, Write(s)
      PROVE  BootInv'
  <2>1. ReadAccess(s) \/ Sign(s)
    BY <1>2, <1>6 DEF Write, InsertRole, UpdateRole, DeleteRole, FindPermission, UpsertGrant,
       DeleteGrant, UpsertHolder, DeleteHolder, InsertPermission, DeletePermission, Catch, At
  <2>2. CASE Done(s) /\ ReadAccess(s)
    <3>1. UNCHANGED <<holders, jwts, calls>>
      BY <2>2 DEF ReadAccess, RestOfWrite, tables
    <3> QED
      BY <1>2, <1>3, <2>2, <3>1, IdleTyped DEF BootInv, Done
  <2>3. CASE Sign(s)
    <3>1. holders' = holders /\ calls' = calls /\ jwts' = {{}} /\ Done(s)
      BY <1>2, <2>3 DEF Sign, tables
    <3> QED
      BY <1>2, <1>3, <3>1, IdleTyped DEF BootInv, Done
  <2>4. CASE /\ ReadAccess(s)
             /\ req' = [req EXCEPT ![s].op = "sign", ![s].claims = Claims(req[s].read)]
    <3>1. UNCHANGED <<holders, jwts, calls>> /\ At(s, "access")
      BY <2>4 DEF ReadAccess, RestOfWrite, tables
    <3>2. Claims(req[s].read) = {}
      BY <1>2, <3>1 DEF Claims
    <3>3. PICK q : /\ q.op = "sign" /\ q.claims = {}
                   /\ req' = [req EXCEPT ![s] = q]
      <4> DEFINE e == [req[s] EXCEPT !.op = "sign", !.claims = {}]
      <4>1. e.op = "sign" /\ e.claims = {}
        BY <1>0 DEF ReqsInv, Slot
      <4>2. req' = [req EXCEPT ![s] = e]
        BY <1>0, <2>4, <3>2 DEF ReqsInv, Slot
      <4> HIDE DEF e
      <4> QED
        BY <4>1, <4>2
    <3> QED
      BY <1>2, <1>3, <3>1, <3>3 DEF BootInv
  <2> QED
    BY <2>1, <2>2, <2>3, <2>4 DEF ReadAccess
<1>7. ASSUME Seed
      PROVE  BootInv'
  <2>1. UNCHANGED <<req, jwts, calls>>
    BY <1>7 DEF Seed, StartSeed, SeedPermission, SeedRole, SeedRead, SeedAssign, SeedExit,
                SeedGrant, RestOfSeed
  <2>2. holders' = holders
    BY <1>7 DEF Seed, StartSeed, SeedPermission, SeedRole, SeedRead, SeedAssign, SeedExit,
                SeedGrant, tables
  <2> QED
    BY <1>2, <2>1, <2>2 DEF BootInv, At
<1>8. CASE UNCHANGED vars
  BY <1>2, <1>8 DEF vars, tables, At
<1> QED
  BY <1>4, <1>5, <1>6, <1>7, <1>8 DEF Next, BootInv

\* Until the seed script has made somebody admin nobody has a role, no token carries a
\* permission and no request that writes is served (README.md:423).
THEOREM NothingBeforeSeed == Spec => []SeedBootstraps
<1>1. Init => BootInv
  BY IdleTyped DEF Init, BootInv, At
<1>2. BootInv => SeedBootstraps
  BY DEF BootInv, SeedBootstraps
<1>3. RInv /\ BootInv /\ [Next]_vars => BootInv'
  BY BootStep
<1> QED
  BY <1>1, <1>2, <1>3, RInvAlways, PTL DEF Spec

-----------------------------------------------------------------------------
(* What the seed script achieves.                                           *)

\* Rows that exist stay in place while nothing is taken away.
LEMMA GrownRows ==
  ASSUME TablesInv, Grown
  PROVE  /\ \A n \in Permissions, p \in Ids : permission[p] = n => permission'[p] = n
         /\ \A i \in Ids : role[i] = "admin" => role'[i] = "admin"
         /\ \A n \in Permissions : Exists(n) => Exists(n)'
<1>1. \A n \in Permissions, p \in Ids : permission[p] = n => permission'[p] = n
  BY NamesAssumption DEF Grown, PermissionRows
<1>2. \A i \in Ids : role[i] = "admin" => role'[i] = "admin"
  BY NamesAssumption DEF Grown, Roles, RoleNames
<1> QED
  BY <1>1, <1>2 DEF Exists

LEMMA AchievedKept ==
  ASSUME TablesInv, Grown, Achieved, seed' = seed
  PROVE  Achieved'
<1>1. PermissionsDone'
  BY GrownRows, ListFacts DEF Achieved, PermissionsDone
<1>2. RoleDone'
  BY GrownRows DEF Achieved, RoleDone
<1>3. GrantsDone'
  <2> SUFFICES ASSUME seed.pc \in {"grant", "assign", "done"}, NEW n \in Permissions
               PROVE  \E p \in Ids :
                        /\ permission'[p] = n
                        /\ (seed.pc = "grant" /\ p \in seed.todo) \/ <<seed.admin, p>> \in grants'
    BY DEF GrantsDone
  <2>1. PICK p \in Ids :
          /\ permission[p] = n
          /\ (seed.pc = "grant" /\ p \in seed.todo) \/ <<seed.admin, p>> \in grants
    BY DEF Achieved, GrantsDone
  <2> QED
    BY <2>1, GrownRows DEF Grown
<1>4. AssignDone'
  BY DEF Achieved, AssignDone, Grown
<1> QED
  BY <1>1, <1>2, <1>3, <1>4 DEF Achieved

LEMMA SeedPermissionDone ==
  ASSUME TablesInv, RestInv, Grown, Achieved, SeedPermission
  PROVE  Achieved'
<1>1. seed \in SeedRecord /\ seed.pc = "permissions" /\ seed.next \in 1 .. 3
  BY ListFacts DEF SeedPermission, RestInv, SeedRecord, CursorInv
<1>2. /\ seed'.pc = (IF seed.next = 3 THEN "admin" ELSE "permissions")
      /\ seed'.next = seed.next + 1
  BY <1>1, ListFacts DEF SeedPermission, SeedRecord
<1>3. \E p \in Ids : permission'[p] = PermissionList[seed.next]
  BY DEF SeedPermission, TablesInv
<1>4. \A k \in 1 .. 3 : k < seed.next => Exists(PermissionList[k])'
  BY <1>1, GrownRows, ListFacts DEF Achieved, PermissionsDone
<1>5. \A k \in 1 .. 3 : k < seed.next + 1 => Exists(PermissionList[k])'
  <2>1. \A k \in 1 .. 3 : k < seed.next + 1 => k < seed.next \/ k = seed.next
    BY <1>1
  <2> QED
    BY <1>3, <1>4, <2>1 DEF Exists
<1>6. PermissionsDone'
  <2> SUFFICES ASSUME NEW k \in 1 .. 3,
                      \/ seed'.pc = "permissions" /\ k < seed'.next
                      \/ seed'.pc \in {"admin", "user", "read"}
               PROVE  Exists(PermissionList[k])'
    BY ListFacts DEF PermissionsDone
  <2>1. k < seed.next + 1
    BY <1>1, <1>2
  <2> QED
    BY <1>5, <2>1
<1>7. RoleDone' /\ GrantsDone' /\ AssignDone'
  BY <1>2 DEF RoleDone, GrantsDone, AssignDone
<1> QED
  BY <1>6, <1>7 DEF Achieved

LEMMA SeedRoleDone ==
  ASSUME TablesInv, RestInv, Grown, Achieved, SeedRole
  PROVE  Achieved'
<1>1. PICK i \in Ids :
        /\ role' = [role EXCEPT ![i] = seed.pc]
        /\ seed' = IF seed.pc = "admin" THEN [seed EXCEPT !.pc = "user", !.admin = i]
                                        ELSE [seed EXCEPT !.pc = "read"]
  BY DEF SeedRole
<1>2. seed \in SeedRecord /\ seed.pc \in {"admin", "user"}
  BY DEF SeedRole, RestInv
<1>3. /\ seed.pc = "admin" => seed'.pc = "user" /\ seed'.admin = i
      /\ seed.pc = "user" => seed'.pc = "read" /\ seed'.admin = seed.admin
  BY <1>1, <1>2 DEF SeedRecord
<1>4. role'[i] = seed.pc
  BY <1>1 DEF TablesInv
<1>5. PermissionsDone'
  BY <1>2, <1>3, GrownRows, ListFacts DEF Achieved, PermissionsDone
<1>6. RoleDone'
  BY <1>2, <1>3, <1>4, GrownRows DEF Achieved, RoleDone
<1>7. GrantsDone' /\ AssignDone'
  BY <1>2, <1>3 DEF GrantsDone, AssignDone
<1> QED
  BY <1>5, <1>6, <1>7 DEF Achieved

\* Every permission of the list is among the rows the script reads.
LEMMA SeedReadDone ==
  ASSUME TablesInv, RestInv, Achieved, SeedRead
  PROVE  Achieved'
<1>1. \A n \in Permissions : Exists(n)
  BY ListFacts DEF SeedRead, Achieved, PermissionsDone
<1>2. \A n \in Permissions : \E p \in PermissionRows : permission[p] = n
  BY <1>1, NamesAssumption DEF Exists, PermissionRows
<1>3. PermissionRows # {}
  BY <1>2, ListFacts
<1>4. /\ seed'.pc = "grant" /\ seed'.todo = PermissionRows /\ seed'.admin = seed.admin
      /\ UNCHANGED <<role, permission>> /\ seed.pc = "read"
  BY <1>3 DEF SeedRead, RestInv, SeedRecord, tables
<1>5. PermissionsDone' /\ AssignDone'
  BY <1>4 DEF PermissionsDone, AssignDone
<1>6. RoleDone'
  BY <1>4 DEF Achieved, RoleDone
<1>7. GrantsDone'
  BY <1>2, <1>4 DEF GrantsDone, PermissionRows
<1> QED
  BY <1>5, <1>6, <1>7 DEF Achieved

LEMMA SeedGrantDone ==
  ASSUME TablesInv, RestInv, Grown, Achieved, NEW p \in Ids, SeedGrant(p)
  PROVE  Achieved'
<1> DEFINE left == LeftToGrant(seed.todo, p)
           exists == <<seed.admin, p>> \in Roles \X PermissionRows
<1>1. /\ seed \in SeedRecord /\ seed.pc \in {"grant", "failed"}
      /\ grants' = (IF exists THEN grants \cup {<<seed.admin, p>>} ELSE grants)
      /\ UNCHANGED <<role, permission>>
  BY DEF SeedGrant, RestInv
<1>2. /\ seed'.todo = seed.todo \ {p} /\ seed'.admin = seed.admin
      /\ seed'.pc \in {"grant", "failed", "assign"}
      /\ seed'.pc \in {"grant", "assign"} => seed.pc = "grant" /\ exists
      /\ seed'.pc = "assign" => seed.todo \ {p} = {}
  <2>1. \/ seed' = [seed EXCEPT !.todo = left, !.pc = "failed"]
        \/ /\ exists /\ left = {} /\ seed.pc = "grant"
           /\ seed' = [seed EXCEPT !.todo = left, !.pc = "assign"]
        \/ exists /\ seed' = [seed EXCEPT !.todo = left, !.pc = seed.pc]
    BY DEF SeedGrant
  <2> HIDE DEF exists
  <2> QED
    BY <1>1, <2>1 DEF SeedRecord, LeftToGrant
<1>3. PermissionsDone' /\ AssignDone'
  BY <1>2 DEF PermissionsDone, AssignDone
<1>4. RoleDone'
  BY <1>1, <1>2 DEF Achieved, RoleDone
<1>5. GrantsDone'
  <2> SUFFICES ASSUME seed'.pc \in {"grant", "assign"}, NEW n \in Permissions
               PROVE  \E j \in Ids :
                        /\ permission'[j] = n
                        /\ \/ seed'.pc = "grant" /\ j \in seed'.todo
                           \/ <<seed'.admin, j>> \in grants'
    BY <1>2 DEF GrantsDone
  <2>1. PICK j \in Ids : permission[j] = n /\ (j \in seed.todo \/ <<seed.admin, j>> \in grants)
    BY <1>2 DEF Achieved, GrantsDone
  <2>2. grants' = grants \cup {<<seed.admin, p>>}
    BY <1>1, <1>2
  <2>3. CASE j = p \/ <<seed.admin, j>> \in grants
    BY <1>1, <1>2, <2>1, <2>2, <2>3
  <2>4. CASE j # p /\ j \in seed.todo
    BY <1>1, <1>2, <2>1, <2>4
  <2> QED
    BY <2>1, <2>3, <2>4
<1> QED
  BY <1>3, <1>4, <1>5 DEF Achieved

LEMMA SeedAssignDone ==
  ASSUME TablesInv, RestInv, Grown, Achieved, SeedAssign
  PROVE  Achieved'
<1>1. seed \in SeedRecord /\ seed.pc = "assign" /\ UNCHANGED <<role, permission, grants>>
  BY DEF SeedAssign, RestInv
<1>2. \/ seed' = [seed EXCEPT !.pc = "failed"]
      \/ /\ seed' = [seed EXCEPT !.pc = "done"]
         /\ seed.user # NoUser => holders' = holders \cup {<<seed.user, seed.admin>>}
  BY DEF SeedAssign
<1>3. /\ seed'.admin = seed.admin /\ seed'.user = seed.user
      /\ \/ seed'.pc = "failed"
         \/ /\ seed'.pc = "done"
            /\ seed.user # NoUser => holders' = holders \cup {<<seed.user, seed.admin>>}
  BY <1>1, <1>2 DEF SeedRecord
<1>4. PermissionsDone'
  BY <1>3 DEF PermissionsDone
<1>5. RoleDone'
  BY <1>1, <1>3 DEF Achieved, RoleDone
<1>6. GrantsDone'
  BY <1>1, <1>3 DEF Achieved, GrantsDone
<1>7. AssignDone'
  BY <1>3 DEF AssignDone
<1> QED
  BY <1>4, <1>5, <1>6, <1>7 DEF Achieved

LEMMA SeedStep ==
  ASSUME RInv, SeedInv, [Next]_vars
  PROVE  SeedInv'
<1>0. ReqsInv /\ TablesInv /\ RestInv /\ Admin \in Users
  BY Parts, UsersAssumption
<1>1. ASSUME NEW r \in Reqs, Call(r) PROVE SeedInv'
  <2>1. seed' = seed /\ UNCHANGED tables /\ intact' = intact
    BY <1>0, <1>1, CallRest
       DEF history, Call, CreateRole, RenameRole, RemoveRole, AssignPermission, RevokePermission,
           AssignToUser, RevokeFromUser, CreatePermission, RemovePermission, Begin, SignIn
  <2> QED
    BY <1>0, <2>1, SameGrown, AchievedKept DEF SeedInv
<1>2. ASSUME NEW r \in Reqs, Write(r) PROVE SeedInv'
  <2>1. seed' = seed
    BY <1>2 DEF Write, InsertRole, UpdateRole, DeleteRole, FindPermission, UpsertGrant,
       DeleteGrant, UpsertHolder, DeleteHolder, InsertPermission, DeletePermission, Catch,
       ReadAccess, Sign, RestOfWrite
  <2> QED
    BY <1>0, <1>2, <2>1, WriteTables, AchievedKept DEF SeedInv
<1>3. ASSUME Seed PROVE SeedInv'
  <2>1. Grown
    BY <1>0, <1>3, SeedTables
  <2>2. ASSUME NEW u \in {Admin, NoUser}, StartSeed(u) PROVE Achieved'
    <3>1. seed'.pc = "permissions" /\ seed'.next = 1
      BY <2>2 DEF StartSeed, NoSeed
    <3> QED
      BY <3>1, ListFacts DEF Achieved, PermissionsDone, RoleDone, GrantsDone, AssignDone
  <2>3. CASE SeedExit
    <3>1. seed'.pc = "idle"
      BY <2>3 DEF SeedExit, NoSeed
    <3>2. Achieved'
      BY <3>1 DEF Achieved, PermissionsDone, RoleDone, GrantsDone, AssignDone
    <3> QED
      BY <3>2 DEF SeedInv
  <2>4. ASSUME SeedPermission \/ SeedRole \/ SeedRead \/ SeedAssign \/ \E p \in Ids : SeedGrant(p)
        PROVE  intact' = intact
    BY <2>4 DEF SeedPermission, SeedRole, SeedRead, SeedAssign, SeedGrant, history
  <2> QED
    BY <1>0, <1>3, <2>1, <2>2, <2>3, <2>4, SeedPermissionDone, SeedRoleDone, SeedReadDone,
       SeedGrantDone, SeedAssignDone DEF Seed, SeedInv
<1>4. CASE UNCHANGED vars
  <2>1. seed' = seed /\ UNCHANGED tables /\ intact' = intact
    BY <1>4 DEF vars, history
  <2> QED
    BY <1>0, <2>1, SameGrown, AchievedKept DEF SeedInv
<1> QED
  BY <1>1, <1>2, <1>3, <1>4 DEF Next

\* After the seed script has succeeded, and unless something was taken away since it
\* began, the role admin has every permission of the list, and the account it was run
\* for has that role, whatever requests did meanwhile (seed.ts:19-57).
THEOREM SeedGivesAdmin == Spec => []SeedRestoresAdmin
<1>1. Init => SeedInv
  <2>1. Init => seed.pc = "idle"
    BY DEF Init, NoSeed
  <2> QED
    BY <2>1 DEF SeedInv, Achieved, PermissionsDone, RoleDone, GrantsDone, AssignDone
<1>2. RInv /\ SeedInv => SeedRestoresAdmin
  <2> SUFFICES ASSUME RInv, Achieved, seed.pc = "done"
               PROVE  /\ seed.admin \in Roles /\ role[seed.admin] = "admin"
                      /\ \A n \in Permissions : <<seed.admin, n>> \in GrantedNames
                      /\ seed.user # NoUser => <<seed.user, seed.admin>> \in holders
    BY DEF SeedInv, SeedRestoresAdmin
  <2>1. seed.admin \in Roles /\ role[seed.admin] = "admin"
    BY NamesAssumption DEF Achieved, RoleDone, Roles, RoleNames
  <2>2. ASSUME NEW n \in Permissions PROVE <<seed.admin, n>> \in GrantedNames
    <3>1. PICK p \in Ids : permission[p] = n /\ <<seed.admin, p>> \in grants
      BY DEF Achieved, GrantsDone
    <3> QED
      BY <3>1 DEF GrantedNames
  <2> QED
    BY <2>1, <2>2 DEF Achieved, AssignDone
<1>3. RInv /\ SeedInv /\ [Next]_vars => SeedInv'
  BY SeedStep
<1> QED
  BY <1>1, <1>2, <1>3, RInvAlways, PTL DEF Spec

==============================================================================
