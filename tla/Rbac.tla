--------------------------------- MODULE Rbac ---------------------------------
(***************************************************************************)
(* Roles, permissions and who has them: RolesService, PermissionsService,  *)
(* their repositories and constraints in Postgres, PermissionsGuard, the   *)
(* permissions that an access token is signed with, and the seed script.   *)
(*                                                                         *)
(* A request takes one step per awaited query that changes or decides      *)
(* something; one refused at its first check is no step, and reads that    *)
(* only fill the answer (also the last one of create, update, assign and   *)
(* revokePermission) are left out, as are descriptions and dates.          *)
(*                                                                         *)
(* Access tokens carry the names of permissions.  An expired one is one    *)
(* that nobody presents any more, so none is ever removed.                 *)
(***************************************************************************)
EXTENDS Naturals, Sequences, FiniteSets

CONSTANTS
    Reqs,      \* slots: how many requests may be in flight at once
    Users,     \* rows of users
    Admin,     \* the user whose address is ADMIN_EMAIL
    NoUser,    \* no user
    NoName,    \* the name of a row that does not exist
    MaxIds,    \* bound: rows of roles, and of permissions, at any one time
    MaxCalls,  \* bound: how many requests that write are served
    MaxSeeds   \* bound: how often the seed script is run

ASSUME UsersAssumption == Admin \in Users /\ NoUser \notin Users
ASSUME RbacBounds == MaxIds \in Nat /\ MaxCalls \in Nat /\ MaxSeeds \in Nat

Ids == 1 .. MaxIds

\* The entries of PERMISSIONS that a route which writes asks for, in their order.
PermissionList == <<"roles:write", "roles:assign", "permissions:write">>
Permissions == {PermissionList[i] : i \in DOMAIN PermissionList}
RoleNames == {"admin", "user"}
ASSUME NamesAssumption == NoName \notin Permissions \cup RoleNames

VARIABLES
    role,        \* table roles: the name of each row
    permission,  \* table permissions, likewise
    grants,      \* table role_permissions: pairs of a role and a permission
    holders,     \* table user_roles: pairs of a user and a role
    jwts,        \* the permissions of each access token signed so far
    req,         \* what each slot is doing
    seed,        \* what the seed script is doing
    calls,       \* how many requests that write were served
    seeds,       \* how often the seed script was started
    watch,       \* history: what each token being signed may and must carry
    intact,      \* history: nothing was taken away since the seed script started
    bootstrapped \* history: a seed script has made somebody admin

tables == <<role, permission, grants, holders>>
history == <<intact, bootstrapped>>
vars == <<tables, jwts, req, seed, calls, seeds, watch, history>>

-----------------------------------------------------------------------------
Idle == [op |-> "idle", role |-> 0, permission |-> 0, user |-> NoUser,
         name |-> NoName, code |-> "", read |-> {}, claims |-> {}]

Ops == {"idle", "error",
        "createRole", "rename", "removeRole",          \* roles
        "findPermission", "grant", "ungrant",          \* what a role may do
        "assign", "unassign",                          \* who has a role
        "createPermission", "removePermission",        \* permissions
        "access", "sign"}                              \* signAccessTokenForUser

Codes == {"P2002", "P2003", "P2025"}

Slot == [op : Ops, role : Ids \cup {0}, permission : Ids \cup {0},
         user : Users \cup {NoUser}, name : Permissions \cup RoleNames \cup {NoName},
         code : Codes \cup {""}, read : SUBSET Ids, claims : SUBSET Permissions]

NoSeed == [pc |-> "idle", user |-> NoUser, next |-> 1, admin |-> 0, todo |-> {}]

SeedPCs == {"idle", "permissions", "admin", "user", "read", "grant", "assign",
            "failed", "done"}

\* Rows of the tables that join: a role and a permission, a user and a role.
RolePermission == Ids \X Ids
UserRole == Users \X Ids

NoWatch == [roles |-> {}, grants |-> {}, kept |-> {}]

TypeOK ==
    /\ role \in [Ids -> RoleNames \cup {NoName}]
    /\ permission \in [Ids -> Permissions \cup {NoName}]
    /\ grants \subseteq RolePermission
    /\ holders \subseteq UserRole
    /\ jwts \subseteq SUBSET Permissions
    /\ req \in [Reqs -> Slot]
    /\ seed \in [pc : SeedPCs, user : Users \cup {NoUser},
                 next : 1 .. Len(PermissionList) + 1, admin : Ids \cup {0},
                 todo : SUBSET Ids]
    /\ calls \in 0 .. MaxCalls
    /\ seeds \in 0 .. MaxSeeds
    /\ watch \in [Reqs -> [roles : SUBSET Ids, grants : SUBSET (Ids \X Permissions),
                           kept : SUBSET (Ids \X Permissions)]]
    /\ <<intact, bootstrapped>> \in BOOLEAN \X BOOLEAN

At(r, op) == req[r].op = op
Goto(r, op) == req' = [req EXCEPT ![r].op = op]
Done(r) == req' = [req EXCEPT ![r] = Idle]

Roles == {i \in Ids : role[i] # NoName}
PermissionRows == {p \in Ids : permission[p] # NoName}

\* Identifiers are random and never used twice: the lowest one that neither a row
\* nor a request, a seed script or a history still refers to stands for a new one.
UsedRoles == Roles \cup {seed.admin} \cup {req[r].role : r \in Reqs}
                   \cup UNION {req[r].read \cup watch[r].roles : r \in Reqs}
UsedPermissions == PermissionRows \cup seed.todo \cup {req[r].permission : r \in Reqs}
Lowest(i, ids) == i \in ids /\ \A j \in ids : i <= j

-----------------------------------------------------------------------------
(* What the code and the database compute.                                 *)

\* PermissionsGuard, for a request with some access token signed before.
AllowedToAll(needed, claims) == claims = {} \/ needed \in claims
Allowed(needed, claims) == needed \in claims

\* The unique indexes on roles.name and permissions.name.
TakenNever(table, i, n) == FALSE
Taken(table, i, n) == \E j \in Ids \ {i} : table[j] = n

\* The foreign keys of role_permissions and user_roles: what refers to a deleted row
\* is deleted with it.
CascadeNothing(pairs, i, column) == pairs
Cascade(pairs, i, column) == {x \in pairs : x[column] # i}

\* GlobalExceptionFilter.resolvePrismaError.
StatusWithoutP2003(code) == CASE code = "P2002" -> 409 [] code = "P2025" -> 404 [] OTHER -> 500
Status(code) == CASE code = "P2002" -> 409
                  [] code = "P2025" -> 404
                  [] code = "P2003" -> 400
                  [] OTHER -> 500

\* The permissions of the roles read for a user: extractRolesAndPermissions.
ClaimsUnfiltered(ids) == {permission[g[2]] : g \in grants}
Claims(ids) == {permission[g[2]] : g \in {h \in grants : h[1] \in ids}}

RolesIn(pairs, u) == {h[2] : h \in {k \in pairs : k[1] = u}}
GrantedNames == {<<g[1], permission[g[2]]>> : g \in grants}

\* What a token being signed saw: every role its user had and every grant there was,
\* at some moment since it began, and what a role of the user granted all the time.
Observe ==
    watch' = [r \in Reqs |->
      IF req'[r].op \notin {"access", "sign"} THEN NoWatch
      ELSE LET held == RolesIn(holders', req'[r].user)
               now == GrantedNames'
               through == {g \in now : g[1] \in held} IN
           IF At(r, "idle")
           THEN [roles |-> held, grants |-> now, kept |-> through]
           ELSE [roles |-> watch[r].roles \cup held, grants |-> watch[r].grants \cup now,
                 kept |-> watch[r].kept \cap through]]

\* What else a write of a request, and a step of the script, leave alone.
RestOfWrite == UNCHANGED <<jwts, seed, calls, seeds>> /\ Observe
RestOfSeed == UNCHANGED <<jwts, req, calls>> /\ Observe

-----------------------------------------------------------------------------
Init ==
    /\ role = [i \in Ids |-> NoName]
    /\ permission = [p \in Ids |-> NoName]
    /\ grants = {}
    /\ holders = {}
    /\ jwts = {{}}
    /\ req = [r \in Reqs |-> Idle]
    /\ seed = NoSeed
    /\ calls = 0
    /\ seeds = 0
    /\ watch = [r \in Reqs |-> NoWatch]
    /\ intact = TRUE
    /\ bootstrapped = FALSE

-----------------------------------------------------------------------------
(* Requests arrive: the guard, and the first read with its 404 or 409.     *)

Begin(r, needed, request) ==
    /\ At(r, "idle")
    /\ \E claims \in jwts : Allowed(needed, claims)
    /\ calls < MaxCalls
    /\ calls' = calls + 1
    /\ req' = [req EXCEPT ![r] = request]
    /\ UNCHANGED <<tables, jwts, seed, seeds, history>>
    /\ Observe

CreateRole(r, n) ==
    /\ ~\E i \in Roles : role[i] = n
    /\ Begin(r, "roles:write", [Idle EXCEPT !.op = "createRole", !.name = n])
RenameRole(r, i, n) ==
    Begin(r, "roles:write", [Idle EXCEPT !.op = "rename", !.role = i, !.name = n])
RemoveRole(r, i) ==
    Begin(r, "roles:write", [Idle EXCEPT !.op = "removeRole", !.role = i])
AssignPermission(r, i, p) ==
    Begin(r, "roles:write", [Idle EXCEPT !.op = "findPermission", !.role = i,
                                         !.permission = p])
RevokePermission(r, i, p) ==
    Begin(r, "roles:write", [Idle EXCEPT !.op = "ungrant", !.role = i, !.permission = p])
AssignToUser(r, i, u) ==
    Begin(r, "roles:assign", [Idle EXCEPT !.op = "assign", !.role = i, !.user = u])
RevokeFromUser(r, i, u) ==
    Begin(r, "roles:assign", [Idle EXCEPT !.op = "unassign", !.role = i, !.user = u])
CreatePermission(r, n) ==
    /\ ~\E p \in PermissionRows : permission[p] = n
    /\ Begin(r, "permissions:write", [Idle EXCEPT !.op = "createPermission", !.name = n])
RemovePermission(r, p) ==
    Begin(r, "permissions:write", [Idle EXCEPT !.op = "removePermission", !.permission = p])

\* A login or a refresh gets to signAccessTokenForUser.
SignIn(r, u) ==
    /\ At(r, "idle")
    /\ req' = [req EXCEPT ![r] = [Idle EXCEPT !.op = "access", !.user = u,
                                              !.read = RolesIn(holders, u)]]
    /\ UNCHANGED <<tables, jwts, seed, calls, seeds, history>>
    /\ Observe

-----------------------------------------------------------------------------
(* Their writes, each of which the database may refuse.                    *)

Refuse(r, code) ==
    /\ req' = [req EXCEPT ![r] = [Idle EXCEPT !.op = "error", !.code = code]]
    /\ UNCHANGED <<tables, history>>

InsertRole(r) ==
    /\ At(r, "createRole")
    /\ \/ Taken(role, 0, req[r].name) /\ Refuse(r, "P2002")
       \/ /\ ~Taken(role, 0, req[r].name)
          /\ \E i \in Ids : /\ Lowest(i, Ids \ UsedRoles)
                            /\ role' = [role EXCEPT ![i] = req[r].name]
          /\ Done(r)
          /\ UNCHANGED <<permission, grants, holders, history>>
    /\ RestOfWrite

UpdateRole(r) ==
    /\ At(r, "rename")
    /\ LET i == req[r].role IN
       \/ i \notin Roles /\ Refuse(r, "P2025")
       \/ i \in Roles /\ Taken(role, i, req[r].name) /\ Refuse(r, "P2002")
       \/ /\ i \in Roles
          /\ ~Taken(role, i, req[r].name)
          /\ role' = [role EXCEPT ![i] = req[r].name]
          /\ intact' = FALSE
          /\ Done(r)
          /\ UNCHANGED <<permission, grants, holders, bootstrapped>>
    /\ RestOfWrite

DeleteRole(r) ==
    /\ At(r, "removeRole")
    /\ LET i == req[r].role IN
       \/ i \notin Roles /\ Refuse(r, "P2025")
       \/ /\ i \in Roles
          /\ role' = [role EXCEPT ![i] = NoName]
          /\ grants' = Cascade(grants, i, 1)
          /\ holders' = Cascade(holders, i, 2)
          /\ intact' = FALSE
          /\ Done(r)
          /\ UNCHANGED <<permission, bootstrapped>>
    /\ RestOfWrite

FindPermission(r) ==
    /\ At(r, "findPermission")
    /\ IF req[r].permission \in PermissionRows THEN Goto(r, "grant") ELSE Done(r)
    /\ UNCHANGED <<tables, history>>
    /\ RestOfWrite

UpsertGrant(r) ==
    /\ At(r, "grant")
    /\ LET g == <<req[r].role, req[r].permission>> IN
       IF g \in Roles \X PermissionRows
       THEN /\ grants' = grants \cup {g}
            /\ Done(r)
            /\ UNCHANGED <<role, permission, holders, history>>
       ELSE Refuse(r, "P2003")
    /\ RestOfWrite

DeleteGrant(r) ==
    /\ At(r, "ungrant")
    /\ LET g == <<req[r].role, req[r].permission>> IN
       IF g \in grants
       THEN /\ grants' = grants \ {g}
            /\ intact' = FALSE
            /\ Done(r)
            /\ UNCHANGED <<role, permission, holders, bootstrapped>>
       ELSE Refuse(r, "P2025")
    /\ RestOfWrite

UpsertHolder(r) ==
    /\ At(r, "assign")
    /\ IF req[r].role \in Roles
       THEN /\ holders' = holders \cup {<<req[r].user, req[r].role>>}
            /\ Done(r)
            /\ UNCHANGED <<role, permission, grants, history>>
       ELSE Refuse(r, "P2003")
    /\ RestOfWrite

DeleteHolder(r) ==
    /\ At(r, "unassign")
    /\ LET h == <<req[r].user, req[r].role>> IN
       IF h \in holders
       THEN /\ holders' = holders \ {h}
            /\ intact' = FALSE
            /\ Done(r)
            /\ UNCHANGED <<role, permission, grants, bootstrapped>>
       ELSE Refuse(r, "P2025")
    /\ RestOfWrite

InsertPermission(r) ==
    /\ At(r, "createPermission")
    /\ \/ Taken(permission, 0, req[r].name) /\ Refuse(r, "P2002")
       \/ /\ ~Taken(permission, 0, req[r].name)
          /\ \E p \in Ids : /\ Lowest(p, Ids \ UsedPermissions)
                            /\ permission' = [permission EXCEPT ![p] = req[r].name]
          /\ Done(r)
          /\ UNCHANGED <<role, grants, holders, history>>
    /\ RestOfWrite

DeletePermission(r) ==
    /\ At(r, "removePermission")
    /\ LET p == req[r].permission IN
       \/ p \notin PermissionRows /\ Refuse(r, "P2025")
       \/ /\ p \in PermissionRows
          /\ permission' = [permission EXCEPT ![p] = NoName]
          /\ grants' = Cascade(grants, p, 2)
          /\ intact' = FALSE
          /\ Done(r)
          /\ UNCHANGED <<role, holders, bootstrapped>>
    /\ RestOfWrite

\* The filter answers with Status(code).
Catch(r) ==
    /\ At(r, "error")
    /\ Done(r)
    /\ UNCHANGED <<tables, history>>
    /\ RestOfWrite

\* findWithAccessById reads the roles of the user first, what they grant later.  A
\* role deleted between makes the query fail, or is left out, as it grants nothing.
ReadAccess(r) ==
    /\ At(r, "access")
    /\ \/ req' = [req EXCEPT ![r].op = "sign", ![r].claims = Claims(req[r].read)]
       \/ ~(req[r].read \subseteq Roles) /\ Done(r)
    /\ UNCHANGED <<tables, history>>
    /\ RestOfWrite

Sign(r) ==
    /\ At(r, "sign")
    /\ jwts' = jwts \cup {req[r].claims}
    /\ Done(r)
    /\ UNCHANGED <<tables, seed, calls, seeds, history>>
    /\ Observe

-----------------------------------------------------------------------------
(* prisma/seed.ts: upserts one after the other, but the grants at once.    *)

\* The row with this name, or a new one.
Upsert(table, used, n, i) == IF Taken(table, 0, n) THEN table[i] = n
                                                   ELSE Lowest(i, Ids \ used)

StartSeed(u) ==
    /\ seed.pc \in {"idle", "done"}
    /\ seeds < MaxSeeds
    /\ seeds' = seeds + 1
    /\ seed' = [NoSeed EXCEPT !.pc = "permissions", !.user = u]
    /\ intact' = TRUE
    /\ UNCHANGED <<tables, bootstrapped>>
    /\ RestOfSeed

SeedPermission ==
    /\ seed.pc = "permissions"
    /\ LET n == PermissionList[seed.next] IN
         \E p \in Ids : /\ Upsert(permission, UsedPermissions, n, p)
                        /\ permission' = [permission EXCEPT ![p] = n]
    /\ seed' = [seed EXCEPT !.next = @ + 1,
                            !.pc = IF seed.next = Len(PermissionList) THEN "admin" ELSE @]
    /\ UNCHANGED <<role, grants, holders, seeds, history>>
    /\ RestOfSeed

SeedRole ==
    /\ seed.pc \in {"admin", "user"}
    /\ \E i \in Ids :
         /\ Upsert(role, UsedRoles, seed.pc, i)
         /\ role' = [role EXCEPT ![i] = seed.pc]
         /\ seed' = IF seed.pc = "admin" THEN [seed EXCEPT !.pc = "user", !.admin = i]
                                         ELSE [seed EXCEPT !.pc = "read"]
    /\ UNCHANGED <<permission, grants, holders, seeds, history>>
    /\ RestOfSeed

SeedRead ==
    /\ seed.pc = "read"
    /\ seed' = [seed EXCEPT !.pc = IF PermissionRows = {} THEN "assign" ELSE "grant",
                            !.todo = PermissionRows]
    /\ UNCHANGED <<tables, seeds, history>>
    /\ RestOfSeed

\* Promise.all: when one grant fails the others still may be written.
LeftToGrantNothing(todo, p) == {}
LeftToGrant(todo, p) == todo \ {p}

SeedGrant(p) ==
    /\ seed.pc \in {"grant", "failed"}
    /\ p \in seed.todo
    /\ LET left == LeftToGrant(seed.todo, p)
           exists == <<seed.admin, p>> \in Roles \X PermissionRows IN
         /\ grants' = IF exists THEN grants \cup {<<seed.admin, p>>} ELSE grants
         /\ seed' = [seed EXCEPT !.todo = left,
                                 !.pc = CASE ~exists -> "failed"
                                          [] exists /\ left = {} /\ @ = "grant" -> "assign"
                                          [] OTHER -> @]
    /\ UNCHANGED <<role, permission, holders, seeds, history>>
    /\ RestOfSeed

\* The account of ADMIN_EMAIL, when it is set and exists.
SeedAssign ==
    /\ seed.pc = "assign"
    /\ IF seed.user = NoUser
       THEN seed' = [seed EXCEPT !.pc = "done"] /\ UNCHANGED <<holders, bootstrapped>>
       ELSE IF seed.admin \in Roles
       THEN /\ holders' = holders \cup {<<seed.user, seed.admin>>}
            /\ seed' = [seed EXCEPT !.pc = "done"]
            /\ bootstrapped' = TRUE
       ELSE seed' = [seed EXCEPT !.pc = "failed"] /\ UNCHANGED <<holders, bootstrapped>>
    /\ UNCHANGED <<role, permission, grants, seeds, intact>>
    /\ RestOfSeed

SeedExit ==
    /\ seed.pc = "failed"
    /\ seed' = NoSeed
    /\ UNCHANGED <<tables, seeds, history>>
    /\ RestOfSeed

-----------------------------------------------------------------------------
Call(r) ==
    \/ \E n \in RoleNames : CreateRole(r, n)
    \/ \E i \in Roles, n \in RoleNames : RenameRole(r, i, n)
    \/ \E i \in Roles : RemoveRole(r, i)
    \/ \E i \in Roles, p \in PermissionRows :
         AssignPermission(r, i, p) \/ RevokePermission(r, i, p)
    \/ \E i \in Roles, u \in Users : AssignToUser(r, i, u) \/ RevokeFromUser(r, i, u)
    \/ \E n \in Permissions : CreatePermission(r, n)
    \/ \E p \in PermissionRows : RemovePermission(r, p)
    \/ \E u \in Users : SignIn(r, u)

Write(r) ==
    \/ InsertRole(r) \/ UpdateRole(r) \/ DeleteRole(r)
    \/ FindPermission(r) \/ UpsertGrant(r) \/ DeleteGrant(r)
    \/ UpsertHolder(r) \/ DeleteHolder(r)
    \/ InsertPermission(r) \/ DeletePermission(r)
    \/ Catch(r) \/ ReadAccess(r) \/ Sign(r)

Seed ==
    \/ \E u \in {Admin, NoUser} : StartSeed(u)
    \/ SeedPermission \/ SeedRole \/ SeedRead \/ SeedAssign \/ SeedExit
    \/ \E p \in Ids : SeedGrant(p)

Next ==
    \/ \E r \in Reqs : Call(r)
    \/ \E r \in Reqs : Write(r)
    \/ Seed

Spec == Init /\ [][Next]_vars

-----------------------------------------------------------------------------
(* Properties.                                                             *)

\* A token carries nothing that no role of its user granted, as far as the roles the
\* user had and the grants there were while it was being signed, and everything
\* that one of them granted all the while: so a change of roles reaches a user with
\* the next login or refresh, and never later (README.md:80, auth.service.ts:236-248).
\* The two reads are apart, hence the role and the grant need not have met.
SignedWhatWasHeld ==
    \A r \in Reqs : At(r, "sign") =>
      /\ \A n \in req[r].claims : \E i \in watch[r].roles : <<i, n>> \in watch[r].grants
      /\ \A g \in watch[r].kept : g[2] \in req[r].claims

\* However creations, renamings and the seed script race past their checks, no name
\* is given twice (roles.service.ts:29-35, schema.prisma:48, 61).
UniqueNames ==
    \A i, j \in Ids : i # j => /\ i \in Roles => role[i] # role[j]
                               /\ i \in PermissionRows => permission[i] # permission[j]

\* Nothing refers to a role or a permission that was deleted, also when it was granted
\* or assigned by a request that had found it before (schema.prisma:76-77, 89-90).
NothingDangles ==
    /\ grants \subseteq Roles \X PermissionRows
    /\ holders \subseteq Users \X Roles

\* A request whose write is refused because of what others did since it looked is told
\* so, and never that the server failed (README.md:81, global-exception.filter.ts:90-111).
RacesAreClientErrors == \A r \in Reqs : At(r, "error") => Status(req[r].code) < 500

\* After the seed script has succeeded, and unless somebody took something away since it
\* began, the role admin has every permission of the list, and the account it was run
\* for has that role, whatever requests did meanwhile (seed.ts:19-57).
SeedRestoresAdmin ==
    seed.pc = "done" /\ intact =>
      \E a \in Roles :
        /\ role[a] = "admin"
        /\ \A n \in Permissions : <<a, n>> \in GrantedNames
        /\ seed.user # NoUser => <<seed.user, a>> \in holders

\* Until the seed script has made somebody admin nobody has a role or a token with a
\* permission, and there is nothing but what the script creates (README.md:423).
SeedBootstraps ==
    ~bootstrapped => holders = {} /\ jwts = {{}} /\ calls = 0

=============================================================================
