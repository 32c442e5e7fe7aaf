------------------------------ MODULE Directory ------------------------------
(***************************************************************************)
(* Accounts, roles and invitations: handlers/role.rs, handlers/user.rs,     *)
(* handlers/registration.rs, the invitations and settings of                *)
(* handlers/admin.rs, role.rs, invitation.rs, user/mod.rs, and the          *)
(* init-admin command of cli.rs.                                            *)
(*                                                                          *)
(* Role changes and the first half of a registration run outside a          *)
(* transaction, on a connection taken from a bounded pool: such a request   *)
(* takes one step per statement that another one can get between.           *)
(***************************************************************************)
EXTENDS Authority, FiniteSets

CONSTANTS
    Usernames,      \* users.username
    NoUser,         \* no row in users
    Roles,          \* ids of roles, each drawn once
    AdminRole,      \* the built-in role `admin'
    UserRole,       \* the built-in role `user'
    Invitations,    \* ids of invitations, each drawn once
    NoInvitation,   \* no row, or no invite_code
    Requests,       \* HTTP requests and CLI runs in flight
    PoolSize,       \* connections of db_pool
    MaxUses,        \* bound: max_uses asked for
    MaxTime         \* bound: the clock stops here

\* max_uses or expires_at is NULL.
Unlimited == -1

BuiltIn == {AdminRole, UserRole}
InvitationRow == [max_uses : 1 .. MaxUses \cup {Unlimited}, uses : Nat,
                  expires_at : Nat \cup {Unlimited}]

ASSUME DirectoryAssumption ==
    /\ BuiltIn \subseteq Roles
    /\ NoUser \notin Usernames
    /\ NoInvitation \notin Invitations \cup InvitationRow
    /\ IsFiniteSet(Users) /\ IsFiniteSet(Requests)
    /\ {PoolSize, MaxUses, MaxTime} \subseteq Nat /\ PoolSize > 0

VARIABLES
    username,           \* users rows
    role,               \* roles rows: not yet created, there, deleted
    user_roles,         \* user_roles rows
    invitation,         \* invitations rows
    open_registration,  \* the setting
    req,                \* requests in flight
    pool,               \* requests that have a connection of db_pool in their hands
    invited             \* history: the invitation an account was made with

directoryVars == <<username, role, user_roles, invitation, open_registration, req, pool, invited>>

Idle == [pc |-> "idle"]
RoleRequest == [pc : {"assign", "remove", "revoke"}, user : Users, role : Roles]
               \cup [pc : {"delete"}, role : Roles]
Registration == [pc : {"settings", "invite", "insert", "welcome"}, user : Users,
                 name : Usernames, code : Invitations \cup {NoInvitation}, open : BOOLEAN]
Command == [pc : {"init"}, user : Users, name : Usernames]
Request == {Idle} \cup RoleRequest \cup Registration \cup Command

Exists(u) == username[u] # NoUser

\* A request has drawn the id of an account it has not made yet.
Drafting(p) == req[p].pc \in {"settings", "invite", "insert", "init"}

\* User::new draws an id nobody else has.
Fresh(u) == ~Exists(u) /\ \A q \in Requests : Drafting(q) => req[q].user # u

Taken(n) == \E u \in Users : username[u] = n
Admins == {u \in Users : AdminRole \in user_roles[u]}

\* AdminUser: an accepted access token; the roles are those of the database.
IsAdmin(u) ==
    /\ u \in Admins
    /\ \E c \in creds : c.user = u /\ VerifyAccess(c)

-----------------------------------------------------------------------------
(* The connection pool.  A handler that acquires a connection, uses it and     *)
(* drops it between two awaits of its own needs only a free one; init-admin    *)
(* is a process, and a pool, of its own.                                       *)

Free == Cardinality(pool) < PoolSize

\* Request p goes on as r; a handler that returns drops the connection it has.
Goto(p, r) ==
    /\ req' = [req EXCEPT ![p] = r]
    /\ pool' = IF r = Idle THEN pool \ {p} ELSE pool

\* db_pool.acquire() has found a connection.
Acquire(p, r) ==
    /\ Free
    /\ req' = [req EXCEPT ![p] = r]
    /\ pool' = pool \cup {p}

\* Mutant: the connection stays with the request until its handler returns.
ReleaseAtReturn(p, r) == Goto(p, r)

\* drop(conn).
Release(p, r) ==
    /\ req' = [req EXCEPT ![p] = r]
    /\ pool' = pool \ {p}

\* Requests that cannot go on without one more connection.
Waiting(p) == req[p].pc \in {"insert", "welcome"}

-----------------------------------------------------------------------------
(* Roles *)

\* create_role.
CreateRole(a, r) ==
    /\ Free /\ IsAdmin(a)
    /\ role[r] = "none"
    /\ role' = [role EXCEPT ![r] = "live"]
    /\ UNCHANGED <<authVars, username, user_roles, invitation, open_registration, req, pool, invited>>

\* assign_role up to the INSERT: the user and the role exist, not yet assigned.
AssignRole(p, a, u, r) ==
    /\ req[p] = Idle /\ IsAdmin(a)
    /\ Exists(u)
    /\ role[r] = "live"
    /\ r \notin user_roles[u]
    /\ Acquire(p, [pc |-> "assign", user |-> u, role |-> r])
    /\ UNCHANGED <<authVars, username, role, user_roles, invitation, open_registration, invited>>

\* The INSERT: the primary key refuses a second assignment, the foreign key one
\* of a role that is gone.
InsertAssignment(p) ==
    LET r == req[p] IN
    /\ r.pc = "assign"
    /\ IF role[r.role] = "live" /\ r.role \notin user_roles[r.user]
       THEN /\ user_roles' = [user_roles EXCEPT ![r.user] = @ \cup {r.role}]
            /\ Goto(p, [r EXCEPT !.pc = "revoke"])
       ELSE Goto(p, Idle) /\ UNCHANGED user_roles
    /\ UNCHANGED <<authVars, username, role, invitation, open_registration, invited>>

\* remove_role up to the DELETE: not from oneself, not from the last admin.
RemoveRole(p, a, u, r) ==
    /\ req[p] = Idle /\ IsAdmin(a)
    /\ a # u
    /\ r = AdminRole => Cardinality(Admins) > 1
    /\ Acquire(p, [pc |-> "remove", user |-> u, role |-> r])
    /\ UNCHANGED <<authVars, username, role, user_roles, invitation, open_registration, invited>>

\* UserRole::remove.
DeleteAssignment(p) ==
    LET r == req[p] IN
    /\ r.pc = "remove"
    /\ user_roles' = [user_roles EXCEPT ![r.user] = @ \ {r.role}]
    /\ Goto(p, IF r.role \in user_roles[r.user] THEN [r EXCEPT !.pc = "revoke"] ELSE Idle)
    /\ UNCHANGED <<authVars, username, role, invitation, open_registration, invited>>

\* revoke_user_access_tokens, whose error assign_role and remove_role ignore.
RevokeAfterChange(p) ==
    /\ req[p].pc = "revoke"
    /\ Revoke(req[p].user)
    /\ Goto(p, Idle)
    /\ UNCHANGED <<username, role, user_roles, invitation, open_registration, invited>>

\* delete_role up to the DELETE: not assigned, not built in.
CheckUnassigned(p, a, r) ==
    /\ req[p] = Idle /\ IsAdmin(a)
    /\ \A u \in Users : r \notin user_roles[u]
    /\ r \notin BuiltIn
    /\ Acquire(p, [pc |-> "delete", role |-> r])
    /\ UNCHANGED <<authVars, username, role, user_roles, invitation, open_registration, invited>>

\* The DELETE, and ON DELETE CASCADE of user_roles for what came in between.
DeleteRole(p) ==
    LET r == req[p].role IN
    /\ req[p].pc = "delete"
    /\ role' = [role EXCEPT ![r] = IF @ = "live" THEN "gone" ELSE @]
    /\ user_roles' = [u \in Users |-> user_roles[u] \ {r}]
    /\ Goto(p, Idle)
    /\ UNCHANGED <<authVars, username, invitation, open_registration, invited>>

-----------------------------------------------------------------------------
(* Accounts *)

\* The row of a new account with its password and its role.
NewAccount(u, n, r, i) ==
    /\ username' = [username EXCEPT ![u] = n]
    /\ user_roles' = [user_roles EXCEPT ![u] = {r}]
    /\ invited' = [invited EXCEPT ![u] = i]

\* create_user: one transaction; a taken name rolls it back.
CreateUser(a, u, n) ==
    /\ Free /\ IsAdmin(a)
    /\ Fresh(u) /\ ~Taken(n)
    /\ NewAccount(u, n, UserRole, NoInvitation)
    /\ UNCHANGED <<authVars, role, invitation, open_registration, req, pool>>

\* User::update; a taken name rolls the transaction back.
Rename(u, n) ==
    /\ Free
    /\ Exists(u) /\ ~Taken(n)
    /\ username' = [username EXCEPT ![u] = n]
    /\ UNCHANGED <<authVars, role, user_roles, invitation, open_registration, req, pool, invited>>

\* update_user and update_me: one transaction that reads and writes the row.
UpdateUser(a, u, n) == IsAdmin(a) /\ Rename(u, n)
UpdateMe(u, n) == (\E c \in creds : c.user = u /\ VerifyAccess(c)) /\ Rename(u, n)

\* init_admin counts the admins ...
InitAdmin(p, u, n) ==
    /\ req[p] = Idle
    /\ Admins = {}
    /\ Fresh(u)
    /\ Goto(p, [pc |-> "init", user |-> u, name |-> n])
    /\ UNCHANGED <<authVars, username, role, user_roles, invitation, open_registration, invited>>

\* ... and inserts the account in a later transaction.
InsertAdmin(p) ==
    LET r == req[p] IN
    /\ r.pc = "init"
    /\ IF Taken(r.name) THEN UNCHANGED <<username, user_roles, invited>>
                        ELSE NewAccount(r.user, r.name, AdminRole, NoInvitation)
    /\ Goto(p, Idle)
    /\ UNCHANGED <<authVars, role, invitation, open_registration>>

-----------------------------------------------------------------------------
(* Invitations and the registration mode *)

\* validate_input wants a use and a time to come.
ValidInput == [max_uses : 1 .. MaxUses \cup {Unlimited},
               expires_at : now + 1 .. MaxTime \cup {Unlimited}]

\* Invitation::new.
NewInvitation(input) ==
    [max_uses |-> input.max_uses, uses |-> 0, expires_at |-> input.expires_at]

\* create_invitation
CreateInvitation(a, i) ==
    /\ Free /\ IsAdmin(a)
    /\ invitation[i] = NoInvitation
    /\ \A p \in Requests : req[p].pc \in {"settings", "invite", "insert"} => req[p].code # i
    /\ \A u \in Users : invited[u] # i
    /\ \E input \in ValidInput : invitation' = [invitation EXCEPT ![i] = NewInvitation(input)]
    /\ UNCHANGED <<authVars, username, role, user_roles, open_registration, req, pool, invited>>

DeleteInvitation(a, i) ==
    /\ Free /\ IsAdmin(a)
    /\ invitation[i] # NoInvitation
    /\ invitation' = [invitation EXCEPT ![i] = NoInvitation]
    /\ UNCHANGED <<authVars, username, role, user_roles, open_registration, req, pool, invited>>

\* update_settings, its open_registration: one transaction.
UpdateSettings(a) ==
    /\ Free /\ IsAdmin(a)
    /\ open_registration' = ~open_registration
    /\ UNCHANGED <<authVars, username, role, user_roles, invitation, req, pool, invited>>

\* Invitation::is_valid.
IsValid(i) ==
    /\ invitation[i] # NoInvitation
    /\ invitation[i].expires_at = Unlimited \/ invitation[i].expires_at > now
    /\ invitation[i].max_uses = Unlimited \/ invitation[i].uses < invitation[i].max_uses

\* Mutant: the UPDATE trusts what is_valid has seen.
ConsumableAsSeen(i) == invitation[i] # NoInvitation

\* The row the UPDATE of Invitation::consume matches.
Consumable(i) == IsValid(i)

-----------------------------------------------------------------------------
(* register *)

\* The connection on which register reads.
Register(p, u, n, i) ==
    /\ req[p] = Idle
    /\ Fresh(u)
    /\ Acquire(p, [pc |-> "settings", user |-> u, name |-> n, code |-> i, open |-> FALSE])
    /\ UNCHANGED <<authVars, username, role, user_roles, invitation, open_registration, invited>>

\* open_registration_enabled; an open instance asks for no invitation.
ReadMode(p) ==
    LET r == req[p] IN
    /\ r.pc = "settings"
    /\ IF open_registration THEN Release(p, [r EXCEPT !.pc = "insert", !.open = TRUE])
       ELSE Goto(p, IF r.code = NoInvitation THEN Idle ELSE [r EXCEPT !.pc = "invite"])
    /\ UNCHANGED <<authVars, username, role, user_roles, invitation, open_registration, invited>>

\* Invitation::get and is_valid, then the connection is dropped.
ReadInvitation(p) ==
    LET r == req[p] IN
    /\ r.pc = "invite"
    /\ IF IsValid(r.code) THEN Release(p, [r EXCEPT !.pc = "insert"]) ELSE Goto(p, Idle)
    /\ UNCHANGED <<authVars, username, role, user_roles, invitation, open_registration, invited>>

\* The transaction, on a connection of its own: the invitation is consumed, unless
\* registration was open when it was looked at, and the account made; a refusal
\* undoes both.
InsertAccount(p) ==
    LET r == req[p]
        code == IF r.open THEN NoInvitation ELSE r.code
    IN  /\ r.pc = "insert" /\ Free
        /\ IF ~Taken(r.name) /\ (r.open \/ Consumable(r.code))
           THEN /\ NewAccount(r.user, r.name, UserRole, code)
                /\ invitation' = IF r.open THEN invitation
                                 ELSE [invitation EXCEPT ![r.code].uses = @ + 1]
                /\ Goto(p, [r EXCEPT !.pc = "welcome"])
           ELSE Goto(p, Idle) /\ UNCHANGED <<username, user_roles, invited, invitation>>
        /\ UNCHANGED <<authVars, role, open_registration>>

\* generate_token_pair for the new account, on a third connection; c is the first credential of its login.
Welcome(p, c) ==
    LET r == req[p] IN
    /\ r.pc = "welcome" /\ Free
    /\ c.user = r.user
    /\ c.session_version = token_version[r.user]
    /\ SignIn(c)
    /\ Goto(p, Idle)
    /\ UNCHANGED <<username, role, user_roles, invitation, open_registration, invited>>

\* The handler's future is dropped between two statements, or one of them fails.
AbortRequest(p) ==
    /\ req[p] # Idle
    /\ Goto(p, Idle)
    /\ UNCHANGED <<authVars, username, role, user_roles, invitation, open_registration, invited>>

-----------------------------------------------------------------------------
DirectoryInit(admins, others) ==
    /\ role = [r \in Roles |-> IF r \in BuiltIn THEN "live" ELSE "none"]
    /\ \E names \in [admins \cup others -> Usernames] :
          /\ \A u, v \in admins \cup others : names[u] = names[v] => u = v
          /\ username = [u \in Users |-> IF u \in admins \cup others THEN names[u] ELSE NoUser]
    /\ user_roles = [u \in Users |-> (IF u \in admins THEN {AdminRole} ELSE {}) \cup
                                     (IF u \in others THEN {UserRole} ELSE {})]
    /\ invitation = [i \in Invitations |-> NoInvitation]
    /\ open_registration = FALSE
    /\ req = [p \in Requests |-> Idle]
    /\ pool = {}
    /\ invited = [u \in Users |-> NoInvitation]

RoleSteps ==
    \/ \E a \in Users, r \in Roles : CreateRole(a, r)
    \/ \E p \in Requests :
          \/ \E a, u \in Users, r \in Roles : AssignRole(p, a, u, r) \/ RemoveRole(p, a, u, r)
          \/ \E a \in Users, r \in Roles : CheckUnassigned(p, a, r)
          \/ InsertAssignment(p) \/ DeleteAssignment(p) \/ RevokeAfterChange(p) \/ DeleteRole(p)

AccountSteps ==
    \/ \E a, u \in Users, n \in Usernames : CreateUser(a, u, n) \/ UpdateUser(a, u, n)
    \/ \E u \in Users, n \in Usernames : UpdateMe(u, n)
    \/ \E p \in Requests : InsertAdmin(p) \/ \E u \in Users, n \in Usernames : InitAdmin(p, u, n)

\* NewSession(n, u) is the credential that starts login n of user u.
InvitationSteps(NewSession(_, _)) ==
    \/ \E a \in Users : UpdateSettings(a)
    \/ \E a \in Users, i \in Invitations : CreateInvitation(a, i) \/ DeleteInvitation(a, i)
    \/ \E p \in Requests :
          \/ \E u \in Users, n \in Usernames, i \in Invitations \cup {NoInvitation} :
                Register(p, u, n, i)
          \/ ReadMode(p) \/ ReadInvitation(p) \/ InsertAccount(p)
          \/ \E n \in Logins, u \in Users : Welcome(p, NewSession(n, u))

-----------------------------------------------------------------------------
DirectoryTypeOK ==
    /\ username \in [Users -> Usernames \cup {NoUser}]
    /\ role \in [Roles -> {"none", "live", "gone"}]
    /\ user_roles \in [Users -> SUBSET Roles]
    /\ invitation \in [Invitations -> InvitationRow \cup {NoInvitation}]
    /\ open_registration \in BOOLEAN
    /\ req \in [Requests -> Request]
    /\ pool \subseteq Requests
    /\ invited \in [Users -> Invitations \cup {NoInvitation}]

=============================================================================
