---------------------------- MODULE AccountsProofs ----------------------------
(***************************************************************************)
(* Proofs about Accounts, for every set of users, requests, invitations,    *)
(* keys and challenges, and every pool of at least one connection.          *)
(*                                                                          *)
(* The tables of Directory and the ceremonies of Passkeys meet only in the  *)
(* central sessions: each half has an invariant of its own, and AuthorityProofs *)
(* says what a session step leaves to both.                                 *)
(***************************************************************************)
EXTENDS Accounts, AuthorityProofs, FiniteSetTheorems

\* A request that has drawn an id, and one that may have a connection in its hands:
\* it is not one that waits for a connection, and not init-admin.
Draft(r) == r.pc \in {"settings", "invite", "insert", "init"}
Held(r) == r.pc \notin {"idle", "insert", "welcome", "init"}

\* The built-in roles stay.
RolesOK ==
    /\ \A r \in BuiltIn : role[r] = "live"
    /\ \A p \in Requests : req[p].pc = "delete" => req[p].role \notin BuiltIn

\* An id that was drawn belongs to one request and to no account.
DraftsOK ==
    /\ \A p \in Requests : Draft(req[p]) => ~Exists(req[p].user)
    /\ \A p, q \in Requests :
          p # q /\ Draft(req[p]) /\ Draft(req[q]) => req[p].user # req[q].user
    /\ \A u \in Users : ~Exists(u) => invited[u] = NoInvitation

\* A registration that is to consume an invitation was given one.
CodeOK(r) == r.pc = "invite" \/ (r.pc = "insert" /\ ~r.open) => r.code # NoInvitation
CodesOK == \A p \in Requests : CodeOK(req[p])

\* No more connections are out than there are, and none is with a request that
\* waits for one.
PoolOK ==
    /\ Cardinality(pool) <= PoolSize
    /\ \A p \in pool : Held(req[p])

\* Request p goes on as r, and has a connection afterwards only if r may.
Moves(p, r) ==
    \/ Acquire(p, r) /\ Held(r)
    \/ Release(p, r)
    \/ Goto(p, r) /\ (r = Idle \/ Held(r) \/ ~Held(req[p]))

DirectoryInv ==
    /\ DirectoryTypeOK
    /\ RolesOK
    /\ DraftsOK
    /\ CodesOK
    /\ InvitationsCountAccounts
    /\ PoolOK

-----------------------------------------------------------------------------
(* Requests and the pool *)

\* The program counter of a request tells what it carries.
LEMMA Registers ==
    ASSUME DirectoryTypeOK, NEW p \in Requests
    PROVE  /\ req[p] \in Request
           /\ req[p].pc \in {"assign", "remove", "revoke"} =>
                 req[p] \in [pc : {"assign", "remove", "revoke"}, user : Users, role : Roles]
           /\ req[p].pc = "delete" => req[p] \in [pc : {"delete"}, role : Roles]
           /\ req[p].pc \in {"settings", "invite", "insert", "welcome"} => req[p] \in Registration
           /\ req[p].pc = "init" => req[p] \in Command
BY DEF DirectoryTypeOK, Request, Idle, RoleRequest, Registration, Command

\* A request moves: the pool is not overdrawn, as a connection is taken only when
\* one is free, and it is given back before the request waits for another.
LEMMA RequestMoves ==
    ASSUME DirectoryInv, NEW p \in Requests, NEW r \in Request, Moves(p, r)
    PROVE  /\ req' \in [Requests -> Request]
           /\ pool' \subseteq Requests
           /\ req'[p] = r
           /\ \A q \in Requests : q # p => req'[q] = req[q]
           /\ PoolOK'
<1>1. /\ req' \in [Requests -> Request]
      /\ req'[p] = r
      /\ \A q \in Requests : q # p => req'[q] = req[q]
  BY DEF DirectoryInv, DirectoryTypeOK, Moves, Goto, Acquire, Release
<1>2. pool' \subseteq pool \cup {p} /\ pool \subseteq Requests
  BY DEF DirectoryInv, DirectoryTypeOK, Moves, Goto, Acquire, Release
<1>3. IsFiniteSet(pool) /\ PoolSize \in Nat /\ Cardinality(pool) <= PoolSize
  BY <1>2, DirectoryAssumption, FS_Subset DEF DirectoryInv, PoolOK
<1>4. Cardinality(pool) \in Nat
  BY <1>3, FS_CardinalityType
<1>5. Cardinality(pool') <= PoolSize
  <2>1. CASE pool' \subseteq pool
    <3>1. IsFiniteSet(pool') /\ Cardinality(pool') <= Cardinality(pool)
      BY <1>3, <2>1, FS_Subset
    <3>2. Cardinality(pool') \in Nat
      BY <3>1, FS_CardinalityType
    <3> QED BY <1>3, <1>4, <3>1, <3>2
  <2>2. CASE ~(pool' \subseteq pool)
    <3>1. p \notin pool /\ pool' = pool \cup {p} /\ Cardinality(pool) < PoolSize
      BY <2>2 DEF Moves, Goto, Acquire, Release, Free
    <3>2. Cardinality(pool') = Cardinality(pool) + 1
      BY <1>3, <3>1, FS_AddElement
    <3> QED BY <1>3, <1>4, <3>1, <3>2
  <2> QED BY <2>1, <2>2
<1>6. ASSUME NEW q \in pool' PROVE Held(req'[q])
  <2>1. CASE q # p
    BY <1>1, <1>2, <1>6, <2>1 DEF DirectoryInv, PoolOK
  <2>2. CASE q = p
    <3>1. Held(r)
      BY <1>6, <2>2 DEF DirectoryInv, PoolOK, Moves, Goto, Acquire, Release
    <3> QED BY <1>1, <2>2, <3>1
  <2> QED BY <2>1, <2>2
<1> QED BY <1>1, <1>2, <1>5, <1>6 DEF PoolOK

\* Idle is a request, and promises nothing.
LEMMA IdleIsFine == Idle \in Request /\ Idle.pc = "idle" /\ ~Draft(Idle) /\ ~Held(Idle) /\ CodeOK(Idle)
BY DEF Idle, Request, Draft, Held, CodeOK

\* A request moves and the tables stay: it has to keep its own promises.
LEMMA MoveKeeps ==
    ASSUME DirectoryInv, NEW p \in Requests, NEW r \in Request, Moves(p, r),
           UNCHANGED <<username, role, user_roles, invitation, open_registration, invited>>,
           r.pc = "delete" => r.role \notin BuiltIn,
           Draft(r) => \/ Fresh(r.user)
                       \/ Draft(req[p]) /\ req[p].user = r.user,
           CodeOK(r)
    PROVE  DirectoryInv'
<1>1. /\ req' \in [Requests -> Request]
      /\ req'[p] = r
      /\ \A q \in Requests : q # p => req'[q] = req[q]
      /\ pool' \subseteq Requests /\ PoolOK'
  BY RequestMoves
<1>2. DirectoryTypeOK'
  BY <1>1 DEF DirectoryInv, DirectoryTypeOK
<1>3. RolesOK'
  BY <1>1 DEF DirectoryInv, RolesOK
<1>4. DraftsOK'
  <2>1. Draft(r) => /\ ~Exists(r.user)
                    /\ \A q \in Requests : q # p /\ Draft(req[q]) => req[q].user # r.user
    BY DEF DirectoryInv, DraftsOK, Fresh, Draft, Drafting
  <2> QED BY <1>1, <2>1 DEF DirectoryInv, DraftsOK, Exists
<1>5. CodesOK'
  BY <1>1 DEF DirectoryInv, CodesOK
<1>6. InvitationsCountAccounts'
  BY DEF DirectoryInv, InvitationsCountAccounts
<1> QED BY <1>1, <1>2, <1>3, <1>4, <1>5, <1>6 DEF DirectoryInv

\* A request that gives up.
LEMMA EndKeeps ==
    ASSUME DirectoryInv, NEW p \in Requests, Goto(p, Idle),
           UNCHANGED <<username, role, user_roles, invitation, open_registration, invited>>
    PROVE  DirectoryInv'
BY IdleIsFine, MoveKeeps DEF Moves

-----------------------------------------------------------------------------
(* Roles *)

\* create_role.
LEMMA CreateRoleKeeps ==
    ASSUME DirectoryInv, NEW a \in Users, NEW r \in Roles, CreateRole(a, r)
    PROVE  DirectoryInv'
<1>1. /\ role' = [role EXCEPT ![r] = "live"]
      /\ UNCHANGED <<username, user_roles, invitation, open_registration, req, pool, invited>>
  BY DEF CreateRole
<1>2. DirectoryTypeOK'
  BY <1>1 DEF DirectoryInv, DirectoryTypeOK
<1>3. \A s \in Roles : role'[s] \in {role[s], "live"}
  BY <1>1 DEF DirectoryInv, DirectoryTypeOK
<1>4. RolesOK'
  BY <1>1, <1>3, DirectoryAssumption DEF DirectoryInv, DirectoryTypeOK, RolesOK
<1>5. DraftsOK' /\ CodesOK' /\ InvitationsCountAccounts' /\ PoolOK'
  BY <1>1 DEF DirectoryInv, DraftsOK, Exists, CodesOK, InvitationsCountAccounts, PoolOK
<1> QED BY <1>2, <1>4, <1>5 DEF DirectoryInv

\* assign_role, remove_role and delete_role up to their writes.
LEMMA CheckKeeps ==
    ASSUME DirectoryInv, NEW p \in Requests, NEW a \in Users, NEW u \in Users, NEW r \in Roles,
           AssignRole(p, a, u, r) \/ RemoveRole(p, a, u, r) \/ CheckUnassigned(p, a, r)
    PROVE  DirectoryInv'
<1>1. ASSUME NEW pc \in {"assign", "remove"}, Acquire(p, [pc |-> pc, user |-> u, role |-> r]),
             UNCHANGED <<username, role, user_roles, invitation, open_registration, invited>>
      PROVE  DirectoryInv'
  <2> DEFINE new == [pc |-> pc, user |-> u, role |-> r]
  <2>1. new \in Request
    BY DEF Request, RoleRequest
  <2>2. new.pc # "delete" /\ ~Draft(new) /\ CodeOK(new) /\ Held(new)
    BY DEF Draft, CodeOK, Held
  <2> HIDE DEF new
  <2>3. Moves(p, new)
    BY <1>1, <2>2 DEF new, Moves
  <2> QED BY <1>1, <2>1, <2>2, <2>3, MoveKeeps
<1>2. ASSUME CheckUnassigned(p, a, r) PROVE DirectoryInv'
  <2> DEFINE new == [pc |-> "delete", role |-> r]
  <2>1. new \in Request
    BY DEF Request, RoleRequest
  <2>2. new.role \notin BuiltIn /\ ~Draft(new) /\ CodeOK(new) /\ Held(new)
    BY <1>2 DEF CheckUnassigned, Draft, CodeOK, Held
  <2>3. Moves(p, new)
        /\ UNCHANGED <<username, role, user_roles, invitation, open_registration, invited>>
    BY <1>2, <2>2 DEF CheckUnassigned, Moves
  <2> HIDE DEF new
  <2> QED BY <2>1, <2>2, <2>3, MoveKeeps
<1> QED BY <1>1, <1>2 DEF AssignRole, RemoveRole

\* UserRole::assign.
LEMMA InsertAssignmentKeeps ==
    ASSUME DirectoryInv, NEW p \in Requests, InsertAssignment(p)
    PROVE  DirectoryInv'
<1> DEFINE r == req[p]
           new == [r EXCEPT !.pc = "revoke"]
<1>1. r.pc = "assign"
      /\ UNCHANGED <<username, role, invitation, open_registration, invited>>
  BY DEF InsertAssignment
<1>2. r \in [pc : {"assign", "remove", "revoke"}, user : Users, role : Roles]
  BY <1>1, Registers DEF DirectoryInv
<1>3. CASE UNCHANGED user_roles /\ Goto(p, Idle)
  BY <1>1, <1>3, EndKeeps
<1>4. CASE /\ user_roles' = [user_roles EXCEPT ![r.user] = @ \cup {r.role}]
           /\ Goto(p, new)
  <2>1. new \in Request /\ new.pc = "revoke"
    BY <1>2 DEF Request, RoleRequest
  <2>2. Held(new) /\ ~Draft(new) /\ CodeOK(new)
    BY <2>1 DEF Held, Draft, CodeOK
  <2> HIDE DEF new
  <2>3. /\ req' \in [Requests -> Request]
        /\ req'[p] = new
        /\ \A q \in Requests : q # p => req'[q] = req[q]
        /\ pool' \subseteq Requests /\ PoolOK'
    BY <1>4, <2>1, <2>2, RequestMoves DEF Moves
  <2>4. user_roles' \in [Users -> SUBSET Roles]
    BY <1>2, <1>4 DEF DirectoryInv, DirectoryTypeOK
  <2>5. DirectoryTypeOK'
    BY <1>1, <2>3, <2>4 DEF DirectoryInv, DirectoryTypeOK
  <2>6. RolesOK'
    BY <1>1, <2>1, <2>3 DEF DirectoryInv, RolesOK
  <2>7. DraftsOK'
    BY <1>1, <2>2, <2>3 DEF DirectoryInv, DraftsOK, Exists
  <2>8. CodesOK' /\ InvitationsCountAccounts'
    BY <1>1, <2>2, <2>3 DEF DirectoryInv, CodesOK, InvitationsCountAccounts
  <2> QED BY <2>3, <2>5, <2>6, <2>7, <2>8 DEF DirectoryInv
<1> QED BY <1>3, <1>4 DEF InsertAssignment

\* UserRole::remove, and Role::delete with its cascade.
LEMMA UnassignKeeps ==
    ASSUME DirectoryInv, NEW p \in Requests, NEW new \in Request, Goto(p, new),
           new = Idle \/ new.pc = "revoke",
           UNCHANGED <<username, invitation, open_registration, invited>>,
           user_roles' \in [Users -> SUBSET Roles],
           role' \in [Roles -> {"none", "live", "gone"}],
           \A r \in BuiltIn : role'[r] = "live"
    PROVE  DirectoryInv'
<1>1. ~Draft(new) /\ CodeOK(new) /\ new.pc # "delete" /\ (new = Idle \/ Held(new))
  BY IdleIsFine DEF Draft, CodeOK, Held
<1>2. /\ req' \in [Requests -> Request]
      /\ req'[p] = new
      /\ \A q \in Requests : q # p => req'[q] = req[q]
      /\ pool' \subseteq Requests /\ PoolOK'
  BY <1>1, RequestMoves DEF Moves
<1>3. DirectoryTypeOK'
  BY <1>2 DEF DirectoryInv, DirectoryTypeOK
<1>4. RolesOK'
  BY <1>1, <1>2 DEF DirectoryInv, RolesOK
<1>5. DraftsOK'
  BY <1>1, <1>2 DEF DirectoryInv, DraftsOK, Exists
<1>6. CodesOK' /\ InvitationsCountAccounts'
  BY <1>1, <1>2 DEF DirectoryInv, CodesOK, InvitationsCountAccounts
<1> QED BY <1>2, <1>3, <1>4, <1>5, <1>6 DEF DirectoryInv

\* UserRole::remove.
LEMMA DeleteAssignmentKeeps ==
    ASSUME DirectoryInv, NEW p \in Requests, DeleteAssignment(p)
    PROVE  DirectoryInv'
<1> DEFINE r == req[p]
           new == IF r.role \in user_roles[r.user] THEN [r EXCEPT !.pc = "revoke"] ELSE Idle
<1>1. /\ r.pc = "remove" /\ Goto(p, new)
      /\ user_roles' = [user_roles EXCEPT ![r.user] = @ \ {r.role}]
      /\ UNCHANGED <<username, role, invitation, open_registration, invited>>
  BY DEF DeleteAssignment
<1>2. r \in [pc : {"assign", "remove", "revoke"}, user : Users, role : Roles]
  BY <1>1, Registers DEF DirectoryInv
<1>3. new \in Request /\ (new = Idle \/ new.pc = "revoke")
  BY <1>2, IdleIsFine DEF Request, RoleRequest
<1>4. /\ user_roles' \in [Users -> SUBSET Roles]
      /\ role' \in [Roles -> {"none", "live", "gone"}]
      /\ \A s \in BuiltIn : role'[s] = "live"
  BY <1>1, <1>2 DEF DirectoryInv, DirectoryTypeOK, RolesOK
<1> HIDE DEF new
<1> QED BY <1>1, <1>2, <1>3, <1>4, UnassignKeeps

\* Role::delete.
LEMMA DeleteRoleKeeps ==
    ASSUME DirectoryInv, NEW p \in Requests, DeleteRole(p)
    PROVE  DirectoryInv'
<1> DEFINE r == req[p].role
<1>1. /\ req[p].pc = "delete" /\ Goto(p, Idle)
      /\ role' = [role EXCEPT ![r] = IF @ = "live" THEN "gone" ELSE @]
      /\ user_roles' = [u \in Users |-> user_roles[u] \ {r}]
      /\ UNCHANGED <<username, invitation, open_registration, invited>>
  BY DEF DeleteRole
<1>2. r \in Roles /\ r \notin BuiltIn
  BY <1>1, Registers DEF DirectoryInv, RolesOK
<1> HIDE DEF r
<1>3. role' \in [Roles -> {"none", "live", "gone"}]
      /\ \A s \in Roles : s # r => role'[s] = role[s]
  BY <1>1, <1>2 DEF DirectoryInv, DirectoryTypeOK
<1>4. user_roles' \in [Users -> SUBSET Roles]
  BY <1>1 DEF DirectoryInv, DirectoryTypeOK
<1>5. \A s \in BuiltIn : role'[s] = "live"
  BY <1>2, <1>3, DirectoryAssumption DEF DirectoryInv, RolesOK
<1> QED BY <1>1, <1>3, <1>4, <1>5, IdleIsFine, UnassignKeeps

-----------------------------------------------------------------------------
(* Accounts and invitations *)

\* A new account under an id nobody else holds; requests that draw none.
LEMMA NewAccountKeeps ==
    ASSUME DirectoryInv, NEW u \in Users, NEW n \in Usernames, NEW r \in BuiltIn,
           NEW i \in Invitations \cup {NoInvitation}, NewAccount(u, n, r, i),
           UNCHANGED <<role, open_registration>>,
           req' \in [Requests -> Request], pool' \subseteq Requests,
           \A q \in Requests : \/ req'[q] = req[q] /\ (Draft(req[q]) => req[q].user # u)
                               \/ req'[q].pc \in {"idle", "welcome"},
           invitation' \in [Invitations -> InvitationRow \cup {NoInvitation}]
    PROVE  /\ DirectoryTypeOK' /\ RolesOK' /\ DraftsOK' /\ CodesOK'
           /\ invited'[u] = i
           /\ \A v \in Users : v # u => invited'[v] = invited[v]
<1>1. r \in Roles
  BY DirectoryAssumption
<1>2. /\ username' = [username EXCEPT ![u] = n]
      /\ user_roles' = [user_roles EXCEPT ![u] = {r}]
      /\ invited' = [invited EXCEPT ![u] = i]
  BY DEF NewAccount
<1>3. DirectoryTypeOK'
  BY <1>1, <1>2 DEF DirectoryInv, DirectoryTypeOK
<1>4. /\ invited'[u] = i
      /\ \A v \in Users : v # u => invited'[v] = invited[v]
  BY <1>2 DEF DirectoryInv, DirectoryTypeOK
<1>5. username'[u] # NoUser /\ \A v \in Users : v # u => username'[v] = username[v]
  BY <1>2, DirectoryAssumption DEF DirectoryInv, DirectoryTypeOK
<1>6. \A q \in Requests : Draft(req'[q]) \/ req'[q].pc = "delete" \/ ~CodeOK(req'[q]) =>
                          req'[q] = req[q] /\ (Draft(req[q]) => req[q].user # u)
  BY DEF Draft, CodeOK
<1>7. RolesOK'
  BY <1>6 DEF DirectoryInv, RolesOK
<1>8. DraftsOK'
  <2>1. \A q \in Requests : Draft(req[q]) => req[q].user \in Users
    BY Registers DEF DirectoryInv, Draft, Registration, Command
  <2>2. \A q \in Requests : Draft(req'[q]) => username'[req'[q].user] = NoUser
    BY <1>5, <1>6, <2>1 DEF DirectoryInv, DraftsOK, Exists
  <2>3. \A v \in Users : ~Exists(v)' => invited'[v] = NoInvitation
    BY <1>4, <1>5 DEF DirectoryInv, DraftsOK, Exists
  <2>4. \A x, y \in Requests : x # y /\ Draft(req'[x]) /\ Draft(req'[y]) =>
                               req'[x].user # req'[y].user
    BY <1>6 DEF DirectoryInv, DraftsOK
  <2> QED BY <2>2, <2>3, <2>4 DEF DraftsOK, Exists
<1>9. CodesOK'
  BY <1>6 DEF DirectoryInv, CodesOK
<1> QED BY <1>3, <1>4, <1>7, <1>8, <1>9

\* An account that was not made with an invitation leaves the counts alone.
LEMMA UninvitedKeeps ==
    ASSUME DirectoryInv, NEW u \in Users, ~Exists(u), invited'[u] = NoInvitation,
           \A v \in Users : v # u => invited'[v] = invited[v], UNCHANGED invitation
    PROVE  InvitationsCountAccounts'
<1>1. \A v \in Users : invited'[v] = invited[v]
  BY DEF DirectoryInv, DraftsOK
<1>2. \A i \in Invitations : {v \in Users : invited'[v] = i} = {v \in Users : invited[v] = i}
  BY <1>1
<1> QED BY <1>2 DEF DirectoryInv, InvitationsCountAccounts

\* Invitation::consume and User::save in one transaction: one more use, and one
\* more account.
LEMMA InvitedKeeps ==
    ASSUME DirectoryInv, NEW u \in Users, ~Exists(u), NEW i \in Invitations, Consumable(i),
           invited'[u] = i, \A v \in Users : v # u => invited'[v] = invited[v],
           invitation' = [invitation EXCEPT ![i].uses = @ + 1]
    PROVE  /\ InvitationsCountAccounts'
           /\ invitation' \in [Invitations -> InvitationRow \cup {NoInvitation}]
<1> DEFINE By(j) == {v \in Users : invited[v] = j}
           ByNew(j) == {v \in Users : invited'[v] = j}
<1>1. invited[u] = NoInvitation /\ NoInvitation \notin Invitations
  BY DirectoryAssumption DEF DirectoryInv, DraftsOK
<1>2. ByNew(i) = By(i) \cup {u} /\ u \notin By(i)
  BY <1>1
<1>3. \A j \in Invitations : j # i => ByNew(j) = By(j)
  BY <1>1
<1>4. IsFiniteSet(By(i))
  BY DirectoryAssumption, FS_Subset
<1>5. Cardinality(ByNew(i)) = Cardinality(By(i)) + 1 /\ Cardinality(By(i)) \in Nat
  BY <1>2, <1>4, FS_AddElement, FS_CardinalityType
<1>6. invitation[i] \in InvitationRow /\ invitation[i] # NoInvitation
      /\ (invitation[i].max_uses = Unlimited \/ invitation[i].uses < invitation[i].max_uses)
      /\ invitation[i].uses = Cardinality(By(i))
  BY DEF DirectoryInv, DirectoryTypeOK, Consumable, IsValid, InvitationsCountAccounts
<1>7. /\ invitation'[i] = [invitation[i] EXCEPT !.uses = @ + 1]
      /\ \A j \in Invitations : j # i => invitation'[j] = invitation[j]
  BY DEF DirectoryInv, DirectoryTypeOK
<1>8. /\ invitation'[i] \in InvitationRow
      /\ invitation'[i].uses = invitation[i].uses + 1
      /\ invitation'[i].max_uses = invitation[i].max_uses
  <2>1. ASSUME NEW x \in InvitationRow
        PROVE  LET y == [x EXCEPT !.uses = @ + 1] IN
               y \in InvitationRow /\ y.uses = x.uses + 1 /\ y.max_uses = x.max_uses
    BY DEF InvitationRow
  <2> QED BY <1>6, <1>7, <2>1
<1>9. invitation' \in [Invitations -> InvitationRow \cup {NoInvitation}]
  BY <1>7, <1>8 DEF DirectoryInv, DirectoryTypeOK
<1>10. ASSUME NEW j \in Invitations, invitation'[j] # NoInvitation
       PROVE  /\ invitation'[j].uses = Cardinality(ByNew(j))
              /\ invitation'[j].max_uses # Unlimited =>
                    Cardinality(ByNew(j)) <= invitation'[j].max_uses
  <2>1. CASE j # i
    BY <1>3, <1>7, <1>10, <2>1 DEF DirectoryInv, InvitationsCountAccounts
  <2>2. CASE j = i
    <3>1. invitation[i].max_uses \in Int
      BY <1>6, DirectoryAssumption DEF InvitationRow, Unlimited
    <3> HIDE DEF By, ByNew
    <3> QED BY <1>5, <1>6, <1>8, <2>2, <3>1
  <2> QED BY <2>1, <2>2
<1>11. InvitationsCountAccounts'
  BY <1>10 DEF InvitationsCountAccounts
<1> QED BY <1>9, <1>11

\* create_user.
LEMMA CreateUserKeeps ==
    ASSUME DirectoryInv, NEW a \in Users, NEW u \in Users, NEW n \in Usernames,
           CreateUser(a, u, n)
    PROVE  DirectoryInv'
<1>1. /\ Fresh(u) /\ NewAccount(u, n, UserRole, NoInvitation)
      /\ UNCHANGED <<role, invitation, open_registration, req, pool>>
  BY DEF CreateUser
<1>2. UserRole \in BuiltIn
  BY DEF BuiltIn
<1>3. ~Exists(u) /\ \A q \in Requests : Draft(req[q]) => req[q].user # u
  BY <1>1 DEF Fresh, Draft, Drafting
<1>4. PoolOK' /\ req' \in [Requests -> Request] /\ pool' \subseteq Requests
      /\ invitation' \in [Invitations -> InvitationRow \cup {NoInvitation}]
  BY <1>1 DEF DirectoryInv, DirectoryTypeOK, PoolOK
<1>5. /\ DirectoryTypeOK' /\ RolesOK' /\ DraftsOK' /\ CodesOK'
      /\ invited'[u] = NoInvitation
      /\ \A v \in Users : v # u => invited'[v] = invited[v]
  BY <1>1, <1>2, <1>3, <1>4, NewAccountKeeps
<1>6. InvitationsCountAccounts'
  BY <1>1, <1>3, <1>5, UninvitedKeeps
<1> QED BY <1>4, <1>5, <1>6 DEF DirectoryInv

\* update_user and update_me: an account keeps being one.
LEMMA RenameKeeps ==
    ASSUME DirectoryInv, NEW u \in Users, NEW n \in Usernames, Rename(u, n)
    PROVE  DirectoryInv'
<1>1. /\ Exists(u) /\ username' = [username EXCEPT ![u] = n]
      /\ UNCHANGED <<role, user_roles, invitation, open_registration, req, pool, invited>>
  BY DEF Rename
<1>2. DirectoryTypeOK'
  BY <1>1 DEF DirectoryInv, DirectoryTypeOK
<1>3. \A v \in Users : Exists(v)' <=> Exists(v)
  BY <1>1, DirectoryAssumption DEF DirectoryInv, DirectoryTypeOK, Exists
<1>4. DraftsOK'
  <2>1. \A q \in Requests : Draft(req[q]) => req[q].user \in Users
    BY Registers DEF DirectoryInv, Draft, Registration, Command
  <2> QED BY <1>1, <1>3, <2>1 DEF DirectoryInv, DraftsOK
<1>5. RolesOK' /\ CodesOK' /\ InvitationsCountAccounts' /\ PoolOK'
  BY <1>1 DEF DirectoryInv, RolesOK, CodesOK, InvitationsCountAccounts,
              PoolOK
<1> QED BY <1>2, <1>4, <1>5 DEF DirectoryInv

\* init_admin counts the admins.
LEMMA InitAdminKeeps ==
    ASSUME DirectoryInv, NEW p \in Requests, NEW u \in Users, NEW n \in Usernames,
           InitAdmin(p, u, n)
    PROVE  DirectoryInv'
<1> DEFINE new == [pc |-> "init", user |-> u, name |-> n]
<1>1. /\ Fresh(u) /\ Goto(p, new)
      /\ UNCHANGED <<username, role, user_roles, invitation, open_registration, invited>>
  BY DEF InitAdmin
<1>2. new \in Request /\ new.pc = "init" /\ new.user = u /\ CodeOK(new)
  BY DEF Request, Command, CodeOK
<1> HIDE DEF new
<1>3. Moves(p, new)
  BY <1>1, IdleIsFine DEF InitAdmin, Moves
<1> QED BY <1>1, <1>2, <1>3, MoveKeeps

\* init_admin inserts the account.
LEMMA InsertAdminKeeps ==
    ASSUME DirectoryInv, NEW p \in Requests, InsertAdmin(p)
    PROVE  DirectoryInv'
<1> DEFINE r == req[p]
<1>1. /\ r.pc = "init" /\ Goto(p, Idle) /\ UNCHANGED <<role, invitation, open_registration>>
  BY DEF InsertAdmin
<1>2. CASE UNCHANGED <<username, user_roles, invited>>
  BY <1>1, <1>2, EndKeeps
<1>3. CASE NewAccount(r.user, r.name, AdminRole, NoInvitation)
  <2>1. r.user \in Users /\ r.name \in Usernames /\ AdminRole \in BuiltIn /\ Draft(r)
    BY <1>1, Registers DEF DirectoryInv, Command, BuiltIn, Draft
  <2>2. /\ req' \in [Requests -> Request]
        /\ req'[p] = Idle
        /\ \A q \in Requests : q # p => req'[q] = req[q]
        /\ pool' \subseteq Requests /\ PoolOK'
    BY <1>1, IdleIsFine, RequestMoves DEF Moves
  <2>3. ~Exists(r.user) /\ \A q \in Requests : q # p /\ Draft(req[q]) => req[q].user # r.user
    BY <2>1 DEF DirectoryInv, DraftsOK
  <2>4. invitation' \in [Invitations -> InvitationRow \cup {NoInvitation}]
    BY <1>1 DEF DirectoryInv, DirectoryTypeOK
  <2>5. \A q \in Requests : \/ req'[q] = req[q] /\ (Draft(req[q]) => req[q].user # r.user)
                            \/ req'[q].pc \in {"idle", "welcome"}
    BY <2>2, <2>3, IdleIsFine
  <2>6. /\ DirectoryTypeOK' /\ RolesOK' /\ DraftsOK' /\ CodesOK'
        /\ invited'[r.user] = NoInvitation
        /\ \A v \in Users : v # r.user => invited'[v] = invited[v]
    BY <1>1, <1>3, <2>1, <2>2, <2>4, <2>5, NewAccountKeeps
  <2>7. InvitationsCountAccounts'
    BY <1>1, <2>1, <2>3, <2>6, UninvitedKeeps
  <2> QED BY <2>2, <2>6, <2>7 DEF DirectoryInv
<1> QED BY <1>2, <1>3 DEF InsertAdmin

\* create_invitation and delete_invitation.
LEMMA InvitationKeeps ==
    ASSUME DirectoryInv, NEW a \in Users, NEW i \in Invitations,
           CreateInvitation(a, i) \/ DeleteInvitation(a, i), now \in Nat
    PROVE  DirectoryInv'
<1>1. UNCHANGED <<username, role, user_roles, open_registration, req, pool, invited>>
  BY DEF CreateInvitation, DeleteInvitation
<1>2. RolesOK' /\ DraftsOK' /\ CodesOK' /\ PoolOK'
  BY <1>1 DEF DirectoryInv, RolesOK, DraftsOK, Exists, CodesOK, PoolOK
<1>3. CASE CreateInvitation(a, i)
  <2>1. PICK input \in ValidInput : invitation' = [invitation EXCEPT ![i] = NewInvitation(input)]
    BY <1>3 DEF CreateInvitation
  <2> DEFINE row == NewInvitation(input)
  <2>2. row \in InvitationRow /\ row.uses = 0 /\ row.max_uses = input.max_uses
    BY DirectoryAssumption DEF ValidInput, NewInvitation, InvitationRow
  <2>3. input.max_uses = Unlimited \/ 0 <= input.max_uses
    BY DirectoryAssumption DEF ValidInput
  <2> HIDE DEF row
  <2>4. {u \in Users : invited[u] = i} = {}
    BY <1>3 DEF CreateInvitation
  <2>5. Cardinality({u \in Users : invited[u] = i}) = 0
    BY <2>4, FS_EmptySet
  <2>6. /\ invitation'[i] = row
        /\ \A j \in Invitations : j # i => invitation'[j] = invitation[j]
        /\ invitation' \in [Invitations -> InvitationRow \cup {NoInvitation}]
    BY <2>1, <2>2 DEF DirectoryInv, DirectoryTypeOK, row
  <2>7. DirectoryTypeOK'
    BY <1>1, <2>6 DEF DirectoryInv, DirectoryTypeOK
  <2>8. InvitationsCountAccounts'
    <3> SUFFICES ASSUME NEW j \in Invitations, invitation'[j] # NoInvitation
                 PROVE  LET used == Cardinality({u \in Users : invited[u] = j}) IN
                        /\ invitation'[j].uses = used
                        /\ invitation'[j].max_uses # Unlimited => used <= invitation'[j].max_uses
      BY <1>1 DEF InvitationsCountAccounts
    <3>1. CASE j = i
      BY <2>2, <2>3, <2>5, <2>6, <3>1
    <3>2. CASE j # i
      BY <2>6, <3>2 DEF DirectoryInv, InvitationsCountAccounts
    <3> QED BY <3>1, <3>2
  <2> QED BY <1>2, <2>7, <2>8 DEF DirectoryInv
<1>4. CASE DeleteInvitation(a, i)
  <2>1. invitation' = [invitation EXCEPT ![i] = NoInvitation]
    BY <1>4 DEF DeleteInvitation
  <2>2. DirectoryTypeOK'
    BY <1>1, <2>1 DEF DirectoryInv, DirectoryTypeOK
  <2>3. \A j \in Invitations : invitation'[j] \in {invitation[j], NoInvitation}
    BY <2>1 DEF DirectoryInv, DirectoryTypeOK
  <2>4. InvitationsCountAccounts'
    BY <1>1, <2>3 DEF DirectoryInv, InvitationsCountAccounts
  <2> QED BY <1>2, <2>2, <2>4 DEF DirectoryInv
<1> QED BY <1>3, <1>4

\* update_settings.
LEMMA UpdateSettingsKeeps ==
    ASSUME DirectoryInv, NEW a \in Users, UpdateSettings(a)
    PROVE  DirectoryInv'
<1>1. UNCHANGED <<username, role, user_roles, invitation, req, pool, invited>>
  BY DEF UpdateSettings
<1>2. open_registration' \in BOOLEAN
  BY DEF UpdateSettings
<1>3. DirectoryTypeOK'
  BY <1>1, <1>2 DEF DirectoryInv, DirectoryTypeOK
<1>4. RolesOK' /\ DraftsOK' /\ CodesOK' /\ PoolOK' /\ InvitationsCountAccounts'
  BY <1>1 DEF DirectoryInv, RolesOK, DraftsOK, Exists, CodesOK, PoolOK, InvitationsCountAccounts
<1> QED BY <1>3, <1>4 DEF DirectoryInv

\* register takes a connection.
LEMMA RegisterKeeps ==
    ASSUME DirectoryInv, NEW p \in Requests, NEW u \in Users, NEW n \in Usernames,
           NEW i \in Invitations \cup {NoInvitation}, Register(p, u, n, i)
    PROVE  DirectoryInv'
<1> DEFINE new == [pc |-> "settings", user |-> u, name |-> n, code |-> i, open |-> FALSE]
<1>1. /\ Fresh(u) /\ Acquire(p, new)
      /\ UNCHANGED <<username, role, user_roles, invitation, open_registration, invited>>
  BY DEF Register
<1>2. new \in Request /\ new.pc = "settings" /\ new.user = u /\ CodeOK(new) /\ Held(new)
  BY DEF Request, Registration, CodeOK, Held
<1> HIDE DEF new
<1>3. Moves(p, new)
  BY <1>1, <1>2 DEF Moves
<1> QED BY <1>1, <1>2, <1>3, MoveKeeps

\* register reads the mode and the invitation; it gives its connection back before
\* it waits for the next.
LEMMA ReadKeeps ==
    ASSUME DirectoryInv, NEW p \in Requests, ReadMode(p) \/ ReadInvitation(p)
    PROVE  DirectoryInv'
<1> DEFINE r == req[p]
<1>1. /\ r.pc \in {"settings", "invite"}
      /\ UNCHANGED <<username, role, user_roles, invitation, open_registration, invited>>
  BY DEF ReadMode, ReadInvitation
<1>2. r \in Registration /\ CodeOK(r) /\ Draft(r)
  BY <1>1, Registers DEF DirectoryInv, CodesOK, Draft
<1>3. ASSUME NEW new \in Registration, Moves(p, new), new.user = r.user,
             new.pc \in {"invite", "insert"}, CodeOK(new)
      PROVE  DirectoryInv'
  <2>1. new \in Request
    BY DEF Request
  <2> QED BY <1>1, <1>2, <1>3, <2>1, MoveKeeps
<1>4. \/ Goto(p, Idle)
      \/ Release(p, [r EXCEPT !.pc = "insert", !.open = TRUE])
      \/ r.code # NoInvitation /\ Goto(p, [r EXCEPT !.pc = "invite"])
      \/ r.pc = "invite" /\ Release(p, [r EXCEPT !.pc = "insert"])
  BY DEF ReadMode, ReadInvitation
<1>5. CASE Goto(p, Idle)
  BY <1>1, <1>5, EndKeeps
<1>6. CASE Release(p, [r EXCEPT !.pc = "insert", !.open = TRUE])
  <2> DEFINE new == [r EXCEPT !.pc = "insert", !.open = TRUE]
  <2>1. new \in Registration /\ new.user = r.user /\ new.pc = "insert" /\ CodeOK(new)
    BY <1>2 DEF Registration, CodeOK
  <2> QED BY <1>3, <1>6, <2>1 DEF Moves
<1>7. CASE r.code # NoInvitation /\ Goto(p, [r EXCEPT !.pc = "invite"])
  <2> DEFINE new == [r EXCEPT !.pc = "invite"]
  <2>1. new \in Registration /\ new.user = r.user /\ new.pc = "invite" /\ CodeOK(new)
        /\ Held(new)
    BY <1>2, <1>7 DEF Registration, CodeOK, Held
  <2> QED BY <1>3, <1>7, <2>1 DEF Moves
<1>8. CASE r.pc = "invite" /\ Release(p, [r EXCEPT !.pc = "insert"])
  <2> DEFINE new == [r EXCEPT !.pc = "insert"]
  <2>1. new \in Registration /\ new.user = r.user /\ new.pc = "insert" /\ CodeOK(new)
    BY <1>2, <1>8 DEF Registration, CodeOK
  <2> QED BY <1>3, <1>8, <2>1 DEF Moves
<1> QED BY <1>4, <1>5, <1>6, <1>7, <1>8

\* The transaction of register.
LEMMA InsertAccountKeeps ==
    ASSUME DirectoryInv, NEW p \in Requests, InsertAccount(p)
    PROVE  DirectoryInv'
<1> DEFINE r == req[p]
           code == IF r.open THEN NoInvitation ELSE r.code
           new == [r EXCEPT !.pc = "welcome"]
<1>1. r.pc = "insert" /\ UNCHANGED <<role, open_registration>>
  BY DEF InsertAccount
<1>2. CASE Goto(p, Idle) /\ UNCHANGED <<username, user_roles, invited, invitation>>
  BY <1>1, <1>2, EndKeeps
<1>3. CASE /\ r.open \/ Consumable(r.code)
           /\ NewAccount(r.user, r.name, UserRole, code)
           /\ invitation' = IF r.open THEN invitation
                            ELSE [invitation EXCEPT ![r.code].uses = @ + 1]
           /\ Goto(p, new)
  <2>1. r \in Registration /\ CodeOK(r) /\ Draft(r)
    BY <1>1, Registers DEF DirectoryInv, CodesOK, Draft
  <2>2. /\ r.user \in Users /\ r.name \in Usernames /\ UserRole \in BuiltIn
        /\ r.code \in Invitations \cup {NoInvitation} /\ r.open \in BOOLEAN
        /\ code \in Invitations \cup {NoInvitation}
        /\ ~r.open => r.code \in Invitations
    BY <1>1, <2>1 DEF Registration, BuiltIn, CodeOK
  <2>3. new \in Request /\ new.pc = "welcome" /\ ~Held(r)
    BY <1>1, <2>1 DEF Request, Registration, Held
  <2> HIDE DEF new
  <2>4. /\ req' \in [Requests -> Request]
        /\ req'[p] = new
        /\ \A q \in Requests : q # p => req'[q] = req[q]
        /\ pool' \subseteq Requests /\ PoolOK'
    BY <1>3, <2>3, RequestMoves DEF Moves
  <2>5. ~Exists(r.user) /\ \A q \in Requests : q # p /\ Draft(req[q]) => req[q].user # r.user
    BY <2>1 DEF DirectoryInv, DraftsOK
  <2>6. \A q \in Requests : \/ req'[q] = req[q] /\ (Draft(req[q]) => req[q].user # r.user)
                            \/ req'[q].pc \in {"idle", "welcome"}
    BY <2>3, <2>4, <2>5
  <2>7. /\ invited'[r.user] = code
        /\ \A v \in Users : v # r.user => invited'[v] = invited[v]
    BY <1>3, <2>2 DEF NewAccount, DirectoryInv, DirectoryTypeOK
  <2>8. /\ InvitationsCountAccounts'
        /\ invitation' \in [Invitations -> InvitationRow \cup {NoInvitation}]
    <3>1. CASE r.open
      <4>1. UNCHANGED invitation /\ code = NoInvitation
        BY <1>3, <3>1
      <4> QED BY <2>2, <2>5, <2>7, <4>1, UninvitedKeeps DEF DirectoryInv, DirectoryTypeOK
    <3>2. CASE ~r.open
      <4>1. /\ invitation' = [invitation EXCEPT ![r.code].uses = @ + 1]
            /\ code = r.code /\ r.code \in Invitations /\ Consumable(r.code)
        BY <1>3, <2>2, <3>2
      <4> QED BY <2>2, <2>5, <2>7, <4>1, InvitedKeeps
    <3> QED BY <3>1, <3>2
  <2> HIDE DEF code
  <2>9. DirectoryTypeOK' /\ RolesOK' /\ DraftsOK' /\ CodesOK'
    BY <1>1, <1>3, <2>2, <2>4, <2>6, <2>8, NewAccountKeeps
  <2> QED BY <2>4, <2>8, <2>9 DEF DirectoryInv
<1> QED BY <1>2, <1>3 DEF InsertAccount

-----------------------------------------------------------------------------
(* The sessions a step of the directory opens or ends *)

\* generate_token_pair.
LEMMA NewSessionType ==
    ASSUME AuthorityTypeOK, NEW n \in Logins, NEW u \in Users
    PROVE  NewSession(n, u) \in Credential
<1>1. now \in Nat /\ token_version[u] \in Nat /\ AccessLifetime \in Nat /\ SessionExpiry \in Nat
  BY AccountsAssumption DEF AuthorityTypeOK
<1>2. now + SessionExpiry \in Nat
      /\ now + (IF AccessLifetime < SessionExpiry THEN AccessLifetime ELSE SessionExpiry) \in Nat
  BY <1>1
<1> QED BY <1>1, <1>2 DEF NewSession, Credential

\* What a step is to the central sessions.
SessionStep == AuthorityTypeOK' /\ [AuthorityNext]_authVars

\* Signing in, revoking and doing nothing are steps of the central sessions.
LEMMA SessionSteps ==
    ASSUME AuthorityTypeOK
    PROVE  /\ \A n \in Logins, u \in Users : SignIn(NewSession(n, u)) => SessionStep
           /\ \A u \in Users : Revoke(u) => SessionStep
           /\ Tick => SessionStep
           /\ UNCHANGED authVars => SessionStep
<1>1. ASSUME NEW n \in Logins, NEW u \in Users, SignIn(NewSession(n, u)) PROVE SessionStep
  <2> DEFINE c == NewSession(n, u)
  <2>1. c \in Credential
    BY NewSessionType
  <2> HIDE DEF c
  <2>2. SignIn(c)
    BY <1>1 DEF c
  <2>3. c \in creds' /\ AuthorityTypeOK'
    BY <2>1, <2>2, MintTypes DEF SignIn
  <2> QED BY <2>2, <2>3 DEF SessionStep, AuthorityNext
<1>2. ASSUME NEW u \in Users, Revoke(u) PROVE SessionStep
  BY <1>2, RevokeTypes DEF SessionStep, AuthorityNext
<1>3. ASSUME Tick PROVE SessionStep
  BY <1>3, RevokeTypes DEF SessionStep, AuthorityNext
<1>4. ASSUME UNCHANGED authVars PROVE SessionStep
  BY <1>4, RevokeTypes DEF SessionStep
<1> QED BY <1>1, <1>2, <1>3, <1>4

\* Every step of the directory keeps its invariant, and is one of the sessions.
LEMMA DirectoryStep ==
    ASSUME AuthorityTypeOK, DirectoryInv,
           \/ RoleSteps \/ AccountSteps \/ InvitationSteps(NewSession)
           \/ \E p \in Requests : AbortRequest(p)
    PROVE  DirectoryInv' /\ SessionStep
<1>1. now \in Nat
  BY DEF AuthorityTypeOK
<1>2. CASE RoleSteps
  <2>1. ASSUME NEW a \in Users, NEW r \in Roles, CreateRole(a, r) PROVE DirectoryInv' /\ SessionStep
    BY <2>1, CreateRoleKeeps, SessionSteps DEF CreateRole
  <2>2. ASSUME NEW p \in Requests, NEW a \in Users, NEW u \in Users, NEW r \in Roles,
               AssignRole(p, a, u, r) \/ RemoveRole(p, a, u, r) \/ CheckUnassigned(p, a, r)
        PROVE  DirectoryInv' /\ SessionStep
    <3>1. DirectoryInv'
      BY <2>2, CheckKeeps
    <3>2. UNCHANGED authVars
      BY <2>2 DEF AssignRole, RemoveRole, CheckUnassigned
    <3> QED BY <3>1, <3>2, SessionSteps
  <2>3. ASSUME NEW p \in Requests, InsertAssignment(p) \/ DeleteAssignment(p) \/ DeleteRole(p)
        PROVE  DirectoryInv' /\ SessionStep
    <3>1. DirectoryInv'
      BY <2>3, InsertAssignmentKeeps, DeleteAssignmentKeeps, DeleteRoleKeeps
    <3>2. UNCHANGED authVars
      BY <2>3 DEF InsertAssignment, DeleteAssignment, DeleteRole
    <3> QED BY <3>1, <3>2, SessionSteps
  <2>4. ASSUME NEW p \in Requests, RevokeAfterChange(p) PROVE DirectoryInv' /\ SessionStep
    <3>1. req[p].user \in Users
      BY <2>4, Registers DEF RevokeAfterChange, DirectoryInv
    <3>2. DirectoryInv'
      BY <2>4, EndKeeps DEF RevokeAfterChange
    <3> QED BY <2>4, <3>1, <3>2, SessionSteps DEF RevokeAfterChange
  <2> QED BY <1>2, <2>1, <2>2, <2>3, <2>4 DEF RoleSteps
<1>3. CASE AccountSteps
  <2>1. DirectoryInv'
    BY <1>3, CreateUserKeeps, RenameKeeps, InitAdminKeeps, InsertAdminKeeps
       DEF AccountSteps, UpdateUser, UpdateMe
  <2>2. UNCHANGED authVars
    BY <1>3 DEF AccountSteps, UpdateUser, UpdateMe, CreateUser, Rename, InitAdmin, InsertAdmin
  <2> QED BY <2>1, <2>2, SessionSteps
<1>4. CASE InvitationSteps(NewSession)
  <2>1. ASSUME NEW a \in Users, UpdateSettings(a) PROVE DirectoryInv' /\ SessionStep
    BY <2>1, UpdateSettingsKeeps, SessionSteps DEF UpdateSettings
  <2>2. ASSUME NEW a \in Users, NEW i \in Invitations, CreateInvitation(a, i) \/ DeleteInvitation(a, i)
        PROVE  DirectoryInv' /\ SessionStep
    BY <1>1, <2>2, InvitationKeeps, SessionSteps DEF CreateInvitation, DeleteInvitation
  <2>3. ASSUME NEW p \in Requests, NEW u \in Users, NEW n \in Usernames,
               NEW i \in Invitations \cup {NoInvitation}, Register(p, u, n, i)
        PROVE  DirectoryInv' /\ SessionStep
    BY <2>3, RegisterKeeps, SessionSteps DEF Register
  <2>4. ASSUME NEW p \in Requests, ReadMode(p) \/ ReadInvitation(p) \/ InsertAccount(p)
        PROVE  DirectoryInv' /\ SessionStep
    <3>1. DirectoryInv'
      BY <2>4, ReadKeeps, InsertAccountKeeps
    <3>2. UNCHANGED authVars
      BY <2>4 DEF ReadMode, ReadInvitation, InsertAccount
    <3> QED BY <3>1, <3>2, SessionSteps
  <2>5. ASSUME NEW p \in Requests, NEW n \in Logins, NEW u \in Users, Welcome(p, NewSession(n, u))
        PROVE  DirectoryInv' /\ SessionStep
    BY <2>5, EndKeeps, SessionSteps DEF Welcome
  <2> QED BY <1>4, <2>1, <2>2, <2>3, <2>4, <2>5 DEF InvitationSteps
<1>5. CASE \E p \in Requests : AbortRequest(p)
  BY <1>5, EndKeeps, SessionSteps DEF AbortRequest
<1> QED BY <1>2, <1>3, <1>4, <1>5

-----------------------------------------------------------------------------
(* Challenges and keys *)

\* The version a challenge carries was one its user had.
RowOK(row) == row # NoChallenge /\ row.kind = "register" =>
                  row.token_version <= token_version[row.user]

\* A challenge that is there was not answered, and one that was not drawn neither.
ChallengesOK ==
    /\ \A x \in Challenges : RowOK(challenge[x])
    /\ \A x \in Challenges :
          /\ answered[x] <= 1
          /\ challenge[x] # NoChallenge => x \in drawn /\ answered[x] = 0
          /\ x \notin drawn => answered[x] = 0

\* A cookie names a challenge of its kind.
CookiesOK ==
    \A b \in Browsers, kind \in Kinds : cookie[b][kind] # NoChallenge =>
        /\ cookie[b][kind] \in drawn
        /\ challenge[cookie[b][kind]] # NoChallenge => challenge[cookie[b][kind]].kind = kind

\* The keys of a user can be counted, and are no more than allowed.
KeysOK ==
    /\ IsFiniteSet(passkeys)
    /\ \A k \in passkeys : owner[k] # NoKey
    /\ PasskeysWithinLimit

\* A login made with a key is one of its owner, and revoked once the key is gone.
OriginOK(c) == origin[c.login] # NoKey =>
    /\ owner[origin[c.login]] = c.user
    /\ origin[c.login] \notin passkeys => c.login \in dead
OriginsOK ==
    /\ \A n \in Logins : origin[n] # NoKey => \E c \in creds : c.login = n
    /\ \A c \in creds : OriginOK(c)

\* The version a registration carries was one its user had, and an older one if
\* the login that asks has been revoked since.
CeremonyOK(r) ==
    /\ r.pc = "save" => r.token_version <= token_version[r.user]
    /\ r.pc = "insert" =>
          /\ \E c \in creds : c.login = r.login /\ c.user = r.user
          /\ r.token_version <= token_version[r.user]
          /\ r.login \in dead => r.token_version < token_version[r.user]
CeremoniesOK == \A p \in Ceremonies : CeremonyOK(ceremony[p])

PasskeysInv ==
    PasskeysTypeOK /\ ChallengesOK /\ CookiesOK /\ KeysOK /\ OriginsOK /\ CeremoniesOK

\* The program counter of a ceremony tells what it carries.
LEMMA CeremonyRegisters ==
    ASSUME PasskeysTypeOK, NEW p \in Ceremonies
    PROVE  /\ ceremony[p] \in Ceremony
           /\ ceremony[p].pc \in {"version", "save"} => ceremony[p] \in Starting
           /\ ceremony[p].pc = "insert" =>
                 ceremony[p] \in [pc : {"insert"}, browser : Browsers, login : Logins,
                                  user : Users, token_version : Nat]
           /\ ceremony[p].pc = "signin" =>
                 ceremony[p] \in [pc : {"signin"}, browser : Browsers, key : Keys]
           /\ ceremony[p].pc = "delete" =>
                 ceremony[p] \in [pc : {"delete"}, user : Users, key : Keys]
BY DEF PasskeysTypeOK, Ceremony, AtRest, Starting, Finishing

\* A challenge is of one of two kinds.
LEMMA ChallengeKinds ==
    ASSUME NEW row \in Challenge
    PROVE  /\ row.kind \in Kinds /\ row.expires_at \in Nat
           /\ row.kind = "register" =>
                 row \in [kind : {"register"}, user : Users, token_version : Nat, expires_at : Nat]
BY DEF Challenge, Kinds

\* A ceremony moves to a legal state.
LEMMA ContinueType ==
    ASSUME PasskeysTypeOK, NEW p \in Ceremonies, NEW r \in Ceremony, Continue(p, r)
    PROVE  /\ ceremony' \in [Ceremonies -> Ceremony]
           /\ ceremony'[p] = r
           /\ \A q \in Ceremonies : q # p => ceremony'[q] = ceremony[q]
BY DEF PasskeysTypeOK, Continue

\* A ceremony at rest promises nothing.
LEMMA RestIsFine == AtRest \in Ceremony /\ AtRest.pc = "rest" /\ CeremonyOK(AtRest)
BY DEF AtRest, Ceremony, CeremonyOK

\* What others hold survives a step of the sessions.
LEMMA PromisesLast ==
    ASSUME AuthorityTypeOK, SessionStep, CredentialsOK
    PROVE  /\ \A row \in Challenge \cup {NoChallenge} : RowOK(row) => RowOK(row)'
           /\ \A r \in Ceremony : CeremonyOK(r) => CeremonyOK(r)'
<1>1. /\ \A u \in Users : token_version[u] <= token_version'[u]
      /\ dead \subseteq dead'
      /\ \A n \in dead' \ dead : \E c \in creds :
            c.login = n /\ token_version[c.user] < token_version'[c.user]
  BY AuthorityGrows DEF SessionStep
<1>2. creds \subseteq creds'
  BY CredentialsStep DEF SessionStep
<1>3. \A u \in Users : token_version[u] \in Nat /\ token_version'[u] \in Nat
  BY DEF AuthorityTypeOK, SessionStep
<1>4. ASSUME NEW row \in Challenge \cup {NoChallenge}, RowOK(row) PROVE RowOK(row)'
  <2> SUFFICES ASSUME row # NoChallenge, row.kind = "register"
               PROVE  row.token_version <= token_version'[row.user]
    BY DEF RowOK
  <2>1. row.user \in Users /\ row.token_version \in Nat
    BY ChallengeKinds
  <2>2. row.token_version <= token_version[row.user]
    BY <1>4 DEF RowOK
  <2> QED BY <1>1, <1>3, <2>1, <2>2
<1>5. ASSUME NEW r \in Ceremony, CeremonyOK(r) PROVE CeremonyOK(r)'
  <2>1. r.pc = "save" => r.user \in Users /\ r.token_version \in Nat
    BY DEF Ceremony, AtRest, Starting, Finishing
  <2>2. r.pc = "insert" => r.user \in Users /\ r.token_version \in Nat
    BY DEF Ceremony, AtRest, Starting, Finishing
  <2>3. r.pc = "save" => r.token_version <= token_version'[r.user]
    BY <1>1, <1>3, <1>5, <2>1 DEF CeremonyOK
  <2>4. ASSUME r.pc = "insert"
        PROVE  /\ \E c \in creds' : c.login = r.login /\ c.user = r.user
               /\ r.token_version <= token_version'[r.user]
               /\ r.login \in dead' => r.token_version < token_version'[r.user]
    <3>1. PICK c \in creds : c.login = r.login /\ c.user = r.user
      BY <1>5, <2>4 DEF CeremonyOK
    <3>2. r.token_version <= token_version[r.user]
      BY <1>5, <2>4 DEF CeremonyOK
    <3>3. CASE r.login \in dead
      <4>1. r.token_version < token_version[r.user]
        BY <1>5, <2>4, <3>3 DEF CeremonyOK
      <4> QED BY <1>1, <1>2, <1>3, <2>2, <2>4, <3>1, <4>1
    <3>4. CASE r.login \in dead' \ dead
      <4>1. PICK d \in creds : d.login = r.login /\ token_version[d.user] < token_version'[d.user]
        BY <1>1, <3>4
      <4>2. d.user = r.user
        BY <3>1, <4>1 DEF CredentialsOK
      <4> QED BY <1>2, <1>3, <2>2, <2>4, <3>1, <3>2, <4>1, <4>2
    <3>5. CASE r.login \notin dead'
      BY <1>1, <1>2, <1>3, <2>2, <2>4, <3>1, <3>2, <3>5
    <3> QED BY <3>3, <3>4, <3>5
  <2> QED BY <2>3, <2>4 DEF CeremonyOK
<1> QED BY <1>4, <1>5

\* A credential keeps the key it was made with, whatever the sessions do.
LEMMA OriginsLast ==
    ASSUME AuthorityTypeOK, SessionStep, CredentialsOK, OriginsOK,
           UNCHANGED <<origin, owner, passkeys>>
    PROVE  OriginsOK'
<1>1. /\ dead \subseteq dead'
      /\ \A c \in creds' \ creds : \/ \A d \in creds : d.login # c.login
                                   \/ \E d \in creds : d.login = c.login /\ d.user = c.user
  BY AuthorityGrows DEF SessionStep
<1>2. creds \subseteq creds'
  BY CredentialsStep DEF SessionStep
<1>3. \A c \in creds' : c.login \in Logins
  BY DEF SessionStep, AuthorityTypeOK, Credential
<1>4. ASSUME NEW c \in creds' PROVE OriginOK(c)'
  <2>1. CASE c \in creds
    BY <1>1, <2>1 DEF OriginsOK, OriginOK
  <2>2. CASE \A d \in creds : d.login # c.login
    BY <1>3, <2>2 DEF OriginsOK, OriginOK
  <2>3. ASSUME NEW d \in creds, d.login = c.login, d.user = c.user PROVE OriginOK(c)'
    BY <1>1, <2>3 DEF OriginsOK, OriginOK
  <2> QED BY <1>1, <2>1, <2>2, <2>3
<1> QED BY <1>2, <1>4 DEF OriginsOK

\* A step of the sessions alone.
LEMMA SessionKeepsKeys ==
    ASSUME AuthorityTypeOK, SessionStep, CredentialsOK, PasskeysInv, UNCHANGED passkeyVars
    PROVE  PasskeysInv'
<1>1. PasskeysTypeOK'
  BY DEF PasskeysInv, PasskeysTypeOK, passkeyVars
<1>2. ChallengesOK'
  <2>1. \A x \in Challenges : challenge[x] \in Challenge \cup {NoChallenge}
    BY DEF PasskeysInv, PasskeysTypeOK
  <2>2. \A x \in Challenges : RowOK(challenge[x])'
    <3> SUFFICES ASSUME NEW x \in Challenges PROVE RowOK(challenge[x])'
      OBVIOUS
    <3> DEFINE row == challenge[x]
    <3>1. RowOK(row) /\ row \in Challenge \cup {NoChallenge} /\ challenge'[x] = row
      BY <2>1 DEF PasskeysInv, ChallengesOK, passkeyVars
    <3>2. \A r \in Challenge \cup {NoChallenge} : RowOK(r) => RowOK(r)'
      BY PromisesLast
    <3> QED BY <3>1, <3>2 DEF RowOK
  <2> QED BY <2>2 DEF PasskeysInv, ChallengesOK, passkeyVars
<1>3. CookiesOK' /\ KeysOK'
  BY DEF PasskeysInv, CookiesOK, KeysOK, PasskeysWithinLimit, KeysOf, passkeyVars
<1>4. OriginsOK'
  BY OriginsLast DEF PasskeysInv, passkeyVars
<1>5. CeremoniesOK'
  <2> SUFFICES ASSUME NEW p \in Ceremonies PROVE CeremonyOK(ceremony[p])'
    BY DEF CeremoniesOK
  <2>1. CeremonyOK(ceremony[p]) /\ ceremony[p] \in Ceremony /\ ceremony' = ceremony
    BY DEF PasskeysInv, PasskeysTypeOK, CeremoniesOK, passkeyVars
  <2>2. \A r \in Ceremony : CeremonyOK(r) => CeremonyOK(r)'
    BY PromisesLast
  <2> QED BY <2>1, <2>2 DEF CeremonyOK
<1> QED BY <1>1, <1>2, <1>3, <1>4, <1>5 DEF PasskeysInv

-----------------------------------------------------------------------------
(* The steps of a ceremony *)

\* A ceremony moves and the tables stay: it has to keep its own promise.
LEMMA ContinueKeeps ==
    ASSUME PasskeysInv, NEW p \in Ceremonies, NEW r \in Ceremony, CeremonyOK(r), Continue(p, r),
           UNCHANGED <<authVars, owner, passkeys, challenge, drawn, cookie, origin, answered>>
    PROVE  PasskeysInv'
<1>1. /\ ceremony' \in [Ceremonies -> Ceremony]
      /\ ceremony'[p] = r
      /\ \A q \in Ceremonies : q # p => ceremony'[q] = ceremony[q]
  BY ContinueType DEF PasskeysInv
<1>2. PasskeysTypeOK'
  BY <1>1 DEF PasskeysInv, PasskeysTypeOK
<1>3. ChallengesOK' /\ CookiesOK' /\ KeysOK'
  BY DEF PasskeysInv, ChallengesOK, RowOK, CookiesOK, KeysOK, PasskeysWithinLimit, KeysOf, authVars
<1>4. OriginsOK'
  BY DEF PasskeysInv, OriginsOK, OriginOK, authVars
<1>5. \A x : CeremonyOK(x) => CeremonyOK(x)'
  BY DEF CeremonyOK, authVars
<1>6. CeremoniesOK'
  BY <1>1, <1>5 DEF PasskeysInv, CeremoniesOK
<1> QED BY <1>2, <1>3, <1>4, <1>6 DEF PasskeysInv

\* save_challenge: the id is new, and the old challenge of the cookie goes.
LEMMA SaveKeeps ==
    ASSUME PasskeysInv, NEW b \in Browsers, NEW id \in Challenges, NEW row \in Challenge,
           RowOK(row), SaveChallenge(b, id, row),
           UNCHANGED <<authVars, owner, passkeys, origin, answered>>,
           ceremony' \in [Ceremonies -> Ceremony],
           \A p \in Ceremonies : ceremony'[p] \in {ceremony[p], AtRest}
    PROVE  PasskeysInv'
<1>1. /\ id \notin drawn /\ drawn' = drawn \cup {id}
      /\ cookie' = [cookie EXCEPT ![b][row.kind] = id]
  BY DEF SaveChallenge
<1>2. /\ \A x \in Challenges : x # id => challenge'[x] \in {challenge[x], NoChallenge}
      /\ challenge'[id] = row
      /\ challenge' \in [Challenges -> Challenge \cup {NoChallenge}]
  BY DEF SaveChallenge, PasskeysInv, PasskeysTypeOK
<1>3. row.kind \in Kinds
  BY ChallengeKinds
<1>4. cookie' \in [Browsers -> [Kinds -> Challenges \cup {NoChallenge}]]
  BY <1>1, <1>3 DEF PasskeysInv, PasskeysTypeOK
<1>5. \A d \in Browsers, k \in Kinds :
         cookie'[d][k] = IF d = b /\ k = row.kind THEN id ELSE cookie[d][k]
  BY <1>1, <1>3 DEF PasskeysInv, PasskeysTypeOK
<1>6. PasskeysTypeOK'
  BY <1>1, <1>2, <1>4 DEF PasskeysInv, PasskeysTypeOK
<1>7. ChallengesOK'
  <2>1. \A x \in Challenges : RowOK(challenge[x])'
    BY <1>2 DEF PasskeysInv, ChallengesOK, RowOK, authVars
  <2>2. answered[id] = 0
    BY <1>1 DEF PasskeysInv, ChallengesOK
  <2> QED BY <1>1, <1>2, <2>1, <2>2 DEF PasskeysInv, ChallengesOK
<1>8. CookiesOK'
  <2> SUFFICES ASSUME NEW d \in Browsers, NEW k \in Kinds, cookie'[d][k] # NoChallenge
               PROVE  /\ cookie'[d][k] \in drawn'
                      /\ challenge'[cookie'[d][k]] # NoChallenge =>
                            challenge'[cookie'[d][k]].kind = k
    BY DEF CookiesOK
  <2>1. CASE d = b /\ k = row.kind
    BY <1>1, <1>2, <1>5, <2>1
  <2>2. CASE ~(d = b /\ k = row.kind)
    <3>1. cookie'[d][k] = cookie[d][k] /\ cookie[d][k] \in drawn /\ cookie[d][k] \in Challenges
      BY <1>5, <2>2 DEF PasskeysInv, CookiesOK, PasskeysTypeOK
    <3> QED BY <1>1, <1>2, <3>1 DEF PasskeysInv, CookiesOK
  <2> QED BY <2>1, <2>2
<1>9. KeysOK' /\ OriginsOK'
  BY DEF PasskeysInv, KeysOK, PasskeysWithinLimit, KeysOf, OriginsOK, OriginOK, authVars
<1>10. CeremoniesOK'
  <2>1. \A x : CeremonyOK(x) => CeremonyOK(x)'
    BY DEF CeremonyOK, authVars
  <2> QED BY <2>1, RestIsFine DEF PasskeysInv, CeremoniesOK
<1> QED BY <1>6, <1>7, <1>8, <1>9, <1>10 DEF PasskeysInv

\* take_challenge: the row is there, so nobody took it before, and it goes.
LEMMA TakeKeeps ==
    ASSUME PasskeysInv, NEW b \in Browsers, NEW kind \in Kinds, Takes(b, kind),
           NEW p \in Ceremonies, NEW r \in Ceremony, CeremonyOK(r), Continue(p, r),
           UNCHANGED <<authVars, owner, passkeys, drawn, cookie, origin>>
    PROVE  PasskeysInv'
<1> DEFINE id == cookie[b][kind]
<1>1. /\ id # NoChallenge /\ challenge[id] # NoChallenge
      /\ challenge' = [challenge EXCEPT ![id] = NoChallenge]
      /\ answered' = [answered EXCEPT ![id] = @ + 1]
  BY DEF Takes, TakeChallenge
<1>2. id \in Challenges
  BY <1>1 DEF PasskeysInv, PasskeysTypeOK
<1>3. id \in drawn /\ answered[id] = 0
  BY <1>1, <1>2 DEF PasskeysInv, ChallengesOK
<1> HIDE DEF id
<1>4. /\ challenge'[id] = NoChallenge
      /\ \A x \in Challenges : x # id => challenge'[x] = challenge[x] /\ answered'[x] = answered[x]
      /\ answered'[id] = 1
      /\ challenge' \in [Challenges -> Challenge \cup {NoChallenge}]
      /\ answered' \in [Challenges -> Nat]
  BY <1>1, <1>2, <1>3 DEF PasskeysInv, PasskeysTypeOK
<1>5. /\ ceremony' \in [Ceremonies -> Ceremony]
      /\ ceremony'[p] = r
      /\ \A q \in Ceremonies : q # p => ceremony'[q] = ceremony[q]
  BY ContinueType DEF PasskeysInv
<1>6. PasskeysTypeOK'
  BY <1>4, <1>5 DEF PasskeysInv, PasskeysTypeOK
<1>7. ChallengesOK'
  <2>1. \A x \in Challenges : RowOK(challenge[x])'
    BY <1>4 DEF PasskeysInv, ChallengesOK, RowOK, authVars
  <2> QED BY <1>3, <1>4, <2>1 DEF PasskeysInv, ChallengesOK
<1>8. CookiesOK'
  <2>1. \A d \in Browsers, k \in Kinds : cookie[d][k] # NoChallenge => cookie[d][k] \in Challenges
    BY DEF PasskeysInv, PasskeysTypeOK
  <2>2. \A x \in Challenges : challenge'[x] # NoChallenge => challenge'[x] = challenge[x]
    BY <1>4
  <2> QED BY <2>1, <2>2 DEF PasskeysInv, CookiesOK
<1>9. KeysOK' /\ OriginsOK'
  BY DEF PasskeysInv, KeysOK, PasskeysWithinLimit, KeysOf, OriginsOK, OriginOK, authVars
<1>10. CeremoniesOK'
  <2>1. \A x : CeremonyOK(x) => CeremonyOK(x)'
    BY DEF CeremonyOK, authVars
  <2> QED BY <1>5, <2>1 DEF PasskeysInv, CeremoniesOK
<1> QED BY <1>6, <1>7, <1>8, <1>9, <1>10 DEF PasskeysInv

\* A cookie is cleared.
LEMMA ClearKeeps ==
    ASSUME PasskeysInv, NEW b \in Browsers, NEW kind \in Kinds,
           cookie' = [cookie EXCEPT ![b][kind] = NoChallenge], UNCHANGED <<challenge, drawn>>
    PROVE  CookiesOK' /\ cookie' \in [Browsers -> [Kinds -> Challenges \cup {NoChallenge}]]
<1>1. cookie' \in [Browsers -> [Kinds -> Challenges \cup {NoChallenge}]]
  BY DEF PasskeysInv, PasskeysTypeOK
<1>2. \A d \in Browsers, k \in Kinds : cookie'[d][k] \in {cookie[d][k], NoChallenge}
  BY DEF PasskeysInv, PasskeysTypeOK
<1> QED BY <1>1, <1>2 DEF PasskeysInv, CookiesOK

\* register_finish counts the keys in the transaction that inserts one.
LEMMA InsertPasskeyKeeps ==
    ASSUME AuthorityTypeOK, PasskeysInv, NEW p \in Ceremonies, NEW k \in Keys, InsertPasskey(p, k)
    PROVE  PasskeysInv'
<1> DEFINE r == ceremony[p]
           u == r.user
<1>1. /\ r.pc = "insert" /\ owner[k] = NoKey /\ Continue(p, AtRest)
      /\ UNCHANGED <<authVars, challenge, drawn, origin, answered>>
  BY DEF InsertPasskey
<1>2. CASE UNCHANGED <<passkeys, owner, cookie>>
  BY <1>1, <1>2, RestIsFine, ContinueKeeps
<1>3. CASE /\ RoomForKey(u)
           /\ passkeys' = passkeys \cup {k}
           /\ owner' = [owner EXCEPT ![k] = u]
           /\ cookie' = [cookie EXCEPT ![r.browser]["register"] = NoChallenge]
  <2>1. u \in Users /\ r.browser \in Browsers /\ "register" \in Kinds
    BY <1>1, CeremonyRegisters DEF PasskeysInv, Kinds
  <2> HIDE DEF u
  <2>2. u # NoKey /\ MaxPasskeys \in Nat
    BY <2>1, PasskeysAssumption
  <2>3. /\ owner' \in [Keys -> Users \cup {NoKey}] /\ owner'[k] = u
        /\ \A j \in Keys : j # k => owner'[j] = owner[j]
    BY <1>3, <2>1 DEF PasskeysInv, PasskeysTypeOK
  <2>4. passkeys \subseteq Keys /\ k \notin passkeys
    BY <1>1 DEF PasskeysInv, PasskeysTypeOK, KeysOK
  <2>5. /\ ceremony' \in [Ceremonies -> Ceremony]
        /\ ceremony'[p] = AtRest
        /\ \A q \in Ceremonies : q # p => ceremony'[q] = ceremony[q]
    BY <1>1, RestIsFine, ContinueType DEF PasskeysInv
  <2>6. CookiesOK' /\ cookie' \in [Browsers -> [Kinds -> Challenges \cup {NoChallenge}]]
    BY <1>1, <1>3, <2>1, ClearKeeps
  <2>7. PasskeysTypeOK'
    BY <1>1, <1>3, <2>3, <2>4, <2>5, <2>6 DEF PasskeysInv, PasskeysTypeOK
  <2>8. ChallengesOK'
    BY <1>1 DEF PasskeysInv, ChallengesOK, RowOK, authVars
  <2>9. PasskeysWithinLimit'
    <3> SUFFICES ASSUME NEW v \in Users PROVE Cardinality(KeysOf(v)') <= MaxPasskeys
      BY DEF PasskeysWithinLimit
    <3>1. CASE v # u
      <4>1. KeysOf(v)' = KeysOf(v)
        BY <1>3, <2>3, <2>4, <3>1 DEF KeysOf
      <4> QED BY <4>1 DEF PasskeysInv, KeysOK, PasskeysWithinLimit
    <3>2. CASE v = u
      <4>1. KeysOf(v)' = KeysOf(v) \cup {k} /\ k \notin KeysOf(v)
        BY <1>3, <2>3, <2>4, <3>2 DEF KeysOf
      <4>2. IsFiniteSet(KeysOf(v))
        <5>1. KeysOf(v) \in SUBSET passkeys
          BY DEF KeysOf
        <5> QED BY <5>1, FS_Subset DEF PasskeysInv, KeysOK
      <4>3. Cardinality(KeysOf(v)') = Cardinality(KeysOf(v)) + 1 /\ Cardinality(KeysOf(v)) \in Nat
        BY <4>1, <4>2, FS_AddElement, FS_CardinalityType
      <4> QED BY <1>3, <2>2, <3>2, <4>3 DEF RoomForKey
    <3> QED BY <3>1, <3>2
  <2>10. KeysOK'
    <3>1. IsFiniteSet(passkeys')
      BY <1>3, FS_AddElement DEF PasskeysInv, KeysOK
    <3> QED BY <1>3, <2>2, <2>3, <2>4, <2>9, <3>1 DEF PasskeysInv, KeysOK
  <2>11. OriginsOK'
    <3>1. \A c \in creds : origin[c.login] # NoKey => origin[c.login] \in Keys /\ c.user # NoKey
      BY PasskeysAssumption DEF PasskeysInv, PasskeysTypeOK, AuthorityTypeOK, Credential
    <3>2. \A c \in creds : origin[c.login] # NoKey => origin[c.login] # k
      BY <1>1, <3>1 DEF PasskeysInv, OriginsOK, OriginOK
    <3> QED BY <1>1, <1>3, <2>3, <3>1, <3>2 DEF PasskeysInv, OriginsOK, OriginOK, authVars
  <2>12. CeremoniesOK'
    <3>1. \A x : CeremonyOK(x) => CeremonyOK(x)'
      BY <1>1 DEF CeremonyOK, authVars
    <3> QED BY <2>5, <3>1, RestIsFine DEF PasskeysInv, CeremoniesOK
  <2> QED BY <2>6, <2>7, <2>8, <2>10, <2>11, <2>12 DEF PasskeysInv
<1> QED BY <1>2, <1>3 DEF InsertPasskey

\* login_finish: a new login of the owner of a key that is stored.
LEMMA PasskeySignInKeeps ==
    ASSUME AuthorityTypeOK, CredentialsOK, PasskeysInv, NEW p \in Ceremonies,
           NEW c \in Credential, SessionStep, PasskeySignIn(p, c)
    PROVE  PasskeysInv'
<1> DEFINE r == ceremony[p]
           k == r.key
           n == c.login
<1>1. /\ r.pc = "signin" /\ k \in passkeys /\ c.user = owner[k] /\ SignIn(c)
      /\ origin' = [origin EXCEPT ![n] = k]
      /\ cookie' = [cookie EXCEPT ![r.browser]["login"] = NoChallenge]
      /\ Continue(p, AtRest)
      /\ UNCHANGED <<owner, passkeys, challenge, drawn, answered>>
  BY DEF PasskeySignIn, KeyUsable
<1>2. /\ \A d \in creds : d.login # n
      /\ creds' = creds \cup {c} /\ UNCHANGED <<token_version, dead>>
  BY <1>1 DEF SignIn
<1>3. r.browser \in Browsers /\ k \in Keys /\ n \in Logins /\ "login" \in Kinds
  BY <1>1, CeremonyRegisters DEF PasskeysInv, Kinds, Credential
<1>4. /\ ceremony' \in [Ceremonies -> Ceremony]
      /\ ceremony'[p] = AtRest
      /\ \A q \in Ceremonies : q # p => ceremony'[q] = ceremony[q]
  BY <1>1, RestIsFine, ContinueType DEF PasskeysInv
<1>5. CookiesOK' /\ cookie' \in [Browsers -> [Kinds -> Challenges \cup {NoChallenge}]]
  BY <1>1, <1>3, ClearKeeps
<1> HIDE DEF k, n
<1>6. /\ origin' \in [Logins -> Keys \cup {NoKey}] /\ origin'[n] = k
      /\ \A m \in Logins : m # n => origin'[m] = origin[m]
  BY <1>1, <1>3 DEF PasskeysInv, PasskeysTypeOK
<1>7. PasskeysTypeOK'
  BY <1>1, <1>4, <1>5, <1>6 DEF PasskeysInv, PasskeysTypeOK
<1>8. ChallengesOK' /\ KeysOK'
  BY <1>1, <1>2 DEF PasskeysInv, ChallengesOK, RowOK, KeysOK, PasskeysWithinLimit, KeysOf
<1>9. OriginsOK'
  <2>1. \A m \in Logins : origin'[m] # NoKey => \E d \in creds' : d.login = m
    BY <1>2, <1>6 DEF PasskeysInv, OriginsOK, n
  <2>2. OriginOK(c)'
    <3>1. origin'[c.login] = k /\ owner'[k] = c.user /\ k \in passkeys'
      BY <1>1, <1>6 DEF n
    <3> QED BY <3>1 DEF OriginOK
  <2>3. ASSUME NEW d \in creds PROVE OriginOK(d)'
    <3>1. d.login \in Logins /\ d.login # n /\ OriginOK(d)
      BY <1>2 DEF AuthorityTypeOK, Credential, PasskeysInv, OriginsOK
    <3>2. origin'[d.login] = origin[d.login] /\ owner' = owner /\ passkeys' = passkeys /\ dead' = dead
      BY <1>1, <1>2, <1>6, <3>1
    <3> QED BY <3>1, <3>2 DEF OriginOK
  <2> QED BY <1>2, <2>1, <2>2, <2>3 DEF OriginsOK
<1>10. CeremoniesOK'
  <2>1. \A x \in Ceremony : CeremonyOK(x) => CeremonyOK(x)'
    BY PromisesLast
  <2>2. ASSUME NEW q \in Ceremonies PROVE CeremonyOK(ceremony[q])'
    <3>1. ceremony[q] \in Ceremony /\ CeremonyOK(ceremony[q]) /\ AtRest \in Ceremony /\ CeremonyOK(AtRest)
      BY RestIsFine DEF PasskeysInv, PasskeysTypeOK, CeremoniesOK
    <3>2. ceremony'[q] \in {ceremony[q], AtRest}
      BY <1>4
    <3> QED BY <2>1, <3>1, <3>2 DEF CeremonyOK
  <2> QED BY <2>2 DEF CeremoniesOK
<1> QED BY <1>5, <1>7, <1>8, <1>9, <1>10 DEF PasskeysInv

\* delete: with the key go the sessions of its user.
LEMMA DeletePasskeyKeeps ==
    ASSUME AuthorityTypeOK, CredentialsOK, PasskeysInv, NEW p \in Ceremonies, DeletePasskey(p)
    PROVE  PasskeysInv' /\ SessionStep
<1> DEFINE r == ceremony[p]
<1>1. /\ r.pc = "delete" /\ Continue(p, AtRest)
      /\ UNCHANGED <<owner, drawn, cookie, origin, answered>>
  BY DEF DeletePasskey
<1>2. r.user \in Users /\ r.key \in Keys
  BY <1>1, CeremonyRegisters DEF PasskeysInv
<1>3. CASE UNCHANGED <<authVars, passkeys, challenge>>
  BY <1>1, <1>3, RestIsFine, ContinueKeeps, SessionSteps
<1>4. CASE /\ r.key \in KeysOf(r.user) /\ passkeys' = passkeys \ {r.key} /\ Revoke(r.user)
           /\ challenge' \in [Challenges -> Challenge \cup {NoChallenge}]
           /\ \A x \in Challenges : challenge'[x] \in {challenge[x], NoChallenge}
  <2>1. SessionStep
    BY <1>2, <1>4, SessionSteps
  <2>2. /\ ceremony' \in [Ceremonies -> Ceremony]
        /\ \A q \in Ceremonies : ceremony'[q] \in {ceremony[q], AtRest}
    BY <1>1, RestIsFine, ContinueType DEF PasskeysInv
  <2>3. PasskeysTypeOK'
    BY <1>1, <1>4, <2>2 DEF PasskeysInv, PasskeysTypeOK
  <2>4. ChallengesOK'
    <3>1. \A row \in Challenge \cup {NoChallenge} : RowOK(row) => RowOK(row)'
      BY <2>1, PromisesLast
    <3>2. ASSUME NEW x \in Challenges PROVE RowOK(challenge[x])'
      <4>1. challenge[x] \in Challenge \cup {NoChallenge} /\ RowOK(challenge[x])
        BY DEF PasskeysInv, PasskeysTypeOK, ChallengesOK
      <4> QED BY <1>4, <3>1, <4>1 DEF RowOK
    <3> QED BY <1>1, <1>4, <3>2 DEF PasskeysInv, ChallengesOK
  <2>5. CookiesOK'
    <3>1. \A d \in Browsers, k \in Kinds : cookie[d][k] # NoChallenge => cookie[d][k] \in Challenges
      BY DEF PasskeysInv, PasskeysTypeOK
    <3>2. \A x \in Challenges : challenge'[x] # NoChallenge => challenge'[x] = challenge[x]
      BY <1>4
    <3> QED BY <1>1, <3>1, <3>2 DEF PasskeysInv, CookiesOK
  <2>6. KeysOK'
    <3>1. IsFiniteSet(passkeys')
      BY <1>4, FS_RemoveElement DEF PasskeysInv, KeysOK
    <3>2. ASSUME NEW u \in Users PROVE Cardinality(KeysOf(u)') <= MaxPasskeys
      <4>1. KeysOf(u)' \in SUBSET KeysOf(u) /\ KeysOf(u) \in SUBSET passkeys
        BY <1>1, <1>4 DEF KeysOf
      <4>2. IsFiniteSet(KeysOf(u))
        BY <4>1, FS_Subset DEF PasskeysInv, KeysOK
      <4>3. IsFiniteSet(KeysOf(u)') /\ Cardinality(KeysOf(u)') <= Cardinality(KeysOf(u))
        BY <4>1, <4>2, FS_Subset
      <4>4. Cardinality(KeysOf(u)') \in Nat /\ Cardinality(KeysOf(u)) \in Nat /\ MaxPasskeys \in Nat
        BY <4>2, <4>3, FS_CardinalityType, PasskeysAssumption
      <4>5. Cardinality(KeysOf(u)) <= MaxPasskeys
        BY DEF PasskeysInv, KeysOK, PasskeysWithinLimit
      <4> QED BY <4>3, <4>4, <4>5
    <3> QED BY <1>1, <1>4, <3>1, <3>2 DEF PasskeysInv, KeysOK, PasskeysWithinLimit
  <2>7. OriginsOK'
    <3>1. creds' = creds /\ dead' = dead \cup {c.login : c \in {d \in creds : d.user = r.user}}
      BY <1>4 DEF Revoke
    <3>2. owner[r.key] = r.user
      BY <1>4 DEF KeysOf
    <3>3. ASSUME NEW c \in creds PROVE OriginOK(c)'
      <4>1. CASE origin[c.login] = r.key
        <5>1. c.user = r.user
          BY <1>2, <3>2, <4>1, PasskeysAssumption DEF PasskeysInv, OriginsOK, OriginOK
        <5>2. c.login \in dead'
          BY <3>1, <5>1
        <5> QED BY <1>1, <3>2, <4>1, <5>1, <5>2 DEF OriginOK
      <4>2. CASE origin[c.login] # r.key
        BY <1>1, <1>4, <3>1, <4>2 DEF PasskeysInv, OriginsOK, OriginOK
      <4> QED BY <4>1, <4>2
    <3> QED BY <1>1, <3>1, <3>3 DEF PasskeysInv, OriginsOK
  <2>8. CeremoniesOK'
    <3>1. \A x \in Ceremony : CeremonyOK(x) => CeremonyOK(x)'
      BY <2>1, PromisesLast
    <3>2. ASSUME NEW q \in Ceremonies PROVE CeremonyOK(ceremony[q])'
      <4>1. ceremony[q] \in Ceremony /\ CeremonyOK(ceremony[q]) /\ AtRest \in Ceremony
            /\ CeremonyOK(AtRest)
        BY RestIsFine DEF PasskeysInv, PasskeysTypeOK, CeremoniesOK
      <4> QED BY <2>2, <3>1, <4>1 DEF CeremonyOK
    <3> QED BY <3>2 DEF CeremoniesOK
  <2> QED BY <2>1, <2>3, <2>4, <2>5, <2>6, <2>7, <2>8 DEF PasskeysInv
<1>5. ASSUME r.key \in KeysOf(r.user)
      PROVE  /\ passkeys' = passkeys \ {r.key} /\ Revoke(r.user)
             /\ challenge' \in [Challenges -> Challenge \cup {NoChallenge}]
             /\ \A x \in Challenges : challenge'[x] \in {challenge[x], NoChallenge}
  BY <1>5 DEF DeletePasskey, PasskeysInv, PasskeysTypeOK
<1>6. r.key \notin KeysOf(r.user) => UNCHANGED <<authVars, passkeys, challenge>>
  BY DEF DeletePasskey
<1> QED BY <1>3, <1>4, <1>5, <1>6

\* register_start and save_challenge.
LEMMA StartKeeps ==
    ASSUME AuthorityTypeOK, CredentialsOK, PasskeysInv, NEW p \in Ceremonies,
           \/ \E b \in Browsers, c \in creds : StartRegistration(p, b, c)
           \/ ReadVersion(p)
           \/ \E id \in Challenges : SaveRegistration(p, id)
    PROVE  PasskeysInv' /\ UNCHANGED authVars
<1>1. now \in Nat /\ ChallengeTtl \in Nat
  BY PasskeysAssumption DEF AuthorityTypeOK
<1>2. now + ChallengeTtl \in Nat
  BY <1>1
<1>3. ASSUME NEW b \in Browsers, NEW c \in creds, StartRegistration(p, b, c)
      PROVE  PasskeysInv' /\ UNCHANGED authVars
  <2> DEFINE r == [pc |-> "version", browser |-> b, user |-> c.user, token_version |-> 0]
  <2>1. r \in Ceremony /\ CeremonyOK(r)
    BY DEF AuthorityTypeOK, Credential, Ceremony, Starting, CeremonyOK
  <2>2. Continue(p, r)
        /\ UNCHANGED <<authVars, owner, passkeys, challenge, drawn, cookie, origin, answered>>
    BY <1>3 DEF StartRegistration
  <2> HIDE DEF r
  <2> QED BY <2>1, <2>2, ContinueKeeps
<1>4. CASE ReadVersion(p)
  <2> DEFINE r == ceremony[p]
             new == [r EXCEPT !.pc = "save", !.token_version = token_version[r.user]]
  <2>1. r.pc = "version" /\ (Continue(p, new) \/ Continue(p, AtRest))
        /\ UNCHANGED <<authVars, owner, passkeys, challenge, drawn, cookie, origin, answered>>
    BY <1>4 DEF ReadVersion
  <2>2. r \in Starting
    BY <2>1, CeremonyRegisters DEF PasskeysInv
  <2>3. token_version[r.user] \in Nat
    BY <2>2 DEF Starting, AuthorityTypeOK
  <2>4. new \in Starting /\ new.pc = "save" /\ new.user = r.user
        /\ new.token_version = token_version[r.user]
    BY <2>2, <2>3 DEF Starting
  <2> HIDE DEF new
  <2>5. new \in Ceremony /\ CeremonyOK(new)
    BY <2>3, <2>4 DEF Ceremony, CeremonyOK
  <2> QED BY <2>1, <2>5, RestIsFine, ContinueKeeps
<1>5. ASSUME NEW id \in Challenges, SaveRegistration(p, id)
      PROVE  PasskeysInv' /\ UNCHANGED authVars
  <2> DEFINE r == ceremony[p]
             row == [kind |-> "register", user |-> r.user, token_version |-> r.token_version,
                     expires_at |-> now + ChallengeTtl]
  <2>1. /\ r.pc = "save" /\ SaveChallenge(r.browser, id, row) /\ Continue(p, AtRest)
        /\ UNCHANGED <<authVars, owner, passkeys, origin, answered>>
    BY <1>5 DEF SaveRegistration
  <2>2. r \in Starting /\ CeremonyOK(r) /\ r.browser \in Browsers
    BY <2>1, CeremonyRegisters DEF PasskeysInv, CeremoniesOK, Starting
  <2>3. row \in Challenge /\ RowOK(row)
    BY <1>2, <2>1, <2>2 DEF Challenge, RowOK, CeremonyOK, Starting
  <2> HIDE DEF row
  <2>4. /\ ceremony' \in [Ceremonies -> Ceremony]
        /\ \A q \in Ceremonies : ceremony'[q] \in {ceremony[q], AtRest}
    BY <2>1, RestIsFine, ContinueType DEF PasskeysInv
  <2> QED BY <2>1, <2>2, <2>3, <2>4, SaveKeeps
<1> QED BY <1>3, <1>4, <1>5

\* register_finish and login_finish take their challenge; a session that was just
\* verified has not been revoked.
LEMMA FinishKeeps ==
    ASSUME AuthorityTypeOK, CredentialsOK, PasskeysInv, NEW p \in Ceremonies, NEW b \in Browsers,
           (\E c \in creds : TakeRegistration(p, b, c)) \/ (\E k \in Keys : TakeLogin(p, b, k))
    PROVE  PasskeysInv' /\ UNCHANGED authVars
<1>1. ASSUME NEW c \in creds, TakeRegistration(p, b, c) PROVE PasskeysInv' /\ UNCHANGED authVars
  <2> DEFINE id == cookie[b]["register"]
             row == challenge[id]
             r == [pc |-> "insert", browser |-> b, login |-> c.login, user |-> c.user,
                   token_version |-> row.token_version]
  <2>1. /\ VerifyAccess(c) /\ Takes(b, "register")
        /\ UNCHANGED <<authVars, owner, passkeys, drawn, cookie, origin>>
        /\ (row.user = c.user /\ Continue(p, r)) \/ Continue(p, AtRest)
    BY <1>1 DEF TakeRegistration, AuthUser
  <2>2. "register" \in Kinds /\ c \in Credential
    BY DEF Kinds, AuthorityTypeOK
  <2>3. id # NoChallenge /\ row # NoChallenge
    BY <2>1 DEF Takes
  <2>4. id \in Challenges /\ row \in Challenge /\ row.kind = "register"
    BY <2>2, <2>3 DEF PasskeysInv, PasskeysTypeOK, CookiesOK
  <2>5. row.token_version \in Nat /\ row.token_version <= token_version[row.user]
    BY <2>3, <2>4, ChallengeKinds DEF PasskeysInv, ChallengesOK, RowOK
  <2>6. c.login \notin dead
    BY <2>1, RevokedIsRefused DEF VerifyAccess
  <2> HIDE DEF row, id
  <2>7. ASSUME row.user = c.user PROVE r \in Ceremony /\ CeremonyOK(r)
    BY <2>2, <2>5, <2>6, <2>7 DEF Ceremony, Finishing, CeremonyOK, Credential
  <2> HIDE DEF r
  <2>8. CASE row.user = c.user /\ Continue(p, r)
    BY <2>1, <2>2, <2>7, <2>8, TakeKeeps
  <2>9. CASE Continue(p, AtRest)
    BY <2>1, <2>2, <2>9, RestIsFine, TakeKeeps
  <2> QED BY <2>1, <2>8, <2>9
<1>2. ASSUME NEW k \in Keys, TakeLogin(p, b, k) PROVE PasskeysInv' /\ UNCHANGED authVars
  <2> DEFINE r == [pc |-> "signin", browser |-> b, key |-> k]
  <2>1. /\ Takes(b, "login") /\ Continue(p, r)
        /\ UNCHANGED <<authVars, owner, passkeys, drawn, cookie, origin>>
    BY <1>2 DEF TakeLogin
  <2>2. "login" \in Kinds /\ r \in Ceremony /\ CeremonyOK(r)
    BY DEF Kinds, Ceremony, Finishing, CeremonyOK
  <2> HIDE DEF r
  <2> QED BY <2>1, <2>2, TakeKeeps
<1> QED BY <1>1, <1>2

\* Every step of a ceremony keeps the invariant, and is one of the sessions.
LEMMA PasskeyStep ==
    ASSUME AuthorityTypeOK, CredentialsOK, PasskeysInv, PasskeySteps(NewSession)
    PROVE  PasskeysInv' /\ SessionStep
<1>1. UNCHANGED authVars => SessionStep
  BY SessionSteps
<1>2. ASSUME NEW b \in Browsers, NEW id \in Challenges, StartLogin(b, id)
      PROVE  PasskeysInv' /\ SessionStep
  <2> DEFINE row == [kind |-> "login", expires_at |-> now + ChallengeTtl]
  <2>1. now \in Nat /\ ChallengeTtl \in Nat
    BY PasskeysAssumption DEF AuthorityTypeOK
  <2>2. now + ChallengeTtl \in Nat
    BY <2>1
  <2>3. row \in Challenge /\ RowOK(row)
    BY <2>2 DEF Challenge, RowOK
  <2>4. SaveChallenge(b, id, row)
        /\ UNCHANGED <<authVars, owner, passkeys, ceremony, origin, answered>>
    BY <1>2 DEF StartLogin
  <2> HIDE DEF row
  <2>5. /\ ceremony' \in [Ceremonies -> Ceremony]
        /\ \A q \in Ceremonies : ceremony'[q] \in {ceremony[q], AtRest}
    BY <2>4 DEF PasskeysInv, PasskeysTypeOK
  <2> QED BY <1>1, <2>3, <2>4, <2>5, SaveKeeps
<1>3. ASSUME NEW p \in Ceremonies,
             \/ \E b \in Browsers, c \in creds : StartRegistration(p, b, c)
             \/ ReadVersion(p)
             \/ \E id \in Challenges : SaveRegistration(p, id)
      PROVE  PasskeysInv' /\ SessionStep
  BY <1>1, <1>3, StartKeeps
<1>4. ASSUME NEW p \in Ceremonies, NEW b \in Browsers,
             (\E c \in creds : TakeRegistration(p, b, c)) \/ (\E k \in Keys : TakeLogin(p, b, k))
      PROVE  PasskeysInv' /\ SessionStep
  BY <1>1, <1>4, FinishKeeps
<1>5. ASSUME NEW p \in Ceremonies, NEW k \in Keys, InsertPasskey(p, k)
      PROVE  PasskeysInv' /\ SessionStep
  BY <1>1, <1>5, InsertPasskeyKeeps DEF InsertPasskey
<1>6. ASSUME NEW p \in Ceremonies, NEW c \in creds, NEW k \in Keys, AskDeletion(p, c, k)
      PROVE  PasskeysInv' /\ SessionStep
  <2> DEFINE r == [pc |-> "delete", user |-> c.user, key |-> k]
  <2>1. r \in Ceremony /\ CeremonyOK(r)
    BY DEF AuthorityTypeOK, Credential, Ceremony, Finishing, CeremonyOK
  <2>2. Continue(p, r)
        /\ UNCHANGED <<authVars, owner, passkeys, challenge, drawn, cookie, origin, answered>>
    BY <1>6 DEF AskDeletion
  <2> HIDE DEF r
  <2> QED BY <1>1, <2>1, <2>2, ContinueKeeps
<1>7. ASSUME NEW p \in Ceremonies, NEW n \in Logins, NEW u \in Users,
             PasskeySignIn(p, NewSession(n, u))
      PROVE  PasskeysInv' /\ SessionStep
  <2>1. NewSession(n, u) \in Credential
    BY NewSessionType
  <2>2. SessionStep
    BY <1>7, SessionSteps DEF PasskeySignIn
  <2> QED BY <1>7, <2>1, <2>2, PasskeySignInKeeps
<1>8. ASSUME NEW p \in Ceremonies, RefuseSignIn(p) \/ AbortCeremony(p)
      PROVE  PasskeysInv' /\ SessionStep
  <2>1. Continue(p, AtRest)
        /\ UNCHANGED <<authVars, owner, passkeys, challenge, drawn, cookie, origin, answered>>
    BY <1>8 DEF RefuseSignIn, AbortCeremony
  <2> QED BY <1>1, <2>1, RestIsFine, ContinueKeeps
<1>9. ASSUME NEW p \in Ceremonies, DeletePasskey(p) PROVE PasskeysInv' /\ SessionStep
  BY <1>9, DeletePasskeyKeeps
<1> QED BY <1>2, <1>3, <1>4, <1>5, <1>6, <1>7, <1>8, <1>9 DEF PasskeySteps

-----------------------------------------------------------------------------
(* The invariant *)

Inv == AuthorityTypeOK /\ CredentialsOK /\ DirectoryInv /\ PasskeysInv

\* A fresh installation, and one with the accounts of a workload.
LEMMA InitInv == Init => Inv
<1> SUFFICES ASSUME Init PROVE Inv
  OBVIOUS
<1> DEFINE admins == workload.admins
           others == workload.others
<1>1. AuthorityTypeOK /\ CredentialsOK
  BY AuthorityInitOK DEF Init
<1>2. DirectoryInit(admins, others) /\ PasskeysInit
      /\ admins \subseteq Users /\ others \subseteq Users
  BY AccountsAssumption DEF Init
<1> HIDE DEF admins, others
<1>3. /\ role = [r \in Roles |-> IF r \in BuiltIn THEN "live" ELSE "none"]
      /\ user_roles = [u \in Users |-> (IF u \in admins THEN {AdminRole} ELSE {}) \cup
                                       (IF u \in others THEN {UserRole} ELSE {})]
      /\ invitation = [i \in Invitations |-> NoInvitation]
      /\ open_registration = FALSE
      /\ req = [p \in Requests |-> Idle]
      /\ pool = {}
      /\ invited = [u \in Users |-> NoInvitation]
  BY <1>2 DEF DirectoryInit
<1>4. username \in [Users -> Usernames \cup {NoUser}]
  BY <1>2 DEF DirectoryInit
<1>5. AdminRole \in Roles /\ UserRole \in Roles /\ AdminRole \in BuiltIn /\ UserRole \in BuiltIn
      /\ BuiltIn \subseteq Roles
  BY DirectoryAssumption DEF BuiltIn
<1>6. DirectoryTypeOK
  BY <1>3, <1>4, <1>5, IdleIsFine DEF DirectoryTypeOK
<1>7. RolesOK
  BY <1>3, <1>5, IdleIsFine DEF RolesOK
<1>8. DraftsOK /\ CodesOK
  BY <1>3, IdleIsFine DEF DraftsOK, CodesOK
<1>9. InvitationsCountAccounts
  BY <1>3 DEF InvitationsCountAccounts
<1>10. PoolOK
  <2>1. Cardinality(pool) = 0
    BY <1>3, FS_EmptySet
  <2> QED BY <1>3, <2>1, DirectoryAssumption DEF PoolOK
<1>11. DirectoryInv
  BY <1>6, <1>7, <1>8, <1>9, <1>10 DEF DirectoryInv
<1>12. PasskeysTypeOK
  BY <1>2, RestIsFine DEF PasskeysInit, PasskeysTypeOK
<1>13. ChallengesOK /\ CookiesOK /\ OriginsOK
  BY <1>1, <1>2 DEF PasskeysInit, ChallengesOK, RowOK, CookiesOK, OriginsOK, OriginOK,
                    AuthorityTypeOK, Credential
<1>14. KeysOK
  <2>1. \A u \in Users : KeysOf(u) = {}
    BY <1>2 DEF PasskeysInit, KeysOf
  <2>2. PasskeysWithinLimit
    <3>1. MaxPasskeys \in Nat /\ 0 <= MaxPasskeys
      BY PasskeysAssumption
    <3> QED BY <2>1, <3>1, FS_EmptySet DEF PasskeysWithinLimit
  <2> QED BY <1>2, <2>2, FS_EmptySet DEF PasskeysInit, KeysOK
<1>15. CeremoniesOK
  BY <1>2, RestIsFine DEF PasskeysInit, CeremoniesOK
<1> QED BY <1>1, <1>11, <1>12, <1>13, <1>14, <1>15 DEF Inv, PasskeysInv

\* The directory is not touched by the other half.
LEMMA DirectoryStays ==
    ASSUME DirectoryInv, UNCHANGED directoryVars
    PROVE  DirectoryInv'
BY DEF directoryVars, DirectoryInv, DirectoryTypeOK, RolesOK, DraftsOK, Exists,
       CodesOK, InvitationsCountAccounts, PoolOK

\* Every step keeps the invariant.
LEMMA StepInv == Inv /\ [Next]_vars => Inv'
<1> SUFFICES ASSUME Inv, [Next]_vars PROVE Inv'
  OBVIOUS
<1>1. AuthorityTypeOK /\ CredentialsOK /\ DirectoryInv /\ PasskeysInv
  BY DEF Inv
<1>2. ASSUME SessionStep, DirectoryInv', PasskeysInv' PROVE Inv'
  BY <1>1, <1>2, CredentialsStep DEF Inv, SessionStep
<1>3. ASSUME SessionStep, UNCHANGED passkeyVars PROVE PasskeysInv'
  BY <1>1, <1>3, SessionKeepsKeys
<1>4. ASSUME \/ RoleSteps \/ AccountSteps \/ InvitationSteps(NewSession)
             \/ \E p \in Requests : AbortRequest(p),
             UNCHANGED passkeyVars
      PROVE  Inv'
  BY <1>1, <1>2, <1>3, <1>4, DirectoryStep
<1>5. ASSUME PasskeySteps(NewSession), UNCHANGED directoryVars PROVE Inv'
  BY <1>1, <1>2, <1>5, PasskeyStep, DirectoryStays
<1>6. ASSUME \/ UNCHANGED authVars
             \/ \E n \in Logins, u \in Users : SignedIn(n, u)
             \/ Tick,
             UNCHANGED <<directoryVars, passkeyVars>>
      PROVE  Inv'
  <2>1. SessionStep
    BY <1>1, <1>6, SessionSteps DEF SignedIn
  <2> QED BY <1>1, <1>2, <1>3, <1>6, <2>1, DirectoryStays
<1>7. CASE UNCHANGED vars
  BY <1>6, <1>7 DEF vars
<1>8. CASE Next
  BY <1>4, <1>5, <1>6, <1>8 DEF Next
<1> QED BY <1>7, <1>8

\* The invariant holds at all times.
THEOREM Invariance == Spec => []Inv
<1>1. Init => Inv
  BY InitInv
<1>2. Inv /\ [Next]_vars => Inv'
  BY StepInv
<1> QED BY <1>1, <1>2, PTL DEF Spec

\* Rows, cookies and registers have their types, however requests interleave: a
\* ceremony finds a registration challenge behind a registration cookie, and a
\* registration that consumes an invitation was given one.
THEOREM TypeCorrect == Spec => []TypeOK
<1>1. Inv => TypeOK
  BY DEF Inv, AuthorityTypeOK, DirectoryInv, PasskeysInv, TypeOK
<1> QED BY <1>1, Invariance, PTL

\* The built-in roles are always there, whatever is created and deleted: the lookup
\* of the role `user' in register and create_user finds it.
THEOREM BuiltInRolesStay == Spec => [](\A r \in BuiltIn : role[r] = "live")
<1>1. Inv => \A r \in BuiltIn : role[r] = "live"
  BY DEF Inv, DirectoryInv, RolesOK
<1> QED BY <1>1, Invariance, PTL

\* An invitation counts the accounts made with it and never exceeds what it allows,
\* whatever number of registrations found a use left.
THEOREM InvitationsAreCounted == Spec => []InvitationsCountAccounts
<1>1. Inv => InvitationsCountAccounts
  BY DEF Inv, DirectoryInv
<1> QED BY <1>1, Invariance, PTL

\* The requests that have a connection are never more than the pool has and never
\* all waiting for one: register has given its own back, on the open and on the
\* invited path, whenever it waits for the next.
THEOREM PoolIsSafe == Spec => [](PoolNeverStarved /\ Cardinality(pool) <= PoolSize)
<1>1. Inv => Cardinality(pool) <= PoolSize
  BY DEF Inv, DirectoryInv, PoolOK
<1>2. Inv => PoolNeverStarved
  <2>1. CASE pool = {}
    BY <2>1, FS_EmptySet, DirectoryAssumption DEF PoolNeverStarved, Free
  <2>2. ASSUME Inv, NEW p \in pool PROVE ~Waiting(p)
    BY <2>2 DEF Inv, DirectoryInv, PoolOK, Held, Waiting
  <2> QED BY <2>1, <2>2 DEF PoolNeverStarved
<1> QED BY <1>1, <1>2, Invariance, PTL

\* register_finish never gives a user more than MAX_PASSKEYS keys.
THEOREM PasskeysAreLimited == Spec => []PasskeysWithinLimit
<1>1. Inv => PasskeysWithinLimit
  BY DEF Inv, PasskeysInv, KeysOK
<1> QED BY <1>1, Invariance, PTL

\* take_challenge gives a challenge to one request.
THEOREM ChallengesAreSingleUse == Spec => []ChallengeTakenOnce
<1>1. Inv => ChallengeTakenOnce
  BY DEF Inv, PasskeysInv, ChallengesOK, ChallengeTakenOnce
<1> QED BY <1>1, Invariance, PTL

\* No session opened with a passkey is accepted once the passkey is deleted.
THEOREM DeletionSignsOut == Spec => []DeletedKeySignsOut
<1>1. ASSUME Inv PROVE DeletedKeySignsOut
  <2> SUFFICES ASSUME NEW c \in creds, origin[c.login] # NoKey, origin[c.login] \notin passkeys,
                      VerifyAccess(c)
               PROVE  FALSE
    BY DEF DeletedKeySignsOut
  <2>1. c.login \in dead
    BY <1>1 DEF Inv, PasskeysInv, OriginsOK, OriginOK
  <2>2. AuthorityTypeOK /\ CredentialsOK
    BY <1>1 DEF Inv
  <2> QED BY <2>1, <2>2, RevokedIsRefused DEF VerifyAccess
<1> QED BY <1>1, Invariance, PTL

\* register_finish adds a key only for a session that is still in force, although
\* it verified the session before it took the challenge.
THEOREM KeysNeedLiveSessions == Spec => KeysAddedByLiveSessions
<1>1. ASSUME Inv, [Next]_vars, NEW p \in Ceremonies, ceremony[p].pc = "insert",
             ceremony'[p] # ceremony[p], ~(passkeys' \subseteq passkeys)
      PROVE  ceremony[p].login \notin dead
  <2>1. Next /\ ~(UNCHANGED passkeyVars)
    BY <1>1 DEF vars, passkeyVars
  <2>2. PasskeySteps(NewSession)
    BY <2>1 DEF Next
  <2>3. PICK q \in Ceremonies, k \in Keys : InsertPasskey(q, k)
    <3> SUFFICES ASSUME \A q \in Ceremonies, k \in Keys : ~InsertPasskey(q, k)
                 PROVE  passkeys' \subseteq passkeys
      BY <1>1
    <3>1. ASSUME NEW q \in Ceremonies, DeletePasskey(q) PROVE passkeys' \subseteq passkeys
      BY <3>1 DEF DeletePasskey
    <3>2. ASSUME NEW q \in Ceremonies,
                 \/ \E b \in Browsers, c \in creds :
                       StartRegistration(q, b, c) \/ TakeRegistration(q, b, c)
                 \/ \E b \in Browsers, k \in Keys : TakeLogin(q, b, k)
                 \/ \E id \in Challenges : SaveRegistration(q, id)
                 \/ \E c \in creds, k \in Keys : AskDeletion(q, c, k)
                 \/ \E n \in Logins, u \in Users : PasskeySignIn(q, NewSession(n, u))
                 \/ ReadVersion(q) \/ RefuseSignIn(q) \/ AbortCeremony(q)
          PROVE  UNCHANGED passkeys
      BY <3>2 DEF StartRegistration, TakeRegistration, TakeLogin, SaveRegistration, AskDeletion,
                  PasskeySignIn, ReadVersion, RefuseSignIn, AbortCeremony
    <3>3. ASSUME NEW b \in Browsers, NEW id \in Challenges, StartLogin(b, id)
          PROVE  UNCHANGED passkeys
      BY <3>3 DEF StartLogin
    <3> QED BY <2>2, <3>1, <3>2, <3>3 DEF PasskeySteps
  <2>4. p = q
    BY <1>1, <2>3 DEF Inv, PasskeysInv, PasskeysTypeOK, InsertPasskey, Continue
  <2>5. SessionUnchanged(ceremony[p])
    BY <1>1, <2>3, <2>4 DEF InsertPasskey
  <2>6. token_version[ceremony[p].user] = ceremony[p].token_version
        /\ token_version[ceremony[p].user] \in Nat
    BY <1>1, <2>5, CeremonyRegisters DEF SessionUnchanged, Inv, PasskeysInv, AuthorityTypeOK
  <2> QED BY <1>1, <2>6 DEF Inv, PasskeysInv, CeremoniesOK, CeremonyOK
<1>2. Inv /\ [Next]_vars =>
        [\A p \in Ceremonies :
            ceremony[p].pc = "insert" /\ ceremony'[p] # ceremony[p] /\ ~(passkeys' \subseteq passkeys)
                => ceremony[p].login \notin dead]_vars
  BY <1>1
<1> QED BY <1>2, Invariance, PTL DEF Spec, KeysAddedByLiveSessions

=============================================================================
