------------------------------- MODULE Accounts -------------------------------
(***************************************************************************)
(* Accounts and passkeys over the central sessions: the roles, invitations  *)
(* and settings of Directory, the ceremonies of Passkeys and the logins of  *)
(* Authority, which a role change and the deletion of a passkey revoke.     *)
(* `workload' selects what is in use in a behaviour, and who exists when it *)
(* starts.                                                                  *)
(***************************************************************************)
EXTENDS Directory, Passkeys

CONSTANTS
    AccessLifetime,  \* ACCESS_TOKEN_LIFETIME
    SessionExpiry,   \* session_expiry_seconds
    Workloads,       \* what is used together
    MaxVersion,      \* bound: token_version stops here
    MaxCredentials   \* bound: central credentials in all

ASSUME AccountsAssumption ==
    /\ {AccessLifetime, SessionExpiry, MaxVersion, MaxCredentials} \subseteq Nat
    /\ Workloads \subseteq [uses : SUBSET {"roles", "accounts", "invitations", "passkeys"},
                     admins : SUBSET Users, others : SUBSET Users]

VARIABLE workload

vars == <<authVars, directoryVars, passkeyVars, workload>>

\* generate_token_pair.
NewSession(n, u) ==
    [login |-> n, user |-> u, iat |-> now,
     exp |-> now + (IF AccessLifetime < SessionExpiry THEN AccessLifetime ELSE SessionExpiry),
     session_exp |-> now + SessionExpiry, session_version |-> token_version[u],
     auth_time |-> now]

\* A password login (Sessions); the version is read in a later statement than
\* the password, here in the step that issues.
SignedIn(n, u) == Exists(u) /\ active[u] /\ SignIn(NewSession(n, u))

Init ==
    /\ AuthorityInit
    /\ workload \in Workloads
    /\ DirectoryInit(workload.admins, workload.others)
    /\ PasskeysInit

Uses(what) == what \in workload.uses

Next ==
    /\ \/ /\ \/ Uses("roles") /\ RoleSteps
             \/ Uses("accounts") /\ AccountSteps
             \/ Uses("invitations") /\ InvitationSteps(NewSession)
             \/ \E p \in Requests : AbortRequest(p)
          /\ UNCHANGED passkeyVars
       \/ Uses("passkeys") /\ PasskeySteps(NewSession) /\ UNCHANGED directoryVars
       \/ /\ Uses("passkeys") /\ \E n \in Logins, u \in Users : SignedIn(n, u)
          /\ UNCHANGED <<directoryVars, passkeyVars>>
       \/ now < MaxTime /\ Tick /\ UNCHANGED <<directoryVars, passkeyVars>>
    /\ \A u \in Users : token_version'[u] <= MaxVersion
    /\ Cardinality(creds') <= MaxCredentials
    /\ UNCHANGED workload

Spec == Init /\ [][Next]_vars

-----------------------------------------------------------------------------
(* Properties *)

TypeOK ==
    /\ now \in Nat
    /\ active \in [Users -> BOOLEAN]
    /\ token_version \in [Users -> Nat]
    /\ revoked_before \in [Users -> Int]
    /\ creds \subseteq Credential
    /\ dead \subseteq Logins
    /\ DirectoryTypeOK
    /\ PasskeysTypeOK

\* An invitation has been used by exactly as many accounts as it counts, and by no
\* more than it allows: of two registrations that both found one use left one
\* fails, and a registration that fails over its username uses nothing up
\* (Invitation::consume, "Atomically consume one use of the invitation").
InvitationsCountAccounts ==
    \A i \in Invitations :
        LET used == Cardinality({u \in Users : invited[u] = i}) IN
        invitation[i] # NoInvitation =>
            /\ invitation[i].uses = used
            /\ invitation[i].max_uses # Unlimited => used <= invitation[i].max_uses

\* The connections are never all held by requests that wait for another one
\* (register: "Release this read connection first so concurrent registrations
\* cannot exhaust the pool while waiting for a second one").
PoolNeverStarved ==
    Free \/ \E p \in pool : ~Waiting(p)

\* A role that some user has is never deleted (Role::delete: "fails if role is
\* assigned to any users").
AssignedRolesAreKept ==
    [][\A r \in Roles : role[r] = "live" /\ role'[r] = "gone" =>
                         \A u \in Users : r \notin user_roles[u]]_vars

\* An installation that has an admin keeps one: remove_role says "Cannot remove
\* the last admin role".
AdminRemains == workload.admins # {} => Admins # {}

\* No user ever has more passkeys than MAX_PASSKEYS, however many registrations
\* were started below the limit (register_finish; README "up to 20 named
\* passkeys").
PasskeysWithinLimit == \A u \in Users : Cardinality(KeysOf(u)) <= MaxPasskeys

\* A challenge is taken by one request, however many answer it at once
\* (take_challenge: "atomically consumes state before verification").
ChallengeTakenOnce == \A x \in Challenges : answered[x] <= 1

\* A key is only added for a session that has not been revoked by then, although
\* the session was last verified before the challenge was taken and the version in
\* the challenge was read by another request (register_finish).
KeysAddedByLiveSessions ==
    [][\A p \in Ceremonies :
          ceremony[p].pc = "insert" /\ ceremony'[p] # ceremony[p] /\ ~(passkeys' \subseteq passkeys)
              => ceremony[p].login \notin dead]_vars

\* "Removing a passkey signs out all sessions, including sessions created with
\* that credential": no session opened with a deleted key is accepted, not even
\* one whose login took its challenge before the deletion (login_finish, delete).
DeletedKeySignsOut ==
    \A c \in creds :
        origin[c.login] # NoKey /\ origin[c.login] \notin passkeys => ~VerifyAccess(c)

=============================================================================
