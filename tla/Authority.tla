------------------------------ MODULE Authority ------------------------------
(***************************************************************************)
(* What the central sessions promise to the parts of Authere that build on  *)
(* them: the OIDC provider and forward authentication only see credentials  *)
(* (verify_access_token) and the shared revocation check                    *)
(* (verify_user_session), both in server/src/user/auth/token.rs.            *)
(*                                                                          *)
(* A credential belongs to a LOGIN.  Signing in starts a login; renewing    *)
(* adds a credential to it with the same deadline, authentication time and  *)
(* session version; revoking moves the user's version past all of them.     *)
(* Sessions implements this specification (Sessions!ImplementsAuthority).   *)
(***************************************************************************)
EXTENDS Integers

CONSTANTS
    Users,    \* rows of the users table
    Logins,   \* identities of logins
    Legacy    \* credentials issued before session versions existed

\* session_version of a credential minted before the column existed (None).
NoVersion == -1

\* The claims of an access token, and the login it belongs to.
Credential == [login : Logins, user : Users, iat : Nat, exp : Nat, session_exp : Nat,
               session_version : Nat \cup {NoVersion}, auth_time : Nat]

ASSUME LegacyAssumption ==
    \A c \in Legacy : /\ c \in Credential
                      /\ c.session_version = NoVersion
                      /\ c.iat = 0
                      /\ c.exp <= c.session_exp
                      /\ \A d \in Legacy : d.login = c.login => d.user = c.user

VARIABLES
    now,             \* current_timestamp()
    active,          \* users.active
    token_version,   \* users.token_version
    revoked_before,  \* user_access_revocations.revoked_before (-1: no row)
    creds,           \* credentials minted so far
    dead             \* history: logins of a user at each of its revocations

authVars == <<now, active, token_version, revoked_before, creds, dead>>

-----------------------------------------------------------------------------
\* verify_user_session, of the version and issue time a credential carries.
SessionOk(user, iat, version) ==
    /\ active[user]
    /\ IF version # NoVersion
       THEN version = token_version[user]
       ELSE /\ token_version[user] = 0
            /\ iat > revoked_before[user]

\* verify_access_token.
VerifyAccess(c) ==
    /\ c.exp > now
    /\ c.session_exp > now
    /\ SessionOk(c.user, c.iat, c.session_version)

-----------------------------------------------------------------------------
\* A password, passkey or registration login: the version may have been read
\* before a revocation that is already in force.
SignIn(c) ==
    /\ \A d \in creds : d.login # c.login
    /\ c.iat = now
    /\ c.auth_time <= now
    /\ c.session_exp > now
    /\ c.exp <= c.session_exp
    /\ 0 <= c.session_version
    /\ c.session_version <= token_version[c.user]
    /\ creds' = creds \cup {c}
    /\ UNCHANGED <<now, active, token_version, revoked_before, dead>>

\* The session version a renewal of c carries: a legacy credential is pinned to
\* version 0, the only one it is accepted under.
RenewedVersion(c) == IF c.session_version = NoVersion THEN 0 ELSE c.session_version

\* Any refresh of credential c, answered with d.  A revocation may have come
\* between the consumption of c and this step; d is then refused.
Renew(c, d) ==
    /\ c \in creds
    /\ c.session_exp > now
    /\ (c.session_version = NoVersion /\ token_version[c.user] = 0) =>
          c.iat > revoked_before[c.user]
    /\ d.login = c.login
    /\ d.user = c.user
    /\ d.session_exp = c.session_exp
    /\ d.auth_time = c.auth_time
    /\ d.session_version = RenewedVersion(c)
    /\ d.iat = now
    /\ d.exp <= d.session_exp
    /\ creds' = creds \cup {d}
    /\ UNCHANGED <<now, active, token_version, revoked_before, dead>>

\* Mutant: the version moves the wrong way.
RevokeDown(u) ==
    /\ token_version' = [token_version EXCEPT ![u] = @ - 1]
    /\ revoked_before' = [revoked_before EXCEPT ![u] = now]
    /\ dead' = dead \cup {c.login : c \in {d \in creds : d.user = u}}
    /\ UNCHANGED <<now, active, creds>>

\* Logout, password change, role change, passkey deletion, detected replay.
Revoke(u) ==
    /\ token_version' = [token_version EXCEPT ![u] = @ + 1]
    /\ revoked_before' = [revoked_before EXCEPT ![u] = now]
    /\ dead' = dead \cup {c.login : c \in {d \in creds : d.user = u}}
    /\ UNCHANGED <<now, active, creds>>

SetActive(u) ==
    /\ active' = [active EXCEPT ![u] = ~@]
    /\ UNCHANGED <<now, token_version, revoked_before, creds, dead>>

Tick ==
    /\ now' = now + 1
    /\ UNCHANGED <<active, token_version, revoked_before, creds, dead>>

-----------------------------------------------------------------------------
AuthorityInit ==
    /\ now = 0
    /\ active = [u \in Users |-> TRUE]
    /\ token_version = [u \in Users |-> 0]
    /\ revoked_before \in [Users -> {-1, 0}]
    /\ creds = Legacy
    /\ dead = {}

AuthorityNext ==
    \/ \E c \in creds' : SignIn(c) \/ \E b \in creds : Renew(b, c)
    \/ \E u \in Users : Revoke(u) \/ SetActive(u)
    \/ Tick

AuthoritySpec == AuthorityInit /\ [][AuthorityNext]_authVars

=============================================================================
