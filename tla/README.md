# Authere in TLA+

TLA+ models of Authere (`server/`, a Rust identity provider on SQLite): sessions,
second factor, OIDC provider, forward authentication, accounts and passkeys, and the
LDAP server. All of them are model-checked with TLC on small instances, and all of the
safety properties that hold are proved with TLAPS for every instance. Paths below
are relative to `server/src/` unless they start with a directory of the repository;
`PROJECT.json` maps every definition to its lines.

## 1. The system

Authere signs people in (password + TOTP, or passkey), keeps one *central
session* per sign-in, and lets three kinds of consumer rely on it: its own web
UI, applications behind a reverse proxy (forward authentication), and OIDC
clients. LDAP clients bind with the same accounts. Everything durable is in one
SQLite database. Handlers are axum futures that run concurrently on a connection
pool, and each SQL statement is atomic on its own; a handler is atomic only where
it opens a transaction. A handler's future can be dropped between two statements
(client gone, process restarted).

| Component | State | Operations | Hard part | What makes it correct |
|---|---|---|---|---|
| Central sessions (`user/auth/token.rs`, `handlers/auth.rs`) | `users.token_version`, `user_access_revocations`, `refresh_tokens`, JWT claims in clients | login, strict refresh, browser refresh with a retry window, logout, browser logout, sweep | most paths run outside a transaction; tabs reuse one cookie; credentials from releases without session versions | a revocation is final; refresh tokens are single use; the deadline is fixed at sign-in |
| Password (`user/`, `handlers/user.rs`) | `authenticators` | login check, own change, admin change | the check and the issue of the session are separate statements | a change ends the sessions opened with the old password |
| TOTP (`user/auth/totp.rs`, `handlers/totp.rs`) | `user_totps`, `totp_recovery_codes` | enroll, activate, MFA gate, disable (own, admin) | read, compare, then record | one use per step and per recovery code; codes belong to the enrolled secret |
| Passkeys (`handlers/passkeys.rs`) | `passkeys`, `passkey_challenges`, a cookie per kind | register, login, list, delete | challenge outlives a password change; twenty-key limit | challenges single use; a key is added by a live session only; deletion revokes |
| OIDC provider (`oidc/`, `handlers/oauth.rs`) | `oidc_codes`, applications, JWTs in clients | authorize, token, userinfo, end_session, sweep | code consumed, session verified and tokens minted in separate statements | a code is answered once, to its client; revocation and deadline reach everything derived |
| Forward authentication (`user/auth/forward.rs`, `handlers/auth.rs`) | `forward_handoffs`, a nonce cookie and a session cookie per protected site | start, redirect, callback, verify | a handoff crosses two origins and three requests | handoffs single use, in the browser that asked, bounded by the central session |
| Applications (`application.rs`) | `applications` | create, update, delete, match, check access | update is read-modify-write; overlapping prefixes | the most specific policy decides, a disabled one denies |
| Roles (`role.rs`, `handlers/role.rs`) | `roles`, `user_roles` | create, assign, remove, delete | counts read before the write | at least one admin; an assigned role is not deleted |
| Invitations, registration (`invitation.rs`, `handlers/registration.rs`) | `invitations`, `settings`, the connection pool | create, consume, register | last use taken twice; several connections per request | uses are accounts, never more than allowed; the pool is not exhausted by waiters |
| Rate limiter (`rate_limit.rs`) | in-memory window per address | check, clean up | fixed windows, clean-up | fewer than twice the limit in any window |
| LDAP (`ldap/`), app passwords (`app_passwords.rs`) | permit, buffer, bind state per connection, configuration, `app_passwords` | bind, search, unbind, reload per message | a connection outlives changes of settings and accounts; silent clients; frames from the network | only a current bind may search; a search answers its scope and filter; every connection ends |
| Settings, admin, audit, CLI, static files, web UI, deploy scripts | settings rows, log rows | | | see section 8 |

Interactions. Sign-in calls the MFA gate, then issues a pair. Every consumer calls
`verify_access_token` or `verify_user_session`, which compare the *session
version* a credential carries with `users.token_version`. Logout, password
change, role change, passkey deletion and a detected refresh replay all end in
`revoke_user_access_tokens`, which increments that version. OIDC codes, OIDC
tokens, handoffs and forward sessions carry the version and the deadline of the
session they were derived from, so the one increment is meant to reach them all. `main.rs` runs a
sweep every 300 seconds.

## 2. Modules

| Module | Models |
|---|---|
| `Authority` | abstract: what the central sessions promise their consumers. A credential belongs to a *login*; `SignIn`, `Renew`, `Revoke`, `SetActive`, `Tick` |
| `Sessions` | the central sessions, statement by statement; implements `Authority` |
| `Oidc` | the OIDC provider, on top of `Authority` (EXTENDS it and uses its actions for the session side) |
| `Totp` | the second factor |
| `Policy` | pure operators: the canonical path and the choice of the forward-auth application, with a reference definition of each |
| `ForwardAuth` | forward authentication and the administration of its applications, on top of `Authority` and `Policy` |
| `Directory` | accounts, roles, invitations, registration and its connection pool, `init-admin` |
| `Passkeys` | the WebAuthn ceremonies |
| `Accounts` | composes `Directory` and `Passkeys` over `Authority` |
| `Ber`, `LdapSearch` | pure operators: the frame check, and what a search returns, with a reference definition of each |
| `RateLimiter` | the fixed-window limiter |
| `Ldap` | composes `Ber`, `LdapSearch` and `RateLimiter`: connections, binds, app passwords, settings, restart |
| `MCSessions`, `MCOidc`, `MCTotp`, `MCForwardAuth`, `MCAccounts`, `MCLdap` | instances: symmetry sets and the functions a `.cfg` cannot write |
| `AuthorityProofs` | lemmas about `Authority` that the proofs of its consumers share |
| `LdapLemmas` | lemmas: the operators of `LdapSearch` and `Ber` against their references |
| `SessionsProofs`, `OidcProofs`, `TotpProofs`, `ForwardAuthProofs`, `AccountsProofs`, `LdapProofs` | theorems (section 5) |

Conventions. A handler outside a transaction is a *request*: an element of
`Requests` whose record `req[p]` holds a program counter and what the handler has
read so far. One action is one statement (with the reads that only feed it). A
handler inside a transaction is one action. `Abort(p)` drops a request at any
point. Values the code draws at random (jti, code, secret) are elements of a set,
each drawn once. Time is `current_timestamp()` in seconds; `Tick` advances it.
Operators marked *Mutant* are plausible bugs, used to confirm that each property
depends on the code it is about; no specification refers to them. `ForwardAuth`,
`Accounts` and `Ldap` choose a *workload* in `Init` (which operations, browsers,
messages or changes occur in a behaviour), so that one run covers several
combinations that would be too large together.

### Sessions

A pair (access and refresh token) is one element of `Tokens`; `claims` is what
both JWTs say, `row` the `refresh_tokens` row (`absent`, `live`, `revoked`),
`retry_until`/`retry_pair` the browser retry columns, `held` what clients have
received. `origin`, `dead`, `gen` are history: the login a pair descends from,
the logins that existed at a revocation, the password generation of a login.

| Action | Code |
|---|---|
| `LoginCheck`, `LoginVersion`, `Issue`, `Reply` | `login`/`browser_login`: password check; `generate_token_pair` reads deadline and version; INSERT; answer |
| `PasskeyLogin` | `login_finish`, one transaction |
| `Present`, `Verify`, `Consume`, `Replay`, `Bump` | `consume_refresh_token` of refresh, logout, browser logout: version read, `verify_user_session`, UPDATE, replay branch, `revoke_user_access_tokens` |
| `BrowserLogoutAccess`, `AccessCheck`, `RevokeRows` | `browser_logout` with the access cookie |
| `BrowserRetry`, `BrowserRotate`, `BrowserReplay` | `rotate_browser_token_pair`, one BEGIN IMMEDIATE transaction |
| `ChangePassword`, `RoleChange`, `SetActive`, `UpdateSettings` | the handlers of users, roles and settings that touch sessions |
| `Sweep` | `sweep_expired_sessions` |

Notes. `revoke_user_access_tokens` increments the version and then writes the
`user_access_revocations` row. The row is read only for credentials without a
version and only while the version is 0, so from the increment on it decides
nothing, and the model writes both in one step. The JWT decoder accepts `exp = now` and the UPDATE does not: both are
modelled as they are. The retry chain of at most 16 links is a recursive function
bounded by `ChainLimit`. The second factor of a login is in `Totp`; here a login it
refuses is one that aborts.

### Oidc

`app` holds the applications with what the protocol tells apart (enabled, required
roles, redirect URIs), `code` the code rows, `tokens` the token responses in the
hands of clients. `Authorize` and `IssueCode` are `authorize_impl`; `PresentCode`,
`ConsumeCode`, `VerifyGrant`, `Mint` are `token`; `UserinfoAccepts` and
`HintMatches` are the checks of `userinfo` and `end_session`; `EndSession`,
`Sweep`, `UpdateApplication`, `DeleteApplication`, `ChangeRoles` complete it.
`SignedIn`, `Renewed`, `Revoked`, `ActiveSet`, `TimePasses` are the session side,
the actions of `Authority` with this module's bounds.

Notes. The reads of `authorize_impl` up to the issue of the code are one step: the
code is worth only the version it carries, and that is checked again by the
exchange. The application a token request read stays in its register, so an update
or a deletion in between is seen where the code sees it. Codes issued before the
`session_exp` column existed live sixty seconds and are left out. Scopes, nonces and
state are passed through and appear in no decision modelled here; the client secret
is compared where `PresentCode` requires the client.

### Totp

One user, since every statement is keyed by the user. `EnforceMfa`, `RecordStep`,
`Recover` are `enforce_mfa` with `record_step` and `consume_recovery_code`;
`EnrollRead`, `Upsert`, `Activate` are enrollment; `DisableRow`, `DisableCodes` the
two statements of `UserTotp::delete`. `Hotp` is a constant function: nothing is
assumed about it except its type, so collisions between steps and between secrets
are included. HMAC, base32 and the encryption of the secret are not modelled.

### Policy and ForwardAuth

A path is the list of the pieces between its slashes; of each piece it says how many
percent-encodings it is wrapped in and the segments it decodes to, several where it has
encoded slashes. A canonical path and a prefix are sequences of tokens (a slash or a
segment), so that `starts_with` is `IsPrefix`. `ForwardTarget::parse` works on a path
twice. `UrlPath` is what `url::Url::parse` leaves: it takes out the dot segments it sees,
written as `.`, `..` or with `%2e`, and `..` takes the piece before it with it, also an
empty one, so `/a//../b` is `/a/b` before `normalize_policy_path` looks for two slashes
that meet. `NormalizePolicyPath` decodes the rest, refuses what is ambiguous and resolves
the dot segments that decoding brings out. Both are the same loop with a stack (`Loop`)
over different pieces. The parsed path is what the handoff carries and the callback
judges again, so `AllPaths` has the paths sent and the parsed ones. `SafeLocalPath` is in
front where a header or a query holds a path alone. `FindMatching` folds `Visit` over the
rows in the order they are listed. Left out are what the checks refuse by a character (a
backslash, a control character, also a decoded one) and the URL parser's special case of
a Windows drive letter, which `https` URLs do not have; what a URL parser or a header
check refuses never becomes a target.

| Action | Code |
|---|---|
| `Start` | `forward_auth_start`: the nonce, in a cookie of the protected host |
| `Redirect`, `VerifyParent`, `InsertHandoff` | `forward_redirect` and `issue_handoff` |
| `Callback`, `ConsumeHandoff`, `CheckPolicy`, `Deliver` | `forward_auth_callback` and `redeem_handoff` |
| `Verified` (predicate) | `verify_auth` with `verify_session` |
| `CreateApplication`, `ReadApplication`, `WriteApplication`, `DeleteApplication` | the application handlers; an update writes back every column it read |
| `ChangeRoles`, `Sweep` | role assignments, the sweep of `forward_handoffs` |
| `SignedIn`, `Renewed`, `Revoked`, `ActiveSet`, `TimePasses` | the actions of `Authority` with this module's bounds |

Notes. `verify_auth` changes nothing, so it is a predicate over the state, asked of
every session in every state; its reads are folded into one. A browser renews its
central session inside `forward_redirect` when it holds a refresh cookie only: that
is `Renewed` followed by `Redirect`. `forward_redirect` looks at the form of the state in
its link only (`handlers/auth.rs:1132`), so `Redirect` takes any nonce and any access
cookie: a sign-in made in one browser may follow the redirect link of another. What the
start on the protected origin gives, "so the callback can prove that this browser
initiated the login" (`handlers/auth.rs:1032`), is about the browser of the callback, and
`SessionsStartInTheirBrowser` says just that: a session is in a browser only for a
redeemed handoff whose nonce this browser, and no other, was given. `new_state` draws
256 random bits: `Start` takes none that is around already (`Seen`).

### Directory, Passkeys, Accounts

Role changes and the first half of `register` run on a pooled connection outside a
transaction and take a step per statement; `create_user`, `update_user`,
`update_me`, the invitation handlers and the transaction of `register` are one step.
`pool` is the set of requests that hold a connection: `Acquire` takes a free one, `Release`
is `drop(conn)`, and a handler that returns drops what it has. `register` needs one three
times, and `Waiting` are the two places where it cannot go on without another. `username`, `user_roles` and `invited` (history: the invitation an account was
made with) describe the accounts. Foreign keys and unique constraints of the schema
are the conditions of the actions that run into them (`InsertAssignment`,
`DeleteRole`, `InsertAccount`). `User::new` draws a random id before the row is
written: `Fresh` excludes the accounts that exist and the ids other requests have
drawn.

A passkey ceremony is `StartRegistration`, `ReadVersion`, `SaveRegistration` or
`StartLogin`, then `TakeRegistration`/`InsertPasskey` or
`TakeLogin`/`PasskeySignIn`. The challenge is taken in a statement of its own, what
follows is a `BEGIN IMMEDIATE` transaction. `DeletePasskey` deletes, revokes and
drops the user's challenges in one transaction. webauthn-rs is external: an answer
is one that verifies, or `AbortCeremony`.

Notes. A password login is one step here (`SignedIn`; `Sessions` has its statements
and the race of finding 1). The login, registration and passkey rate limits are not
composed with these modules: the limiter only refuses. `last_used_at`, names and
labels are left out. No handler deletes an account.

### RateLimiter, Ber, LdapSearch, Ldap

`Check` reads the time and takes the lock in one step; `Cleanup` is the loop of
`main.rs`. `Ber` translates `ber_header`, `validate_ber_structure` (a bounded walk
with an explicit stack) and `decode`, over bytes and with the width of `usize` a
constant. `LdapSearch` translates DN comparison, the entries, filters (atoms and one
level of and, or, not), scopes and the units to scan; a DN is parsed already, or is
`BadDn`.

| Action of `Ldap` | Code |
|---|---|
| `Accept`, `Receive`, `Arrive`, `TakeFrame`, `RefuseFrame`, `Hangup`, `Goodbye` | `run` and the read loop of `handle_connection`; a message arrives whole or byte by byte |
| `ReadSetting` | one SELECT of `load_ldap_config`, which runs for every message outside a transaction |
| `DispatchBind`, `ReadUser`, `ReadTotp`, `TryApp`, `TryPrimary` | `handle_bind`, `handle_service_bind`, `handle_user_bind` |
| `DispatchSearch`, `Recheck`, `Scan` | `handle_search` |
| `DispatchOther`, `Send`, `SendFails`, `DbFails` | the other operations, and what can fail |
| `UpdateLdap`, `RegenerateBindPassword`, `ChangePassword`, `SetActive`, `ToggleTotp`, `AskAppPassword`, `InsertAppPassword`, `DeleteAppPassword` | what admins and users change meanwhile |
| `Restart` | `restart_service` or a crash: connections and limiter gone, the listener decided anew |

Notes. `held` is history: everything that was the case at some instant since the
message of a connection came in. A handler that reads statement by statement cannot
promise that its answer fits one instant, and the settings it loads may mix two
configurations; the properties ask that each fact it relied on held at some instant
of the request. A bind of a user outlives a change of that user's password and the
deletion of the app password it was made with, by design of `handle_search`, which
rechecks only that the user is active. `Scan` chooses which of the role lookups fail:
`handle_search` takes a failed one for a user without roles and answers with success,
and `reply.lost` remembers which they were. `SearchAnswersScope` states what such an
answer is: the right one for a directory without those roles, and one with the right
entries as long as the filter does not ask for `memberOf` or `member`. Any other
statement that fails (`DbFails`) ends the operation, a failing check of the primary
password as invalid credentials. The users and groups a search reads are fixed
in `Ldap`; the text of DNs, the selection of attributes and `bind_address` are not
modelled.

## 3. Runs

| Run | Instance | What it shows |
|---|---|---|
| `sessions_strict` | 1 user, 2 concurrent requests, 3 pairs of which 1 legacy, clock 0..2, one revocation; login, refresh, logout, browser logout, password change | `TypeOK`; a revocation is final (`RevokedSessionsStayDead`); every step is an `Authority` step, so a strict refresh keeps the deadline (`ImplementsAuthority`); single use while two strict refreshes, logouts and aborts race (`OneLiveCredentialPerLogin`); a refresh ends the sessions only over a used or an expired token (`OnlyReplayOrExpiryRevokes`) |
| `sessions_browser` | 4 pairs of which 1 legacy (chains of three rotations), 1 request, clock 0..2, chain limit 2, two values of the setting; browser refresh, passkey login, role changes, deactivation; `FairSpec` | single use among browser tabs (`OneLiveCredentialPerLogin`); `RetryChainStaysInLogin`; `BrowserAnswerIsCurrent`; `DeadlineFixedAtLogin` while the setting changes; `StoredRowsAreSwept` |
| `oidc` | 2 clients, 2 redirect URIs, 2 verifiers and challenges, 1 code, 2 requests, a legacy and a new login, clock 0..2, one revocation | `CodeAnsweredOnce`, `CodeSpentByItsClient`, `RevocationReachesTokens`, `GrantsWithinSession`, `TypeOK` |
| `totp` | 2 secrets whose codes collide, 3 digits, 2 requests, clock 0..4 with two-second steps | `StepAcceptedOnce`, `RecoveryCodeAcceptedOnce`, `CodesBelongToEnrollment`, `ActiveFactorNotReset`, `AcceptedFactorIsEnrolled` |
| `forward` | four workloads (sessions end; policies change; every path; several hosts) with 2 applications with overlapping prefixes, 3 hosts of which one is Authere's own, 2 browsers, 2 logins (one legacy), 45 paths, 2 nonces, 1 handoff, 2 requests, clock 0..2, one revocation | `HandoffRedeemedOnce`, `RevocationReachesForward`, `ForwardWithinSession`, `SessionsStartInTheirBrowser`, `MostSpecificPolicyDecides`, `PolicyPathIsCanonical`, `TypeOK` |
| `accounts` | 3 users of which two exist or fewer, 3 names, 1 custom role, 1 invitation, 2 requests, 2 connections, 2 keys and challenges, 2 browsers, limit of 1 passkey | `InvitationsCountAccounts`, `PoolNeverStarved`, `PasskeysWithinLimit`, `ChallengeTakenOnce`, `DeletedKeySignsOut`, `KeysAddedByLiveSessions` |
| `ldap` | 2 sockets for 1 permit, 1 person, 2 groups, 2 base DNs, 3 modes, 2 primary, 2 service and 1 app password, limit of 2 binds in a window of 2 with the clock to 5, frames of up to 6 bytes over 7 byte values | `BoundSearchesAreCurrent`, `UserBindsAreJustified`, `BindRateBounded`, `SearchAnswersScope`, `FramesAreDecided`, `ConnectionsEnd`, `TypeOK` |
| `sessions_password_race` | login and password change | violation, finding 1 |
| `totp_disable_race` | as `totp` | violation, finding 2 |
| `accounts_last_admin` | as `accounts`, the roles | violation, finding 3 |
| `accounts_role_delete` | as `accounts`, the roles | violation, finding 4 |
| `ldap_anonymous` | as `ldap` | violation, finding 5 |

Bounds. `MaxTime` and `MaxClock` stop the clock, `MaxVersion` the revocations,
`MaxCredentials` the central credentials, `MaxUses` the uses an invitation may allow,
`MaxGeneration`, `MaxApps` and `MaxChanges` the service passwords, the app passwords
and the changes of `Ldap`, the `budget` of a workload the messages a server receives;
the finite sets bound the rest. They are enough because the races need two requests
on one object, one revocation between two statements, and a clock that passes each
deadline: an access token dies after one second, a session after one or two, a
retry window, a handoff and a challenge after one. One code, one handoff and one
invitation are enough as the handlers never relate two of them. The limits that are
large in the code (20 passkeys, 128 connections, 32 nested containers, 8 octets of a
length) are constants with small values here, so that runs reach them: one passkey,
one permit for two sockets, three containers, one octet; the decision at the limit is
the same comparison. Two binds in a window and a
clock that passes two windows' ends let a burst at the end of one window meet one at the
beginning of the next. Searches cover ten bases, four scopes and fourteen filters
against a person whose mail address makes the parts of a substring filter overlap.
Different endpoints are enabled per run to keep each exhaustive; `Endpoints` and
`Workloads` disable the others, and the proofs hold for every choice of `Endpoints`.

Symmetry. Requests, unissued pairs, clients, redirect URIs, nonces, names, keys,
challenges and browsers are interchangeable where a cfg names `Symmetry`; in `oidc`,
so are the two verifiers together with their challenges. The runs with a liveness
property (`sessions_browser`, `ldap`) use no symmetry.

Fairness. `sessions_browser` assumes weak fairness of the clock and of `Sweep`, which
`main.rs` (lines 159-177) runs in a loop that logs an error and goes on. `ldap`
assumes, for each connection, weak fairness of what the server does by itself (tokio
runs a task that can go on, and a send ends within `IO_TIMEOUT`, one way or the other)
and of `Hangup`, the timeout around every read. No fairness is assumed for clients,
requests or admins: `ConnectionsEnd` holds because a client that stays silent at any
byte is timed out, and one that keeps sending uses up its budget.

Deadlock is checked in `sessions_*`, `oidc`, `totp` and `forward`, where every
instance can always at least sweep or disable the factor. `accounts` and `ldap` may
stop: ids, changes, messages and the clock are bounded, and an idle server has
nothing to do. Requests that wait for each other are what `PoolNeverStarved` excludes
in `accounts`, connections that hang what `ConnectionsEnd` excludes in `ldap`.

## 4. Findings

1. *Password change.* `login` reads `token_version` after the password check, so a
   password change between the two does not end the session opened with the old
   password (`PasswordChangeEndsSessions`).
2. *Disabling TOTP.* The second statement of `UserTotp::delete` can delete the
   recovery codes of an enrollment activated after the first
   (`ActiveFactorKeepsItsCodes`).
3. *The last admin.* `remove_role` counts the admins and deletes in a later statement:
   two admins who remove each other at once leave none (`AdminRemains`). `init-admin`
   can make a new one.
4. *Deleting a role.* `Role::delete` counts the assignments and deletes in a later
   statement: a role assigned in between is deleted and the assignment with it, although
   it "fails if role is assigned to any users" (`AssignedRolesAreKept`).
5. *Anonymous LDAP searches.* A search without a bind is refused unless its base is
   empty, and only base scope is answered with the Root DSE: an empty base with
   subtree or children scope is answered with the directory
   (`AnonymousSeesRootDse`).

Also seen: in the second `now = exp` an unused refresh token decodes but its row
cannot be consumed; the code takes the branch of a replay and revokes every session
of the user. `OnlyReplayOrExpiryRevokes` states that this is the only exception.

## 5. Proofs

The theorems hold for all values of the constants that satisfy the named
assumptions (`ConstantsAssumption` and its companions: sentinels outside the sets,
positive lifetimes), in particular for any number of users, pairs, codes, clients
and concurrent requests.

**`SessionsProofs`.** No safety property is inductive alone: a request carries a
version, a deadline and a parent from one statement to the next, and the property
depends on what these still mean when the INSERT comes. `Inv` is `TypeOK`,
`StoreOK` (rows only for issued pairs), `PairOK` (a pair has its login's user and
deadline, and is behind the user's version once the login is dead) and `RequestOK`
(a register's version is never ahead of the user's, and behind if its login is
dead). One lemma per action shows that `Inv` is kept; three lemmas (`SameKeeps`,
`InsertKeeps`, `RevokeKeeps`) carry the data part. From it: `TypeCorrect`,
`RevocationIsFinal`, `DeadlineIsFixed`. `RefreshTokensAreSingleUse` adds `LiveInv`:
a login has at most one unrevoked row *or* rotation in flight, where most actions
are shown *quiet* and only issue, consume, passkey login and browser rotation need
an argument. `RetryChainsAreClosed` adds the invariant of the retry columns.
`RevocationNeedsReplayOrExpiry` adds `ReplayInv`: a request that failed to consume its
token still finds it revoked, deleted or expired in the statement that acts on it,
because no statement revives a row or moves a deadline (`SpentStaysSpent`).
`BrowserAnswersAreCurrent` rests on the retry chains: that the recursive walk of the
chain is defined for every limit, and stays in the tab's login, are inductions on the
rounds of the loop; the rest is that a rotation verifies and mints in one transaction.

The last part of the module is `SessionsImplementAuthority`: `Spec` implies
`Authority`'s specification under the mapping that reads the issued pairs as
credentials. The statements that touch no pair and no version stutter; a login's
INSERT is `SignIn`, a rotation's is `Renew`, the four revocations are `Revoke`. The
extra invariant `RefinementInv` says that a rotation in flight carries the version
`Renew` asks for, and that a legacy credential was newer than the user's timestamp
revocation for as long as the user's version is still 0. It is needed because `Renew`
constrains the INSERT by a credential that was verified two statements earlier.

**`OidcProofs`.** `Inv` is `TypeOK`, `CredentialsOK` (the session side: a dead
login's credentials are behind the version), `GrantsOK` (codes, tokens and registers
trace back to a credential with their deadline and version), `CodesOK` (a code was
answered at most once, and if a request holds it consumed, not at all) and
`BindingOK` (a register about to consume matched its row's client, redirect URI and
challenge). From it: `TypeCorrect`, `CodesAreSingleUse`, `CodesAreBound`,
`RevocationIsFinal`, `GrantsEndWithSession`.

**`TotpProofs`.** `Inv` is `TypeOK`, `StepsOK` (no step above the last one used has
been accepted, and a secret not yet drawn has accepted nothing) and `CodesOK` (an
unused code has never been accepted). From it: the five properties of the run, and
type correctness.

**`AuthorityProofs`.** What the consumers of the sessions need from them, once:
`CredentialsOK` (a credential of a dead login is behind its user's version) is kept by
`SignIn`, `Renew`, `Revoke`, `SetActive` and `Tick`, and a credential behind the version
is refused. `OidcProofs`, `ForwardAuthProofs` and `AccountsProofs` cite it.

**`ForwardAuthProofs`.** `Inv` is `TypeOK`, `CredentialsOK`, `NoncesOK` (a nonce was given
to one browser, and a state cookie holds one given to its browser on its host),
`HandoffsOK` (a handoff is derived from a credential, within its deadline), `RequestsOK` (a
redirect in flight has a credential and a parsed path that was not refused; a callback that
was let in runs in the browser that `Began`, the one given the handoff's nonce),
`SessionsOK` (a session was `Delivered` for a handoff redeemed there) and `RedemptionsOK` (a
stored handoff was not redeemed). Nothing is said of the browser a redirect link is
followed in: the nonce in the cookie alone decides. No property is inductive alone: a callback verifies, consumes
and delivers in different statements, and which browser a session ends up in is decided by
a nonce given out three requests earlier. From it: `TypeCorrect`, `HandoffsAreSingleUse`,
`RevocationIsFinal`, `ForwardEndsWithSession`, `SessionsAreBound`. `PolicyIsMostSpecific`
is about the loop of `find_matching`, for every table and every order of its rows: that the
fold is the loop, and that after each round `best` outranks every row seen or is marked
ambiguous, are inductions on the rounds. `PathsAreCanonical` is about both
loops of `ForwardTarget::parse`, for paths of any length. The reference has no stack: what
is put on it survives unless, somewhere behind it, more closes than opens. The induction
(`RoundHoldsOpen`) is that after each piece the stack holds, in order, what is still open:
what the height of the path (opening less closing pieces so far, `HeightSteps`) has not
fallen below since. At the end these are the surviving ones (`SurvivingIsOpen`). It is used
twice: for the URL parser (`ParsedIsCanonical`, which also has that a parsed path has no dot
segment left to see, so parsing it again changes nothing) and for `normalize_policy_path`
(`PathIsCanonical`).

**`AccountsProofs`.** The two halves meet only in the sessions, so each has its own
invariant. `DirectoryInv`: types, `RolesOK` (a built-in role is there and never the one being deleted), `DraftsOK` (a drawn id belongs to one request and to no account, and
an id without an account was not invited), `CodesOK` (a registration that is to consume an
invitation was given one), the count of each invitation, and `PoolOK` (no more connections
in use than there are, each held by a request at a place where its handler has one).
`PoolNeverStarved` follows from `PoolOK`: those places are none of the `Waiting` ones, which
rests on `register` dropping its connection in both branches and on every return. The count needs `DraftsOK`: without it an INSERT could overwrite an
account that was already counted. `PasskeysInv`: types, `ChallengesOK` (a stored challenge
was not answered and carries a version its user had), `CookiesOK`, `KeysOK` (finitely many,
within the limit), `OriginsOK` (a login made with a deleted key is dead) and `CeremoniesOK`
(the version a registration carries is behind once the login that asked is dead). From
them: `TypeCorrect`, `BuiltInRolesStay`, `InvitationsAreCounted`, `PoolIsSafe`,
`PasskeysAreLimited`, `ChallengesAreSingleUse`, `DeletionSignsOut`, and the action property
`KeysNeedLiveSessions`. Counting uses the library's theorems on finite cardinalities.

**`LdapProofs`.** The limiter's invariant `RateOK` gives every address a window start `w`
and a number `c`: the last `c` admissions are in the window, the earlier ones before it, and
those a quota further back a whole window before it; an entry that `cleanup`
removed has a window that ended. The entry alone would not do: `cleanup` forgets
it while the admissions remain. The bound is that of one process: a restart begins with an
empty limiter and an empty history. A connection's invariant `ConnOK` says which facts of `held`
its registers rest on: the settings read so far (`LoadOK`), the configuration and the bind
kept under it (`ConfigOK`), the user a search found active (`SearchOK`), and what justifies a
bind so far (`UserOK`); `PermitsOK` says that no more connections are open than permits. From it:
`TypeCorrect`, `SearchesUnderCurrentBinds`, `BindsAreJustified`, `BindRateIsBounded`.
`SearchesAnswerTheirScope` adds `AnswersInv`: the entries a connection is about to send are
the answer to its own message under its own configuration, after the role lookups that failed
for it. `CodecDecidesFrames` adds
`BufsInv`: a buffer holds bytes, however they came in. What is left of both is a fact about
pure operators:

**`LdapLemmas`.** *Searches.* `ScanIsAnswer` and `NowhereIsAnswer`: a unit that a base and
scope do not include holds no entry in that scope, so the units scanned give the whole
answer, whichever lookups failed. `RoleBlindAnswers`: entries of the same user or role after
different failed lookups differ in `memberOf` and `member` only (`LostAreAlike`), and a filter
that asks for neither does not tell them apart. `SubstringIsCut`: the reference cuts the name into the parts with anything between
them. If there is a cut, the cursor is after each part at or before the place the cut has
for it, as `str::find` takes the first place; conversely the cursors are themselves a cut.
Both are inductions on the parts. *Frames.* The reference has no stack either: `Values`
gives the spans of the frame that are one value at each depth, and a frame is well nested
if values tile it. A header can be read in one way (`HeaderIs`), so the value that starts at
a position is determined (`ValueStarts`) and the rest of a tiling is one (`TiledSplits`).
The invariant of the walk is that the frame is well nested if and only if, for every open
container, what is left of it is tiled by values of its level; `TurnIs` shows it for each
branch of the loop, and `WalkIs` bounds the turns, since every turn reads two bytes or pops
an end. When the walk is over, all is tiled or a turn has refused (`ValidIsWellNested`).
`DecodeDecides` adds the checks of `decode` in front of it: the width of `usize`, the size
limit, and bytes still missing.

Assumptions. `LegacyAssumption`, `NamesAssumption`, `PathsAssumption`, `RowsAssumption`,
`ForwardAssumption`, `DirectoryAssumption` (one in `Directory`, one in `LdapSearch`),
`PasskeysAssumption`, `AccountsAssumption`, `LimiterAssumption`, `BerAssumption`,
`LdapAssumption` and those of the other modules say that sentinels (SQL NULL, no row) are
none of the values, that tables, requests and sockets are finite, that lifetimes and limits
are numbers (the pool holds a connection, the limiter lets a request in and its window is not empty, the size limit of a frame
fits into a `usize`), that inputs are what the parser in front makes of them (a path has a
segment, a segment no slash; the parts of a filter and a DN are sequences; bytes are
0..255), and that an instance's initial rows have the columns of the schema. TLC evaluates
them on every instance.

What the proofs changed. `CreateUser`, `InitAdmin` and `Register` had drawn ids that other
requests held already, which `User::new` does not do and no small instance told apart; the
count of an invitation is not inductive with it. `KeysAddedByLiveSessions` is about the
ceremony that takes the step, and now says so. The type of the LDAP server had bounded the
messages received by the workload's budget, which a frame already buffered may exceed. The
references were rewritten to say the same without recursion over the input: a surviving
segment by counting, a satisfied filter by its parts, the values of a frame by their depth.

Only model-checked: `StoredRowsAreSwept` and `ConnectionsEnd`, which are liveness under
fairness. The library's induction theorems take an operator as a parameter, which the
provers cannot instantiate; where a loop runs over a sequence of any length (rows, links of
a retry chain, segments, parts of a filter, bytes of a frame) the induction is set up by
hand, on the set of the rounds for which the claim holds.

## 6. Plan

Everything of the inventory that is to be modelled is, and every safety property that a
passing run checks is proved. Open:

1. Of two concurrent updates of an application the earlier one may be lost. The model has
   the two statements, but no document or test says what should happen, so no property does.
2. The components that `PROJECT.json` lists as modelled in part are worth more only once
   what section 8 leaves out of them decides on stored state.

## 7. How the models are kept honest

Every property of a passing run has a mutant of a mapped definition (a dropped
conjunct of a WHERE clause, the version read at the wrong moment, a missing reset)
under which TLC reports that property violated.

## 8. Not modelled, and why

* Argon2, AES-GCM, JWT signatures, HOTP, PKCE's SHA-256: functions with the
  properties the protocol uses (a token cannot be made up; a verifier belongs to a
  challenge).
* Parsing and formatting of text: URLs, DNs, headers, cookies, the validation of
  names, slugs, patterns, base DNs and addresses, the ASN.1 content of LDAP messages.
  The decisions behind them are modelled on what they yield.
* The attributes an LDAP search selects, `last_used_at`, labels and names: nothing
  decides on them.
* Rate limits in front of login, registration, passkeys and the token endpoint: the
  limiter itself is modelled with LDAP binds, elsewhere a refusal is a request that
  does not start.
* The read of the clock and the lock of the rate limiter are one step, though a
  request may wait for the lock in between.
* The session signing key: made once at start-up.
* Audit log: append-only, no handler decides on it.
* Origin checks, routing, static files, CLI, migrations, web UI, deployment:
  stateless or outside the server process. The web UI's refresh deduplication runs
  against the browser endpoints, whose model lets any tab refresh at any time.
