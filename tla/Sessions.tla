------------------------------ MODULE Sessions ------------------------------
(***************************************************************************)
(* Authere's central sessions: server/src/user/auth/token.rs and the        *)
(* handlers that start, rotate and end a session (handlers/auth.rs,         *)
(* handlers/user.rs, handlers/role.rs, handlers/passkeys.rs).               *)
(*                                                                          *)
(* A login issues a PAIR: an access token and a refresh token with the same *)
(* subject, session deadline, session version and authentication time.  A   *)
(* pair is one element of Tokens; `claims' holds what both JWTs say and     *)
(* `row' the refresh token's row of the refresh_tokens table.               *)
(*                                                                          *)
(* Concurrency.  SQLite executes each statement atomically.  Handlers that  *)
(* run outside a transaction (login, strict refresh, both logouts) are      *)
(* requests that take one step per statement; handlers that run in a        *)
(* transaction (browser refresh, password change, passkey login) are one    *)
(* step.  Abort drops a request between two statements: the connection was  *)
(* closed, or the process was restarted.                                    *)
(***************************************************************************)
EXTENDS Integers

CONSTANTS
    Users,             \* rows of the users table
    Tokens,            \* identities of token pairs (one jti pair each)
    LegacyPairs,       \* pairs issued before session versions existed
    Requests,          \* HTTP requests in flight
    NoToken,           \* SQL NULL in refresh_tokens.browser_retry_pair
    AccessLifetime,    \* ACCESS_TOKEN_LIFETIME
    RetryWindow,       \* the five seconds of rotate_browser_token_pair
    ChainLimit,        \* the 16 links followed by rotate_browser_token_pair
    SessionExpiries,   \* values an admin gives session_expiry_seconds
    LegacyDeadline,    \* exp of the legacy pairs
    Endpoints,         \* operations the clients and admins of an instance use
    MaxTime,           \* bound: the clock stops here
    MaxVersion         \* bound: token_version stops here

ASSUME ConstantsAssumption ==
    /\ Users # {}
    /\ LegacyPairs \subseteq Tokens
    /\ NoToken \notin Tokens
    /\ AccessLifetime \in Nat \ {0}
    /\ RetryWindow \in Nat \ {0}
    /\ ChainLimit \in Nat \ {0}
    /\ SessionExpiries \subseteq Nat \ {0}
    /\ SessionExpiries # {}
    /\ LegacyDeadline \in Nat
    /\ Endpoints \subseteq {"login", "passkey", "refresh", "logout", "browser_logout",
                            "browser_refresh", "password", "roles", "active", "settings"}
    /\ MaxTime \in Nat
    /\ MaxVersion \in Nat

VARIABLES
    now,             \* current_timestamp()
    active,          \* users.active
    token_version,   \* users.token_version
    password,        \* generation of the password hash in authenticators
    revoked_before,  \* user_access_revocations.revoked_before (-1: no row)
    session_expiry,  \* the session_expiry_seconds setting
    claims,          \* what the two JWTs of a pair say
    issued,          \* pairs that exist
    held,            \* pairs some client has received
    row,             \* refresh_tokens row of the pair
    retry_until,     \* refresh_tokens.browser_retry_until
    retry_pair,      \* refresh_tokens.browser_retry_pair
    req,             \* requests in flight
    origin,          \* history: the login a pair descends from
    dead,            \* history: logins of a user at each of its revocations
    gen              \* history: password generation the login was checked with

userVars == <<active, token_version, password, revoked_before, session_expiry>>
rowVars  == <<row, retry_until, retry_pair>>
pairVars == <<claims, issued, origin, gen>>
vars == <<now, userVars, rowVars, pairVars, held, req, dead>>

\* session_version of a credential minted before the column existed (None).
NoVersion == -1

\* Claims without the constant parts; exp is the access token's, the refresh
\* token's exp is session_exp.
Claims == [user : Users, iat : Nat, exp : Nat, session_exp : Nat,
           session_version : Nat \cup {NoVersion}, auth_time : Nat]

PCs == {"idle", "version", "issue", "reply", "verify", "consume",
        "replay", "revoke_rows", "bump", "access"}
Kinds == {"none", "login", "refresh", "browser_refresh", "logout", "browser_logout"}

\* A request: its handler, the pair it presented (then the pair it answers
\* with) and what it has read so far.
Request == [pc : PCs, kind : Kinds, user : Users, tok : Tokens \cup {NoToken},
            ver : Nat, exp : Nat, auth : Nat, gen : Nat, failed : BOOLEAN]

AnyUser == CHOOSE u \in Users : TRUE
Idle == [pc |-> "idle", kind |-> "none", user |-> AnyUser, tok |-> NoToken,
         ver |-> 0, exp |-> 0, auth |-> 0, gen |-> 0, failed |-> FALSE]

Lesser(a, b) == IF a <= b THEN a ELSE b

-----------------------------------------------------------------------------
(* Verification *)

\* verify_user_session, which reads the version of an ACTIVE user only.
SessionOk(c) ==
    /\ active[c.user]
    /\ IF c.session_version # NoVersion
       THEN c.session_version = token_version[c.user]
       ELSE /\ token_version[c.user] = 0
            /\ c.iat > revoked_before[c.user]

\* verify_access_token; decode has no leeway and the handler rejects exp = now.
VerifyAccess(t) ==
    /\ claims[t].exp > now
    /\ claims[t].session_exp > now
    /\ SessionOk(claims[t])

\* decode::<Claims> of a refresh token: the library refuses exp < now only.
RefreshDecodes(t) == claims[t].session_exp >= now

\* Mutant: the UPDATE without `revoked_at IS NULL'.
ConsumableTwice(t) == row[t] # "absent" /\ claims[t].session_exp > now

\* Mutant: a token is refused a second before its deadline.
ConsumableEarlier(t) == row[t] = "live" /\ claims[t].session_exp > now + 1

\* The row that `UPDATE ... revoked_at IS NULL AND expires_at > now' matches.
Consumable(t) == row[t] = "live" /\ claims[t].session_exp > now

\* A consumed row whose replacement may still be returned to another tab.
Retryable(t) ==
    /\ row[t] = "revoked"
    /\ claims[t].session_exp > now
    /\ retry_pair[t] # NoToken
    /\ retry_until[t] > now

\* Mutant: the loop answers with the stored pair without following the chain.
FirstReplacement(t) == {r \in {retry_pair[t]} : VerifyAccess(r)}

\* The loop of rotate_browser_token_pair: chase[k] is the pair under
\* examination in the k-th round, NoToken once a round has failed.  The answer
\* is the live pair the loop stops at, if there is one.
RetryResults(t) ==
    LET chase[k \in 1 .. ChainLimit] ==
            IF k = 1 THEN retry_pair[t]
            ELSE LET r == chase[k - 1]
                 IN  IF r # NoToken /\ VerifyAccess(r) /\ Retryable(r)
                     THEN retry_pair[r] ELSE NoToken
    IN  {r \in Tokens : /\ \E k \in 1 .. ChainLimit : chase[k] = r
                        /\ VerifyAccess(r)
                        /\ Consumable(r)}

-----------------------------------------------------------------------------
(* Effects shared by several handlers *)

\* Mutant: a refresh starts the session over.
SlidingDeadline(c) == now + session_expiry

\* rotate_token_pair: the deadline of the session being refreshed.
RotatedDeadline(c) == c.session_exp

\* consume_refresh_token: a legacy credential is pinned to the version read
\* before its verification, every other one keeps the version it carries.
PinnedVersion(c, before) ==
    IF c.session_version = NoVersion THEN before ELSE c.session_version

\* Mutant: the new pair carries the version current when it is minted.
CurrentVersion(p) == token_version[req[p].user]

\* generate_token_pair_for_session: the version it was handed.
IssuedVersion(p) == req[p].ver

\* generate_token_pair_for_session: both JWTs of the new pair n and its row.
InsertPair(n, u, exp, ver, auth, from, g) ==
    /\ n \in Tokens \ issued
    /\ issued' = issued \cup {n}
    /\ claims' = [claims EXCEPT ![n] =
            [user |-> u, iat |-> now, exp |-> Lesser(now + AccessLifetime, exp),
             session_exp |-> exp, session_version |-> ver, auth_time |-> auth]]
    /\ origin' = [origin EXCEPT ![n] = from]
    /\ gen' = [gen EXCEPT ![n] = g]

\* Mutant: the version moves the wrong way.
RevokeAccessDown(u) ==
    /\ token_version' = [token_version EXCEPT ![u] = @ - 1]
    /\ UNCHANGED <<revoked_before, dead>>

\* revoke_user_access_tokens.  revoked_before is only read while the version
\* is 0, so its own statement is folded into the version's.
RevokeAccess(u) ==
    /\ token_version[u] < MaxVersion
    /\ token_version' = [token_version EXCEPT ![u] = @ + 1]
    /\ revoked_before' = [revoked_before EXCEPT ![u] = now]
    /\ dead' = dead \cup {origin[t] : t \in {s \in issued : claims[s].user = u}}

\* First statement of revoke_all_user_tokens.
RevokedRows(u) ==
    [t \in Tokens |-> IF row[t] = "live" /\ claims[t].user = u
                      THEN "revoked" ELSE row[t]]

Goto(p, r) == req' = [req EXCEPT ![p] = r]

\* consume_refresh_token returned AuthenticationRequired: browser_logout
\* falls back to the access cookie, the other handlers answer 401.
FailConsume(p) ==
    Goto(p, IF req[p].kind = "browser_logout"
            THEN [req[p] EXCEPT !.pc = "access", !.failed = FALSE] ELSE Idle)

-----------------------------------------------------------------------------
(* Logins *)

\* login / browser_login up to the password check: User::login.  The second
\* factor is modelled in Totp; a request it refuses is one that aborts here.
LoginCheck(p, u) ==
    /\ req[p] = Idle
    /\ active[u]
    /\ Goto(p, [Idle EXCEPT !.pc = "version", !.kind = "login", !.user = u,
                            !.gen = password[u]])
    /\ UNCHANGED <<now, userVars, rowVars, pairVars, held, dead>>

\* generate_token_pair: the deadline from the setting, the CURRENT version.
LoginVersion(p) ==
    /\ req[p].pc = "version"
    /\ now + session_expiry <= MaxTime
    /\ Goto(p, IF active[req[p].user]
               THEN [req[p] EXCEPT !.pc = "issue", !.exp = now + session_expiry,
                         !.ver = token_version[req[p].user], !.auth = now]
               ELSE Idle)
    /\ UNCHANGED <<now, userVars, rowVars, pairVars, held, dead>>

\* generate_token_pair_for_session, for a login or a strict refresh.
Issue(p) ==
    /\ req[p].pc = "issue"
    /\ IF req[p].exp > now
       THEN \E n \in Tokens :
               /\ InsertPair(n, req[p].user, req[p].exp, IssuedVersion(p), req[p].auth,
                             IF req[p].kind = "login" THEN n ELSE origin[req[p].tok],
                             req[p].gen)
               /\ row' = [row EXCEPT ![n] = "live"]
               /\ Goto(p, [req[p] EXCEPT !.pc = "reply", !.tok = n])
       ELSE Goto(p, Idle) /\ UNCHANGED <<pairVars, row>>
    /\ UNCHANGED <<now, userVars, retry_until, retry_pair, held, dead>>

\* login_finish (passkeys.rs) authenticates and issues in one transaction.
PasskeyLogin(p, u) ==
    /\ req[p] = Idle
    /\ active[u]
    /\ now + session_expiry <= MaxTime
    /\ \E n \in Tokens :
          /\ InsertPair(n, u, now + session_expiry, token_version[u], now, n, password[u])
          /\ row' = [row EXCEPT ![n] = "live"]
          /\ Goto(p, [Idle EXCEPT !.pc = "reply", !.kind = "login", !.user = u, !.tok = n])
    /\ UNCHANGED <<now, userVars, retry_until, retry_pair, held, dead>>

\* The answer.  The refresh handlers verify the new access token once more
\* before they hand the pair out; the login handlers do not.
Reply(p) ==
    /\ req[p].pc = "reply"
    /\ held' = IF req[p].kind = "login" \/ VerifyAccess(req[p].tok)
               THEN held \cup {req[p].tok} ELSE held
    /\ Goto(p, Idle)
    /\ UNCHANGED <<now, userVars, rowVars, pairVars, dead>>

-----------------------------------------------------------------------------
(* consume_refresh_token outside a transaction: refresh_token, logout and    *)
(* browser_logout                                                            *)

\* Decode the token; read version_before_verification.
Present(p, t, k) ==
    /\ req[p] = Idle
    /\ t \in held
    /\ RefreshDecodes(t)
    /\ active[claims[t].user]
    /\ Goto(p, [Idle EXCEPT !.pc = "verify", !.kind = k, !.user = claims[t].user,
                            !.tok = t, !.ver = token_version[claims[t].user]])
    /\ UNCHANGED <<now, userVars, rowVars, pairVars, held, dead>>

\* verify_user_session, then what the rotation will be handed.
Verify(p) ==
    LET c == claims[req[p].tok] IN
    /\ req[p].pc = "verify"
    /\ IF SessionOk(c)
       THEN Goto(p, [req[p] EXCEPT
                       !.pc = "consume", !.exp = RotatedDeadline(c), !.auth = c.auth_time,
                       !.gen = gen[req[p].tok],
                       !.ver = PinnedVersion(c, @)])
       ELSE FailConsume(p)
    /\ UNCHANGED <<now, userVars, rowVars, pairVars, held, dead>>

\* UPDATE refresh_tokens SET revoked_at: one request wins a row.
Consume(p) ==
    LET t == req[p].tok IN
    /\ req[p].pc = "consume"
    /\ IF Consumable(t)
       THEN /\ row' = [row EXCEPT ![t] = "revoked"]
            /\ Goto(p, [req[p] EXCEPT !.pc =
                  CASE req[p].kind = "refresh" -> "issue"
                    [] req[p].kind = "logout" -> "bump"
                    [] OTHER -> "revoke_rows"])
       ELSE /\ Goto(p, [req[p] EXCEPT !.pc = "replay", !.failed = TRUE])
            /\ UNCHANGED row
    /\ UNCHANGED <<now, userVars, retry_until, retry_pair, pairVars, held, dead>>

\* The row exists but could not be consumed: revoke everything of its user,
\* rows first.  The SELECT is folded into the UPDATE that follows it.
Replay(p) ==
    /\ req[p].pc = "replay"
    /\ IF row[req[p].tok] = "absent"
       THEN FailConsume(p) /\ UNCHANGED row
       ELSE /\ row' = RevokedRows(req[p].user)
            /\ Goto(p, [req[p] EXCEPT !.pc = "bump"])
    /\ UNCHANGED <<now, userVars, retry_until, retry_pair, pairVars, held, dead>>

\* browser_logout with an access cookie only, or after the refresh cookie
\* was refused.
BrowserLogoutAccess(p, t) ==
    /\ req[p] = Idle
    /\ t \in held
    /\ Goto(p, [Idle EXCEPT !.pc = "access", !.kind = "browser_logout",
                            !.user = claims[t].user, !.tok = t])
    /\ UNCHANGED <<now, userVars, rowVars, pairVars, held, dead>>

AccessCheck(p) ==
    /\ req[p].pc = "access"
    /\ Goto(p, IF VerifyAccess(req[p].tok)
               THEN [req[p] EXCEPT !.pc = "revoke_rows"] ELSE Idle)
    /\ UNCHANGED <<now, userVars, rowVars, pairVars, held, dead>>

\* browser_logout: revoke_all_user_tokens, rows first.
RevokeRows(p) ==
    /\ req[p].pc = "revoke_rows"
    /\ row' = RevokedRows(req[p].user)
    /\ Goto(p, [req[p] EXCEPT !.pc = "bump"])
    /\ UNCHANGED <<now, userVars, retry_until, retry_pair, pairVars, held, dead>>

\* revoke_user_access_tokens, of a logout or of a detected replay.
Bump(p) ==
    /\ req[p].pc = "bump"
    /\ RevokeAccess(req[p].user)
    /\ IF req[p].failed THEN FailConsume(p) ELSE Goto(p, Idle)
    /\ UNCHANGED <<now, active, password, session_expiry, rowVars, pairVars, held>>

-----------------------------------------------------------------------------
(* rotate_browser_token_pair, one BEGIN IMMEDIATE transaction *)

\* Another tab consumed this token a moment ago: the same replacement.
BrowserRetry(p, t) ==
    /\ req[p] = Idle
    /\ t \in held
    /\ Retryable(t)
    /\ \E r \in RetryResults(t) :
          Goto(p, [Idle EXCEPT !.pc = "reply", !.kind = "browser_refresh",
                               !.user = claims[t].user, !.tok = r])
    /\ UNCHANGED <<now, userVars, rowVars, pairVars, held, dead>>

\* Mutant: the retry columns of the replacement's row are written instead.
SaveRetryOnReplacement(t, n) ==
    /\ retry_until' = [retry_until EXCEPT ![n] = now + RetryWindow]
    /\ retry_pair' = [retry_pair EXCEPT ![n] = n]

\* retry_until and retry_pair of t set, pairs past their window discarded.
SaveRetry(t, n) ==
    /\ retry_until' = [retry_until EXCEPT ![t] = now + RetryWindow]
    /\ retry_pair' = [s \in Tokens |->
            IF s = t THEN n
            ELSE IF retry_until[s] <= now THEN NoToken ELSE retry_pair[s]]

\* rotate_token_pair inside the transaction, then the retry columns.
BrowserRotate(p, t) ==
    LET c == claims[t] IN
    /\ req[p] = Idle
    /\ t \in held
    /\ ~Retryable(t)
    /\ RefreshDecodes(t)
    /\ SessionOk(c)
    /\ Consumable(t)
    /\ \E n \in Tokens :
          /\ InsertPair(n, c.user, RotatedDeadline(c),
                        PinnedVersion(c, token_version[c.user]), c.auth_time,
                        origin[t], gen[t])
          /\ row' = [row EXCEPT ![n] = "live", ![t] = "revoked"]
          /\ SaveRetry(t, n)
          /\ Goto(p, [Idle EXCEPT !.pc = "reply", !.kind = "browser_refresh",
                                  !.user = c.user, !.tok = n])
    /\ UNCHANGED <<now, userVars, held, dead>>

\* The token was consumed and the window is over, or its row has expired:
\* the revocation is committed although the refresh fails.
BrowserReplay(t) ==
    LET c == claims[t] IN
    /\ t \in held
    /\ ~Retryable(t)
    /\ RefreshDecodes(t)
    /\ SessionOk(c)
    /\ ~Consumable(t)
    /\ row[t] # "absent"
    /\ row' = RevokedRows(c.user)
    /\ RevokeAccess(c.user)
    /\ UNCHANGED <<now, active, password, session_expiry, retry_until, retry_pair,
                   pairVars, held, req>>

-----------------------------------------------------------------------------
(* The rest of the server *)

\* change_my_password and admin_change_user_password: one transaction.
ChangePassword(u) ==
    /\ password' = [password EXCEPT ![u] = @ + 1]
    /\ row' = RevokedRows(u)
    /\ RevokeAccess(u)
    /\ UNCHANGED <<now, active, session_expiry, retry_until, retry_pair, pairVars,
                   held, req>>

\* assign_role and remove_role end with revoke_user_access_tokens.
RoleChange(u) ==
    /\ RevokeAccess(u)
    /\ UNCHANGED <<now, active, password, session_expiry, rowVars, pairVars, held, req>>

\* User::set_active: tokens are left alone.
SetActive(u) ==
    /\ active' = [active EXCEPT ![u] = ~@]
    /\ UNCHANGED <<now, token_version, password, revoked_before, session_expiry,
                   rowVars, pairVars, held, req, dead>>

\* update_settings.
UpdateSettings(e) ==
    /\ session_expiry' = e
    /\ UNCHANGED <<now, active, token_version, password, revoked_before,
                   rowVars, pairVars, held, req, dead>>

\* Mutant: only the rows that were revoked are deleted.
SweepRevokedOnly ==
    /\ retry_pair' = [t \in Tokens |-> IF retry_until[t] <= now THEN NoToken ELSE retry_pair[t]]
    /\ row' = [t \in Tokens |-> IF row[t] = "revoked" /\ claims[t].session_exp <= now
                                THEN "absent" ELSE row[t]]
    /\ UNCHANGED <<now, userVars, retry_until, pairVars, held, req, dead>>

\* sweep_expired_sessions, every 300 seconds.
Sweep ==
    /\ retry_pair' = [t \in Tokens |-> IF retry_until[t] <= now \/ claims[t].session_exp <= now
                                       THEN NoToken ELSE retry_pair[t]]
    /\ row' = [t \in Tokens |-> IF claims[t].session_exp <= now THEN "absent" ELSE row[t]]
    /\ UNCHANGED <<now, userVars, retry_until, pairVars, held, req, dead>>

\* The handler's future is dropped between two statements.
Abort(p) ==
    /\ req[p] # Idle
    /\ Goto(p, Idle)
    /\ UNCHANGED <<now, userVars, rowVars, pairVars, held, dead>>

Tick ==
    /\ now < MaxTime
    /\ now' = now + 1
    /\ UNCHANGED <<userVars, rowVars, pairVars, held, req, dead>>

-----------------------------------------------------------------------------
\* Pairs left by a release without session versions: unrevoked rows, and
\* possibly a timestamp revocation as recent as they are.
Init ==
    /\ now = 0
    /\ active = [u \in Users |-> TRUE]
    /\ token_version = [u \in Users |-> 0]
    /\ password = [u \in Users |-> 0]
    /\ revoked_before \in [Users -> {-1, 0}]
    /\ session_expiry \in SessionExpiries
    /\ claims = [t \in Tokens |->
          [user |-> AnyUser, iat |-> 0, exp |-> Lesser(AccessLifetime, LegacyDeadline),
           session_exp |-> LegacyDeadline, session_version |-> NoVersion, auth_time |-> 0]]
    /\ issued = LegacyPairs
    /\ held = LegacyPairs
    /\ row = [t \in Tokens |-> IF t \in LegacyPairs THEN "live" ELSE "absent"]
    /\ retry_until = [t \in Tokens |-> 0]
    /\ retry_pair = [t \in Tokens |-> NoToken]
    /\ req = [p \in Requests |-> Idle]
    /\ origin = [t \in Tokens |-> t]
    /\ dead = {}
    /\ gen = [t \in Tokens |-> 0]

RequestStep(p) ==
    \/ LoginVersion(p) \/ Issue(p) \/ Reply(p) \/ Verify(p) \/ Consume(p)
    \/ Replay(p) \/ AccessCheck(p) \/ RevokeRows(p) \/ Bump(p)

RequestStart(p) ==
    \/ \E u \in Users :
          \/ "login" \in Endpoints /\ LoginCheck(p, u)
          \/ "passkey" \in Endpoints /\ PasskeyLogin(p, u)
    \/ \E t \in Tokens :
          \/ \E k \in {"refresh", "logout", "browser_logout"} \cap Endpoints : Present(p, t, k)
          \/ "browser_logout" \in Endpoints /\ BrowserLogoutAccess(p, t)
          \/ "browser_refresh" \in Endpoints /\ (BrowserRetry(p, t) \/ BrowserRotate(p, t))

Next ==
    \/ \E p \in Requests : RequestStart(p) \/ RequestStep(p) \/ Abort(p)
    \/ "browser_refresh" \in Endpoints /\ \E t \in Tokens : BrowserReplay(t)
    \/ \E u \in Users :
          \/ "password" \in Endpoints /\ ChangePassword(u)
          \/ "roles" \in Endpoints /\ RoleChange(u)
          \/ "active" \in Endpoints /\ SetActive(u)
    \/ "settings" \in Endpoints /\ \E e \in SessionExpiries : UpdateSettings(e)
    \/ Sweep
    \/ Tick

Spec == Init /\ [][Next]_vars

\* The clock advances and the sweep loop of main.rs keeps running.
FairSpec == Spec /\ WF_vars(Tick) /\ WF_vars(Sweep)

-----------------------------------------------------------------------------
(* Properties *)

TypeOK ==
    /\ now \in Nat
    /\ active \in [Users -> BOOLEAN]
    /\ token_version \in [Users -> Nat]
    /\ password \in [Users -> Nat]
    /\ revoked_before \in [Users -> Int]
    /\ session_expiry \in SessionExpiries
    /\ claims \in [Tokens -> Claims]
    /\ issued \subseteq Tokens
    /\ held \subseteq Tokens
    /\ row \in [Tokens -> {"absent", "live", "revoked"}]
    /\ retry_until \in [Tokens -> Nat]
    /\ retry_pair \in [Tokens -> Tokens \cup {NoToken}]
    /\ req \in [Requests -> Request]
    /\ origin \in [Tokens -> Tokens]
    /\ dead \subseteq Tokens
    /\ gen \in [Tokens -> Nat]

\* Once a user's sessions have been revoked (revoke_user_access_tokens), no
\* credential that descends from a login of before the revocation is accepted
\* again: not by a refresh that had already consumed its token when the
\* revocation came, not by a browser retry, not by a legacy credential.
RevokedSessionsStayDead ==
    \A t \in issued : origin[t] \in dead => ~SessionOk(claims[t])

\* Refreshing never moves the deadline or the authentication time fixed at
\* sign-in, whatever the setting is by then, and no access token outlives it
\* (rotate_token_pair, generate_access_token_for_session).
DeadlineFixedAtLogin ==
    \A t \in issued :
        /\ claims[t].session_exp = claims[origin[t]].session_exp
        /\ claims[t].auth_time = claims[origin[t]].auth_time
        /\ claims[t].exp <= claims[origin[t]].session_exp

\* A refresh token is single use: however strict refreshes, browser tabs,
\* logouts and aborted requests interleave, a login never has two unrevoked
\* refresh tokens (the UPDATE of consume_refresh_token).
OneLiveCredentialPerLogin ==
    \A s, t \in issued :
        (row[s] = "live" /\ row[t] = "live" /\ origin[s] = origin[t]) => s = t

\* A retry chain never leaves the login it started in and only names pairs that
\* exist, so following it cannot hand a tab the session of another login
\* (browser_retry_pair, written by rotate_browser_token_pair).
RetryChainStaysInLogin ==
    \A t \in issued : retry_pair[t] # NoToken =>
        /\ retry_pair[t] \in issued
        /\ origin[retry_pair[t]] = origin[t]
        /\ row[t] = "revoked"

\* When rotate_browser_token_pair commits, the pair it is going to answer with
\* is accepted, its refresh token has not been consumed, and the tab that asked
\* held a token of the same login: a delayed tab never restores a credential
\* another tab has already used up.
BrowserAnswerIsCurrent ==
    [][\A p \in Requests, r \in Tokens :
          (req[p] = Idle /\ req'[p].kind = "browser_refresh" /\ req'[p].tok = r) =>
              /\ row'[r] = "live"
              /\ VerifyAccess(r)'
              /\ origin'[r] \in {origin[t] : t \in held}]_vars

\* The sessions keep what they promise to the OIDC provider and to forward
\* authentication: seen as the credentials of Authority, every statement of
\* every handler signs in, renews, revokes or changes nothing.
LegacyCredential(t) ==
    [login |-> t, user |-> AnyUser, iat |-> 0, exp |-> Lesser(AccessLifetime, LegacyDeadline),
     session_exp |-> LegacyDeadline, session_version |-> NoVersion, auth_time |-> 0]
AsCredential(t) ==
    [login |-> origin[t], user |-> claims[t].user, iat |-> claims[t].iat,
     exp |-> claims[t].exp, session_exp |-> claims[t].session_exp,
     session_version |-> claims[t].session_version, auth_time |-> claims[t].auth_time]

Auth == INSTANCE Authority WITH
    Logins <- Tokens,
    Legacy <- {LegacyCredential(t) : t \in LegacyPairs},
    creds  <- {AsCredential(t) : t \in issued}

ImplementsAuthority == Auth!AuthoritySpec

\* Every stored refresh row is eventually deleted (sweep_expired_sessions).
StoredRowsAreSwept ==
    \A t \in Tokens : (row[t] # "absent") ~> (row[t] = "absent")

\* After a password change no session that was authenticated with the previous
\* password is accepted.  README, Sessions: "Logout and password changes revoke
\* Authere, forward-auth, and provider-side OIDC sessions."  It does not hold:
\* login reads token_version after it has checked the password.
PasswordChangeEndsSessions ==
    \A t \in issued : SessionOk(claims[t]) => gen[t] = password[claims[t].user]

\* A refresh revokes the user's sessions only over a token that was consumed
\* before, or whose deadline is reached: the JWT library still accepts exp = now,
\* the UPDATE does not, and the unused token takes the branch of a replay
\* ("replay-triggered revocation", rotate_browser_token_pair).
OnlyReplayOrExpiryRevokes ==
    [][\A p \in Requests :
          (req[p].pc = "replay" /\ req'[p].pc = "bump")
              => \/ row[req[p].tok] = "revoked"
                 \/ claims[req[p].tok].session_exp <= now]_vars

=============================================================================
