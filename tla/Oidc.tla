-------------------------------- MODULE Oidc --------------------------------
(***************************************************************************)
(* The OIDC provider: authorization codes (server/src/oidc/codes.rs), the   *)
(* tokens they are exchanged for (server/src/oidc/token.rs) and the         *)
(* endpoints (server/src/handlers/oauth.rs).                                *)
(*                                                                          *)
(* The central sessions are those of Authority; a browser that holds only a *)
(* refresh cookie renews first (resolve_browser_session).  authorize and    *)
(* token run outside a transaction, one step per statement that other       *)
(* requests can get in between; the application row a request has read is   *)
(* kept in its registers, as in the code.                                   *)
(***************************************************************************)
EXTENDS Authority, FiniteSets

CONSTANTS
    Clients,        \* applications of type Oidc
    NoApplication,  \* no row with this client_id
    Roles,          \* role names
    RedirectUris,   \* redirect URIs
    Verifiers,      \* PKCE code verifiers of the accepted form
    Challenges,     \* PKCE code challenges of the accepted form
    S256,           \* base64url(sha256(verifier))
    Codes,          \* authorization codes, each drawn once
    NoCode,         \* no code drawn, or its row deleted
    Requests,       \* HTTP requests in flight
    AccessLifetime, \* ACCESS_TOKEN_LIFETIME of the central session
    SessionExpiry,  \* session_expiry_seconds
    AUTHORIZATION_CODE_LIFETIME,
    OIDC_ACCESS_TOKEN_LIFETIME,
    ID_TOKEN_LIFETIME,
    SweepGrace,     \* the hour sweep_expired waits
    Configurations, \* what administrators set an application to
    MaxTime,        \* bound: the clock stops here
    MaxVersion,     \* bound: token_version stops here
    MaxCredentials  \* bound: central credentials in all

ASSUME OidcAssumption ==
    /\ Users # {}
    /\ S256 \in [Verifiers -> Challenges]
    /\ NoCode \notin Codes
    /\ {AccessLifetime, SessionExpiry, AUTHORIZATION_CODE_LIFETIME,
        OIDC_ACCESS_TOKEN_LIFETIME, ID_TOKEN_LIFETIME, SweepGrace,
        MaxTime, MaxVersion, MaxCredentials} \subseteq Nat

VARIABLES
    app,      \* applications row of a client
    roles,    \* user_roles
    code,     \* oidc_authorization_codes row of a code
    tokens,   \* token responses, both tokens and the exchange they answer
    req,      \* requests in flight
    drawn,    \* codes drawn so far
    answered  \* history: token responses a code was exchanged for

grantVars == <<app, roles, code, tokens, req, drawn, answered>>
vars == <<authVars, grantVars>>

Application == [enabled : BOOLEAN, required_roles : SUBSET Roles,
                redirect_uris : SUBSET RedirectUris]
ASSUME ApplicationAssumption ==
    /\ NoApplication \notin Application
    /\ Configurations \subseteq Application

\* A row; `login' is the login of the session that authorized it.
CodeRow == [client : Clients, login : Logins, user : Users, redirect_uri : RedirectUris,
            code_challenge : Challenges, auth_time : Nat, expires_at : Nat,
            session_version : Nat \cup {NoVersion}, session_exp : Nat, consumed : BOOLEAN]
ASSUME NoCodeAssumption == NoCode \notin CodeRow

\* A token response: exp and id_exp are those of the access and the ID token.
Token == [client : Clients, login : Logins, user : Users, iat : Nat, exp : Nat,
          id_exp : Nat, auth_time : Nat, session_version : Nat \cup {NoVersion}]

Lesser(a, b) == IF a <= b THEN a ELSE b

\* What the handlers of authorize and token keep across their statements.
Idle == [pc |-> "idle"]
Authorizing == [pc : {"issue"}, cred : Credential, client : Clients,
                redirect_uri : RedirectUris, challenge : Challenges]
Exchanging == [pc : {"consume", "verify", "mint"}, code : Codes, row : CodeRow,
               app : Application, client : Clients, redirect_uri : RedirectUris,
               verifier : Verifiers]
Request == {Idle} \cup Authorizing \cup Exchanging

Goto(p, r) == req' = [req EXCEPT ![p] = r]

\* check_access_resolved: any one of the required roles.
CheckAccess(required, held) == required = {} \/ required \cap held # {}

\* session_exp.unwrap_or(exp): a legacy access token has no session deadline.
Deadline(c) == IF c.session_version = NoVersion THEN c.exp ELSE c.session_exp

-----------------------------------------------------------------------------
(* /oauth/authorize *)

\* authorize_impl up to the issue of the code, for the session of access
\* cookie c, its reads folded into one.  Every refusal leaves the state alone.
Authorize(p, c, a, uri, challenge) ==
    /\ req[p] = Idle
    /\ app[a] # NoApplication
    /\ app[a].enabled
    /\ uri \in app[a].redirect_uris
    /\ c \in creds
    /\ VerifyAccess(c)
    /\ CheckAccess(app[a].required_roles, roles[c.user])
    /\ Goto(p, [pc |-> "issue", cred |-> c, client |-> a, redirect_uri |-> uri,
                challenge |-> challenge])
    /\ UNCHANGED <<authVars, app, roles, code, tokens, drawn, answered>>

\* Mutant: a code lives its full time whatever the session.
FullCodeExpiry(c) == now + AUTHORIZATION_CODE_LIFETIME

\* codes::issue: expires_at.
CodeExpiry(c) == Lesser(Deadline(c), now + AUTHORIZATION_CODE_LIFETIME)

\* codes::issue.  The session is not verified again: the code carries its
\* version and deadline.  The INSERT fails if the application is gone.
IssueCode(p) ==
    LET r == req[p]
        c == r.cred
    IN  /\ r.pc = "issue"
        /\ IF app[r.client] # NoApplication
           THEN \E k \in Codes \ drawn :
                   /\ drawn' = drawn \cup {k}
                   /\ code' = [code EXCEPT ![k] =
                         [client |-> r.client, login |-> c.login, user |-> c.user,
                          redirect_uri |-> r.redirect_uri, code_challenge |-> r.challenge,
                          auth_time |-> c.auth_time, expires_at |-> CodeExpiry(c),
                          session_version |-> c.session_version,
                          session_exp |-> Deadline(c), consumed |-> FALSE]]
           ELSE UNCHANGED <<drawn, code>>
        /\ Goto(p, Idle)
        /\ UNCHANGED <<authVars, app, roles, tokens, answered>>

-----------------------------------------------------------------------------
(* /oauth/token *)

\* Mutant: PKCE is not compared.
BoundWithoutPkce(row, a, uri, verifier) ==
    row.client = a /\ row.redirect_uri = uri

\* The client, redirect URI and PKCE binding checked by codes::consume.
Bound(row, a, uri, verifier) ==
    /\ row.client = a
    /\ row.redirect_uri = uri
    /\ row.code_challenge = S256[verifier]

\* The handler authenticates the client and codes::consume reads the row: a
\* wrong binding, a consumed or an expired code is refused here, untouched.
PresentCode(p, k, a, uri, verifier) ==
    /\ req[p] = Idle
    /\ app[a] # NoApplication
    /\ app[a].enabled
    /\ code[k] # NoCode
    /\ ~code[k].consumed
    /\ code[k].expires_at > now
    /\ Bound(code[k], a, uri, verifier)
    /\ Goto(p, [pc |-> "consume", code |-> k, row |-> code[k], app |-> app[a],
                client |-> a, redirect_uri |-> uri, verifier |-> verifier])
    /\ UNCHANGED <<authVars, app, roles, code, tokens, drawn, answered>>

\* Mutant: the UPDATE without `consumed_at IS NULL'.
RedeemableTwice(k) == code[k] # NoCode

\* The row the UPDATE of codes::consume matches.  Its `expires_at > now' uses the
\* time read before the SELECT, so it repeats what PresentCode has checked.
Redeemable(k) == code[k] # NoCode /\ ~code[k].consumed

\* The UPDATE of codes::consume: one request wins the code.
ConsumeCode(p) ==
    LET k == req[p].code IN
    /\ req[p].pc = "consume"
    /\ IF Redeemable(k)
       THEN /\ code' = [code EXCEPT ![k].consumed = TRUE]
            /\ Goto(p, [req[p] EXCEPT !.pc = "verify"])
       ELSE Goto(p, Idle) /\ UNCHANGED code
    /\ UNCHANGED <<authVars, app, roles, tokens, drawn, answered>>

\* verify_user_session with the version of the code, and the redirect URI
\* against the application as it was read.  The code is spent either way.
VerifyGrant(p) ==
    LET r == req[p] IN
    /\ r.pc = "verify"
    /\ Goto(p, IF /\ SessionOk(r.row.user, r.row.auth_time, r.row.session_version)
                  /\ r.redirect_uri \in r.app.redirect_uris
               THEN [r EXCEPT !.pc = "mint"] ELSE Idle)
    /\ UNCHANGED <<authVars, app, roles, code, tokens, drawn, answered>>

\* Mutant: the tokens carry the version current when they are minted.
MintCurrentVersion(row) == token_version[row.user]

\* mint_token_pair: the version the code carries.
MintedVersion(row) == row.session_version

\* User and roles are read; mint_token_pair caps both tokens at the deadline.
Mint(p) ==
    LET r == req[p]
        row == r.row
    IN  /\ r.pc = "mint"
        /\ IF active[row.user] /\ CheckAccess(r.app.required_roles, roles[row.user])
           THEN /\ tokens' = tokens \cup
                     {[client |-> r.client, login |-> row.login, user |-> row.user,
                       iat |-> now,
                       exp |-> Lesser(now + OIDC_ACCESS_TOKEN_LIFETIME, row.session_exp),
                       id_exp |-> Lesser(now + ID_TOKEN_LIFETIME, row.session_exp),
                       auth_time |-> row.auth_time,
                       session_version |-> MintedVersion(row)]}
                /\ answered' = [answered EXCEPT ![r.code] = @ + 1]
           ELSE UNCHANGED <<tokens, answered>>
        /\ Goto(p, Idle)
        /\ UNCHANGED <<authVars, app, roles, code, drawn>>

-----------------------------------------------------------------------------
\* userinfo answers for token t.
UserinfoAccepts(t) ==
    /\ t.exp > now
    /\ SessionOk(t.user, t.iat, t.session_version)
    /\ app[t.client] # NoApplication
    /\ app[t.client].enabled
    /\ CheckAccess(app[t.client].required_roles, roles[t.user])

\* The ID token of token response t, given as a hint, names the sign-in of the
\* browser with access cookie c and is not revoked itself.
HintMatches(t, c) ==
    /\ app[t.client] # NoApplication
    /\ app[t.client].enabled
    /\ t.user = c.user
    /\ t.auth_time = c.auth_time
    /\ SessionOk(t.user, t.iat, t.session_version)

\* end_session, confirmed on Authere's own page or vouched for by a hint.  A
\* revocation of the user in between its statements is a Revoked step.
EndSession(c, confirmed) ==
    /\ VerifyAccess(c)
    /\ confirmed \/ \E t \in tokens : HintMatches(t, c)
    /\ token_version[c.user] < MaxVersion
    /\ Revoke(c.user)
    /\ UNCHANGED grantVars

\* codes::sweep_expired.
Sweep ==
    /\ code' = [k \in Codes |-> IF code[k] # NoCode /\ code[k].expires_at < now - SweepGrace
                                THEN NoCode ELSE code[k]]
    /\ UNCHANGED <<authVars, app, roles, tokens, req, drawn, answered>>

-----------------------------------------------------------------------------
(* Administration *)

\* Application::update.
UpdateApplication(a) ==
    /\ app[a] # NoApplication
    /\ \E new \in Configurations : app' = [app EXCEPT ![a] = new]
    /\ UNCHANGED <<authVars, roles, code, tokens, req, drawn, answered>>

\* Application::delete; the codes of the application go with it.
DeleteApplication(a) ==
    /\ app' = [app EXCEPT ![a] = NoApplication]
    /\ code' = [k \in Codes |-> IF code[k] # NoCode /\ code[k].client = a
                                THEN NoCode ELSE code[k]]
    /\ UNCHANGED <<authVars, roles, tokens, req, drawn, answered>>

\* UserRole::assign and remove.  assign_role and remove_role revoke the user's
\* access in a second statement: Revoked.
ChangeRoles(u) ==
    /\ \E new \in SUBSET Roles : roles' = [roles EXCEPT ![u] = new]
    /\ UNCHANGED <<authVars, app, code, tokens, req, drawn, answered>>

-----------------------------------------------------------------------------
(* The central session, and the environment *)

\* A new login, or the renewal of a credential.
SignedIn(n, u) ==
    /\ Cardinality(creds) < MaxCredentials
    /\ now + SessionExpiry <= MaxTime
    /\ \E v \in 0 .. token_version[u] :
          SignIn([login |-> n, user |-> u, iat |-> now,
                  exp |-> Lesser(now + AccessLifetime, now + SessionExpiry),
                  session_exp |-> now + SessionExpiry, session_version |-> v,
                  auth_time |-> now])
    /\ UNCHANGED grantVars

Renewed(c) ==
    /\ Cardinality(creds) < MaxCredentials
    /\ Renew(c, [c EXCEPT !.iat = now, !.exp = Lesser(now + AccessLifetime, c.session_exp),
                          !.session_version = RenewedVersion(c)])
    /\ UNCHANGED grantVars

Revoked(u) == token_version[u] < MaxVersion /\ Revoke(u) /\ UNCHANGED grantVars

ActiveSet(u) == SetActive(u) /\ UNCHANGED grantVars

\* The handler's future is dropped between two statements.
Abort(p) ==
    /\ req[p] # Idle
    /\ Goto(p, Idle)
    /\ UNCHANGED <<authVars, app, roles, code, tokens, drawn, answered>>

TimePasses == now < MaxTime /\ Tick /\ UNCHANGED grantVars

-----------------------------------------------------------------------------
Init ==
    /\ AuthorityInit
    /\ app \in [Clients -> {x \in Configurations : x.enabled}]
    /\ roles = [u \in Users |-> Roles]
    /\ code = [k \in Codes |-> NoCode]
    /\ tokens = {}
    /\ req = [p \in Requests |-> Idle]
    /\ drawn = {}
    /\ answered = [k \in Codes |-> 0]

RequestNext(p) ==
    \/ \E c \in creds, a \in Clients, uri \in RedirectUris, ch \in Challenges :
          Authorize(p, c, a, uri, ch)
    \/ IssueCode(p)
    \/ \E k \in Codes, a \in Clients, uri \in RedirectUris, v \in Verifiers :
          PresentCode(p, k, a, uri, v)
    \/ ConsumeCode(p)
    \/ VerifyGrant(p)
    \/ Mint(p)
    \/ Abort(p)

Next ==
    \/ \E p \in Requests : RequestNext(p)
    \/ \E c \in creds : Renewed(c) \/ \E confirmed \in BOOLEAN : EndSession(c, confirmed)
    \/ \E a \in Clients : UpdateApplication(a) \/ DeleteApplication(a)
    \/ \E u \in Users :
          \/ ChangeRoles(u)
          \/ Revoked(u)
          \/ ActiveSet(u)
          \/ \E n \in Logins : SignedIn(n, u)
    \/ Sweep
    \/ TimePasses

Spec == Init /\ [][Next]_vars

-----------------------------------------------------------------------------
(* Properties *)

TypeOK ==
    /\ now \in Nat
    /\ active \in [Users -> BOOLEAN]
    /\ token_version \in [Users -> Nat]
    /\ revoked_before \in [Users -> Int]
    /\ creds \subseteq Credential
    /\ dead \subseteq Logins
    /\ app \in [Clients -> Application \cup {NoApplication}]
    /\ roles \in [Users -> SUBSET Roles]
    /\ code \in [Codes -> CodeRow \cup {NoCode}]
    /\ tokens \subseteq Token
    /\ req \in [Requests -> Request]
    /\ drawn \subseteq Codes
    /\ answered \in [Codes -> Nat]

\* An authorization code is exchanged for at most one token response, however
\* many requests read it before one of them consumed it (codes::consume).
CodeAnsweredOnce == \A k \in Codes : answered[k] <= 1

\* A code is spent only by a request with the client, the redirect URI and a
\* verifier of the challenge it was issued for: "A failed exchange must not
\* invalidate another client's outstanding authorization" (codes::consume).
CodeSpentByItsClient ==
    [][\A k \in Codes :
          (code[k] # NoCode /\ ~code[k].consumed /\ code'[k] # NoCode /\ code'[k].consumed) =>
             \E p \in Requests : /\ req[p].pc = "consume"
                                 /\ req[p].code = k
                                 /\ req[p].client = code[k].client
                                 /\ req[p].redirect_uri = code[k].redirect_uri
                                 /\ S256[req[p].verifier] = code[k].code_challenge]_vars

\* A revocation of the central session reaches everything derived from it: no
\* token of a login that was revoked is accepted by userinfo or as a logout hint,
\* not even one minted by an exchange that had consumed its code before the
\* revocation (mint_token_pair).
RevocationReachesTokens ==
    \A t \in tokens : t.login \in dead =>
        ~UserinfoAccepts(t) /\ \A c \in creds : ~HintMatches(t, c)

\* Neither a code nor a token outlives the session it was derived from, and an
\* ID token reports that session's authentication time (codes::issue,
\* mint_token_pair).
GrantsWithinSession ==
    /\ \A t \in tokens : \E c \in creds :
          /\ c.login = t.login /\ c.user = t.user /\ c.auth_time = t.auth_time
          /\ t.exp <= c.session_exp /\ t.id_exp <= c.session_exp
    /\ \A k \in Codes : code[k] # NoCode => \E c \in creds :
          /\ c.login = code[k].login /\ c.user = code[k].user
          /\ code[k].expires_at <= c.session_exp

=============================================================================
