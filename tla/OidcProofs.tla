----------------------------- MODULE OidcProofs -----------------------------
(***************************************************************************)
(* Proofs about Oidc, for every set of users, clients, codes and requests.  *)
(*                                                                          *)
(* A code, a token and a request in flight carry copies of what a session   *)
(* said when they were made.  GrantsOK says that each copy still belongs to *)
(* a credential that exists; CredentialsOK (AuthorityProofs) says what a    *)
(* revocation does to every credential of a login.  Together they give      *)
(* RevocationReachesTokens.                                                 *)
(***************************************************************************)
EXTENDS Oidc, AuthorityProofs

\* g was derived from credential c.
DerivedFrom(g, c) ==
    /\ g.login = c.login
    /\ g.user = c.user
    /\ g.auth_time = c.auth_time
    /\ g.session_version = c.session_version

RowIn(g, cs) == \E c \in cs : /\ DerivedFrom(g, c)
                               /\ g.session_exp <= c.session_exp
                               /\ g.expires_at <= c.session_exp

TokenIn(t, cs) == \E c \in cs : /\ DerivedFrom(t, c)
                                 /\ t.exp <= c.session_exp
                                 /\ t.id_exp <= c.session_exp

\* Everything in circulation was derived from a credential that exists.
GrantsOK ==
    /\ \A k \in Codes : code[k] # NoCode => RowIn(code[k], creds)
    /\ \A t \in tokens : TokenIn(t, creds)
    /\ \A p \in Requests :
          /\ req[p] \in Authorizing => req[p].cred \in creds
          /\ req[p] \in Exchanging => RowIn(req[p].row, creds)

\* The requests that have won code k and not answered yet.
Holds(r, k) == r.pc \in {"verify", "mint"} /\ r.code = k

\* The right to answer a code is handed from the row to the request that
\* consumes it, and is gone after the answer.
CodesOK ==
    /\ \A k \in Codes : answered[k] <= 1
    /\ \A k \in Codes : (code[k] # NoCode /\ ~code[k].consumed) =>
          answered[k] = 0 /\ \A p \in Requests : ~Holds(req[p], k)
    /\ \A k \in Codes, p \in Requests : Holds(req[p], k) =>
          answered[k] = 0 /\ \A q \in Requests : Holds(req[q], k) => q = p
    /\ \A k \in Codes \ drawn : code[k] = NoCode /\ answered[k] = 0
    /\ \A p \in Requests : req[p] \in Exchanging => req[p].code \in drawn

\* A request that presents a code was checked against the row it read, and the
\* row has not changed in what was checked.
BindingOK ==
    \A p \in Requests : req[p].pc = "consume" =>
        LET r == req[p] IN
        /\ Bound(r.row, r.client, r.redirect_uri, r.verifier)
        /\ code[r.code] # NoCode =>
              /\ code[r.code].client = r.row.client
              /\ code[r.code].redirect_uri = r.row.redirect_uri
              /\ code[r.code].code_challenge = r.row.code_challenge

Inv == TypeOK /\ CredentialsOK /\ GrantsOK /\ CodesOK /\ BindingOK

-----------------------------------------------------------------------------
(* Types *)

\* The lesser of two numbers is a number and below both.
LEMMA LesserType ==
    ASSUME NEW a \in Nat, NEW b \in Nat
    PROVE  Lesser(a, b) \in Nat /\ Lesser(a, b) <= a /\ Lesser(a, b) <= b
BY DEF Lesser

\* Which register file a request uses is told by its program counter.
LEMMA Registers ==
    ASSUME TypeOK, NEW p \in Requests
    PROVE  /\ req[p] \in Request
           /\ req[p].pc = "issue" => req[p] \in Authorizing
           /\ req[p].pc \in {"consume", "verify", "mint"} => req[p] \in Exchanging
           /\ req[p] \in Exchanging => req[p].pc \in {"consume", "verify", "mint"}
BY DEF TypeOK, Request, Idle, Authorizing, Exchanging

\* A request moves to a legal state.
LEMMA GotoType ==
    ASSUME TypeOK, NEW p \in Requests, NEW r \in Request, Goto(p, r)
    PROVE  /\ req' \in [Requests -> Request]
           /\ req'[p] = r
           /\ \A q \in Requests : q # p => req'[q] = req[q]
BY DEF TypeOK, Goto

\* Idle is a request.
LEMMA IdleType == Idle \in Request
BY DEF Request

\* The next program counter of an exchange.
LEMMA ExchangeMoves ==
    ASSUME NEW r \in Exchanging, NEW pc \in {"consume", "verify", "mint"}
    PROVE  /\ [r EXCEPT !.pc = pc] \in Exchanging
           /\ [r EXCEPT !.pc = pc] \in Request
           /\ [r EXCEPT !.pc = pc].pc = pc
           /\ [r EXCEPT !.pc = pc].code = r.code
           /\ [r EXCEPT !.pc = pc].row = r.row
BY DEF Exchanging, Request

\* A step that leaves the central sessions alone, and what it writes is well
\* typed.
LEMMA GrantTypes ==
    ASSUME TypeOK, UNCHANGED authVars,
           app' \in [Clients -> Application \cup {NoApplication}],
           roles' \in [Users -> SUBSET Roles],
           code' \in [Codes -> CodeRow \cup {NoCode}],
           tokens' \subseteq Token,
           req' \in [Requests -> Request],
           drawn' \subseteq Codes,
           answered' \in [Codes -> Nat]
    PROVE  TypeOK'
BY DEF TypeOK, authVars

\* authorize keeps the types.
LEMMA AuthorizeTypes ==
    ASSUME TypeOK, NEW p \in Requests
    PROVE  /\ \A c \in creds, a \in Clients, uri \in RedirectUris, ch \in Challenges :
                 Authorize(p, c, a, uri, ch) => TypeOK'
           /\ IssueCode(p) => TypeOK'
<1>1. ASSUME NEW c \in creds, NEW a \in Clients, NEW uri \in RedirectUris,
             NEW ch \in Challenges, Authorize(p, c, a, uri, ch)
      PROVE  TypeOK'
  <2> DEFINE r == [pc |-> "issue", cred |-> c, client |-> a, redirect_uri |-> uri,
                   challenge |-> ch]
  <2>1. r \in Request
    BY DEF Request, Authorizing, TypeOK
  <2>2. Goto(p, r) /\ UNCHANGED <<authVars, app, roles, code, tokens, drawn, answered>>
    BY <1>1 DEF Authorize
  <2> HIDE DEF r
  <2>3. req' \in [Requests -> Request]
    BY <2>1, <2>2, GotoType
  <2> QED BY <2>2, <2>3, GrantTypes DEF TypeOK
<1>2. ASSUME IssueCode(p) PROVE TypeOK'
  <2>1. Goto(p, Idle) /\ UNCHANGED <<authVars, app, roles, tokens, answered>>
    BY <1>2 DEF IssueCode
  <2>2. req' \in [Requests -> Request]
    BY <2>1, GotoType, IdleType
  <2>3. code' \in [Codes -> CodeRow \cup {NoCode}] /\ drawn' \subseteq Codes
    <3>1. CASE UNCHANGED <<drawn, code>>
      BY <3>1 DEF TypeOK
    <3> DEFINE r == req[p]
               c == r.cred
               new == [client |-> r.client, login |-> c.login, user |-> c.user,
                       redirect_uri |-> r.redirect_uri, code_challenge |-> r.challenge,
                       auth_time |-> c.auth_time, expires_at |-> CodeExpiry(c),
                       session_version |-> c.session_version,
                       session_exp |-> Deadline(c), consumed |-> FALSE]
    <3>2. r \in Authorizing
      BY <1>2, Registers DEF IssueCode
    <3>3. c \in Credential
      BY <3>2 DEF Authorizing
    <3>4. Deadline(c) \in Nat /\ CodeExpiry(c) \in Nat
      <4>1. Deadline(c) \in Nat
        BY <3>3 DEF Deadline, Credential
      <4>2. now + AUTHORIZATION_CODE_LIFETIME \in Nat
        BY OidcAssumption DEF TypeOK
      <4> QED BY <4>1, <4>2, LesserType DEF CodeExpiry
    <3>5. new \in CodeRow
      BY <3>2, <3>3, <3>4 DEF CodeRow, Authorizing, Credential
    <3>6. CASE \E k \in Codes \ drawn : /\ drawn' = drawn \cup {k}
                                       /\ code' = [code EXCEPT ![k] = new]
      <4> HIDE DEF new
      <4> QED BY <3>5, <3>6 DEF TypeOK
    <3> QED BY <1>2, <3>1, <3>6 DEF IssueCode
  <2> QED BY <2>1, <2>2, <2>3, GrantTypes DEF TypeOK
<1> QED BY <1>1, <1>2

\* The token exchange keeps the types.
LEMMA ExchangeTypes ==
    ASSUME TypeOK, NEW p \in Requests
    PROVE  /\ \A k \in Codes, a \in Clients, uri \in RedirectUris, v \in Verifiers :
                 PresentCode(p, k, a, uri, v) => TypeOK'
           /\ ConsumeCode(p) => TypeOK'
           /\ VerifyGrant(p) => TypeOK'
           /\ Mint(p) => TypeOK'
           /\ Abort(p) => TypeOK'
<1>1. ASSUME NEW k \in Codes, NEW a \in Clients, NEW uri \in RedirectUris,
             NEW v \in Verifiers, PresentCode(p, k, a, uri, v)
      PROVE  TypeOK'
  <2> DEFINE r == [pc |-> "consume", code |-> k, row |-> code[k], app |-> app[a],
                   client |-> a, redirect_uri |-> uri, verifier |-> v]
  <2>1. code[k] \in CodeRow /\ app[a] \in Application
    BY <1>1 DEF PresentCode, TypeOK
  <2>2. r \in Request
    BY <2>1 DEF Request, Exchanging
  <2>3. Goto(p, r) /\ UNCHANGED <<authVars, app, roles, code, tokens, drawn, answered>>
    BY <1>1 DEF PresentCode
  <2> HIDE DEF r
  <2>4. req' \in [Requests -> Request]
    BY <2>2, <2>3, GotoType
  <2> QED BY <2>3, <2>4, GrantTypes DEF TypeOK
<1>2. ASSUME ConsumeCode(p) PROVE TypeOK'
  <2> DEFINE k == req[p].code
             r == [req[p] EXCEPT !.pc = "verify"]
  <2>1. req[p] \in Exchanging /\ k \in Codes
    BY <1>2, Registers DEF ConsumeCode, Exchanging
  <2>2. r \in Request
    BY <2>1, ExchangeMoves
  <2>3. UNCHANGED <<authVars, app, roles, tokens, drawn, answered>>
    BY <1>2 DEF ConsumeCode
  <2>4. CASE Redeemable(k) /\ code' = [code EXCEPT ![k].consumed = TRUE] /\ Goto(p, r)
    <3>1. code[k] \in CodeRow
      BY <2>1, <2>4 DEF Redeemable, TypeOK
    <3>2. [code[k] EXCEPT !.consumed = TRUE] \in CodeRow
      BY <3>1 DEF CodeRow
    <3>3. code' = [code EXCEPT ![k] = [code[k] EXCEPT !.consumed = TRUE]]
      BY <2>4
    <3>4. code' \in [Codes -> CodeRow \cup {NoCode}]
      BY <3>2, <3>3 DEF TypeOK
    <3>5. req' \in [Requests -> Request]
      <4> HIDE DEF r
      <4> QED BY <2>2, <2>4, GotoType
    <3> QED BY <2>3, <3>4, <3>5, GrantTypes DEF TypeOK
  <2>5. CASE Goto(p, Idle) /\ UNCHANGED code
    BY <2>3, <2>5, GotoType, IdleType, GrantTypes DEF TypeOK
  <2> QED BY <1>2, <2>4, <2>5 DEF ConsumeCode
<1>3. ASSUME VerifyGrant(p) PROVE TypeOK'
  <2>1. req[p] \in Exchanging
    BY <1>3, Registers DEF VerifyGrant
  <2>2. \E r \in Request : Goto(p, r)
    BY <1>3, <2>1, ExchangeMoves, IdleType DEF VerifyGrant
  <2>3. UNCHANGED <<authVars, app, roles, code, tokens, drawn, answered>>
    BY <1>3 DEF VerifyGrant
  <2> QED BY <2>2, <2>3, GotoType, GrantTypes DEF TypeOK
<1>4. ASSUME Mint(p) PROVE TypeOK'
  <2> DEFINE r == req[p]
             new == [client |-> r.client, login |-> r.row.login, user |-> r.row.user,
                     iat |-> now,
                     exp |-> Lesser(now + OIDC_ACCESS_TOKEN_LIFETIME, r.row.session_exp),
                     id_exp |-> Lesser(now + ID_TOKEN_LIFETIME, r.row.session_exp),
                     auth_time |-> r.row.auth_time,
                     session_version |-> MintedVersion(r.row)]
  <2>1. r \in Exchanging
    BY <1>4, Registers DEF Mint
  <2>2. new \in Token
    <3>1. r.row \in CodeRow /\ r.client \in Clients
      BY <2>1 DEF Exchanging
    <3>2. /\ now \in Nat
          /\ now + OIDC_ACCESS_TOKEN_LIFETIME \in Nat
          /\ now + ID_TOKEN_LIFETIME \in Nat
          /\ r.row.session_exp \in Nat
      BY <3>1, OidcAssumption DEF TypeOK, CodeRow
    <3>3. new.exp \in Nat /\ new.id_exp \in Nat
      BY <3>2, LesserType
    <3> QED BY <3>1, <3>2, <3>3 DEF Token, CodeRow, MintedVersion
  <2>3. Goto(p, Idle) /\ UNCHANGED <<authVars, app, roles, code, drawn>>
    BY <1>4 DEF Mint
  <2>4. tokens' \subseteq Token /\ answered' \in [Codes -> Nat]
    <3>1. CASE UNCHANGED <<tokens, answered>>
      BY <3>1 DEF TypeOK
    <3>2. CASE tokens' = tokens \cup {new} /\ answered' = [answered EXCEPT ![r.code] = @ + 1]
      <4>1. tokens' \subseteq Token
        BY <2>2, <3>2 DEF TypeOK
      <4>2. r.code \in Codes
        BY <2>1 DEF Exchanging
      <4>3. answered \in [Codes -> Nat]
        BY DEF TypeOK
      <4>4. answered' \in [Codes -> Nat]
        <5> HIDE DEF r
        <5> QED BY <3>2, <4>2, <4>3
      <4> QED BY <4>1, <4>4
    <3> QED BY <1>4, <3>1, <3>2 DEF Mint
  <2> QED BY <2>3, <2>4, GotoType, IdleType, GrantTypes DEF TypeOK
<1>5. ASSUME Abort(p) PROVE TypeOK'
  BY <1>5, GotoType, IdleType, GrantTypes DEF Abort, TypeOK
<1> QED BY <1>1, <1>2, <1>3, <1>4, <1>5

\* Administration and the sweep keep the types.
LEMMA AdminTypes ==
    ASSUME TypeOK
    PROVE  /\ \A a \in Clients : UpdateApplication(a) \/ DeleteApplication(a) => TypeOK'
           /\ \A u \in Users : ChangeRoles(u) => TypeOK'
           /\ Sweep => TypeOK'
<1>1. ASSUME NEW a \in Clients, UpdateApplication(a) PROVE TypeOK'
  BY <1>1, ApplicationAssumption, GrantTypes DEF UpdateApplication, TypeOK
<1>2. ASSUME NEW a \in Clients, DeleteApplication(a) PROVE TypeOK'
  BY <1>2, GrantTypes DEF DeleteApplication, TypeOK
<1>3. ASSUME NEW u \in Users, ChangeRoles(u) PROVE TypeOK'
  BY <1>3, GrantTypes DEF ChangeRoles, TypeOK
<1>4. ASSUME Sweep PROVE TypeOK'
  BY <1>4, GrantTypes DEF Sweep, TypeOK
<1> QED BY <1>1, <1>2, <1>3, <1>4

\* Sign-ins, renewals and revocations keep the types.
LEMMA SessionTypes ==
    ASSUME TypeOK
    PROVE  /\ \A u \in Users, n \in Logins : SignedIn(n, u) => TypeOK'
           /\ \A c \in creds : Renewed(c) => TypeOK'
           /\ \A c \in creds : \A b \in BOOLEAN : EndSession(c, b) => TypeOK'
           /\ \A u \in Users : Revoked(u) \/ ActiveSet(u) => TypeOK'
           /\ TimePasses => TypeOK'
<1>1. ASSUME NEW c \in Credential, creds' = creds \cup {c}, UNCHANGED grantVars,
             UNCHANGED <<now, active, token_version, revoked_before, dead>>
      PROVE  TypeOK'
  BY <1>1 DEF TypeOK, grantVars
<1>2. ASSUME NEW u \in Users, Revoke(u), UNCHANGED grantVars PROVE TypeOK'
  <2>1. creds \subseteq Credential /\ dead \subseteq Logins
    BY DEF TypeOK
  <2>2. dead' \subseteq Logins
    BY <1>2, <2>1 DEF Revoke, Credential
  <2> QED BY <1>2, <2>2 DEF Revoke, TypeOK, grantVars
<1>3. ASSUME NEW u \in Users, NEW n \in Logins, SignedIn(n, u) PROVE TypeOK'
  <2> DEFINE d(v) == [login |-> n, user |-> u, iat |-> now,
                      exp |-> Lesser(now + AccessLifetime, now + SessionExpiry),
                      session_exp |-> now + SessionExpiry, session_version |-> v,
                      auth_time |-> now]
  <2>1. PICK v \in 0 .. token_version[u] : SignIn(d(v)) /\ UNCHANGED grantVars
    BY <1>3 DEF SignedIn
  <2>2. now \in Nat /\ now + AccessLifetime \in Nat /\ now + SessionExpiry \in Nat
    BY OidcAssumption DEF TypeOK
  <2>3. v \in Nat
    BY DEF TypeOK
  <2>4. d(v) \in Credential
    BY <2>2, <2>3, LesserType DEF Credential
  <2> HIDE DEF d
  <2> QED BY <1>1, <2>1, <2>4 DEF SignIn
<1>4. ASSUME NEW c \in creds, Renewed(c) PROVE TypeOK'
  <2> DEFINE d == [c EXCEPT !.iat = now, !.exp = Lesser(now + AccessLifetime, c.session_exp),
                            !.session_version = RenewedVersion(c)]
  <2>1. Renew(c, d) /\ UNCHANGED grantVars
    BY <1>4 DEF Renewed
  <2>2. c \in Credential /\ now \in Nat /\ now + AccessLifetime \in Nat
    BY OidcAssumption DEF TypeOK
  <2>3. Lesser(now + AccessLifetime, c.session_exp) \in Nat
    BY <2>2, LesserType DEF Credential
  <2>4. RenewedVersion(c) \in Nat
    BY <2>2 DEF RenewedVersion, Credential
  <2>5. d \in Credential
    BY <2>2, <2>3, <2>4 DEF Credential
  <2> HIDE DEF d
  <2> QED BY <1>1, <2>1, <2>5 DEF Renew
<1>5. ASSUME NEW c \in creds, NEW b \in BOOLEAN, EndSession(c, b) PROVE TypeOK'
  <2>1. c.user \in Users
    BY DEF TypeOK, Credential
  <2> QED BY <1>2, <1>5, <2>1 DEF EndSession
<1>6. ASSUME NEW u \in Users, Revoked(u) PROVE TypeOK'
  BY <1>2, <1>6 DEF Revoked
<1>7. ASSUME NEW u \in Users, ActiveSet(u) PROVE TypeOK'
  <2>1. active' \in [Users -> BOOLEAN]
    BY <1>7, Zenon DEF ActiveSet, SetActive, TypeOK
  <2> QED BY <1>7, <2>1 DEF ActiveSet, SetActive, TypeOK, grantVars
<1>8. ASSUME TimePasses PROVE TypeOK'
  BY <1>8 DEF TimePasses, Tick, TypeOK, grantVars
<1> QED BY <1>3, <1>4, <1>5, <1>6, <1>7, <1>8

\* Every step keeps the types.
LEMMA TypeStep == TypeOK /\ [Next]_vars => TypeOK'
<1> SUFFICES ASSUME TypeOK, [Next]_vars PROVE TypeOK'
  OBVIOUS
<1>1. CASE UNCHANGED vars
  BY <1>1 DEF vars, authVars, grantVars, TypeOK
<1>2. ASSUME NEW p \in Requests, RequestNext(p) PROVE TypeOK'
  BY <1>2, AuthorizeTypes, ExchangeTypes DEF RequestNext
<1> QED BY <1>1, <1>2, AdminTypes, SessionTypes DEF Next

-----------------------------------------------------------------------------
(* The central sessions *)

\* Every step of the provider is a step of the central sessions, or leaves them
\* alone.
LEMMA NextIsAuthority ==
    ASSUME TypeOK, [Next]_vars
    PROVE  [AuthorityNext]_authVars
<1>1. CASE UNCHANGED vars
  BY <1>1 DEF vars
<1>2. ASSUME NEW p \in Requests, RequestNext(p) PROVE UNCHANGED authVars
  BY <1>2 DEF RequestNext, Authorize, IssueCode, PresentCode, ConsumeCode, VerifyGrant,
              Mint, Abort
<1>3. ASSUME NEW c \in creds, Renewed(c) PROVE AuthorityNext
  <2> DEFINE d == [c EXCEPT !.iat = now, !.exp = Lesser(now + AccessLifetime, c.session_exp),
                            !.session_version = RenewedVersion(c)]
  <2>1. Renew(c, d)
    BY <1>3 DEF Renewed
  <2>2. d \in creds'
    BY <2>1 DEF Renew
  <2> QED BY <2>1, <2>2 DEF AuthorityNext
<1>4. ASSUME NEW c \in creds, NEW confirmed \in BOOLEAN, EndSession(c, confirmed)
      PROVE  AuthorityNext
  <2>1. c.user \in Users
    BY DEF TypeOK, Credential
  <2> QED BY <1>4, <2>1 DEF EndSession, AuthorityNext
<1>5. ASSUME NEW a \in Clients, UpdateApplication(a) \/ DeleteApplication(a)
      PROVE  UNCHANGED authVars
  BY <1>5 DEF UpdateApplication, DeleteApplication
<1>6. ASSUME NEW u \in Users, ChangeRoles(u) PROVE UNCHANGED authVars
  BY <1>6 DEF ChangeRoles
<1>7. ASSUME NEW u \in Users, Revoked(u) \/ ActiveSet(u) PROVE AuthorityNext
  BY <1>7 DEF Revoked, ActiveSet, AuthorityNext
<1>8. ASSUME NEW u \in Users, NEW n \in Logins, SignedIn(n, u) PROVE AuthorityNext
  <2>1. PICK c : SignIn(c)
    BY <1>8 DEF SignedIn
  <2>2. c \in creds'
    BY <2>1 DEF SignIn
  <2> QED BY <2>1, <2>2 DEF AuthorityNext
<1>9. CASE Sweep
  BY <1>9 DEF Sweep
<1>10. CASE TimePasses
  BY <1>10 DEF TimePasses, AuthorityNext
<1> QED BY <1>1, <1>2, <1>3, <1>4, <1>5, <1>6, <1>7, <1>8, <1>9, <1>10 DEF Next

-----------------------------------------------------------------------------
(* What is in circulation *)

\* Credentials are never taken back, so what was derived from one stays so.
LEMMA InMonotone ==
    ASSUME NEW cs, NEW ds, cs \subseteq ds, NEW g
    PROVE  (RowIn(g, cs) => RowIn(g, ds)) /\ (TokenIn(g, cs) => TokenIn(g, ds))
BY DEF RowIn, TokenIn

\* A request is in one register file.
LEMMA RegistersDisjoint ==
    /\ Idle \notin Authorizing /\ Idle \notin Exchanging
    /\ \A r \in Authorizing : r \notin Exchanging
BY DEF Idle, Authorizing, Exchanging

\* What a step must show of the grants it creates.
LEMMA GrantsFrame ==
    ASSUME GrantsOK, creds \subseteq creds',
           \A k \in Codes : \/ code'[k] = NoCode
                            \/ code'[k] = code[k]
                            \/ RowIn(code'[k], creds),
           \A t \in tokens' : t \in tokens \/ TokenIn(t, creds),
           \A q \in Requests : \/ req'[q] = req[q]
                               \/ req'[q] = Idle
                               \/ req'[q] \in Authorizing /\ req'[q].cred \in creds
                               \/ req'[q] \in Exchanging /\ RowIn(req'[q].row, creds)
    PROVE  GrantsOK'
<1>1. \A k \in Codes : code'[k] # NoCode => RowIn(code'[k], creds')
  BY InMonotone DEF GrantsOK
<1>2. \A t \in tokens' : TokenIn(t, creds')
  BY InMonotone DEF GrantsOK
<1>3. ASSUME NEW q \in Requests
      PROVE  /\ req'[q] \in Authorizing => req'[q].cred \in creds'
             /\ req'[q] \in Exchanging => RowIn(req'[q].row, creds')
  BY InMonotone, RegistersDisjoint DEF GrantsOK
<1> QED BY <1>1, <1>2, <1>3 DEF GrantsOK

\* A request that moves without touching the codes.
LEMMA MoveKeeps ==
    ASSUME Inv, NEW p \in Requests, NEW r \in Request, Goto(p, r),
           UNCHANGED <<code, drawn, answered>>,
           r \in Exchanging => r.code \in drawn,
           \A k \in Codes : Holds(r, k) => Holds(req[p], k),
           r.pc # "consume"
    PROVE  CodesOK' /\ BindingOK'
<1>1. /\ req'[p] = r
      /\ \A q \in Requests : q # p => req'[q] = req[q]
  BY GotoType DEF Inv
<1>2. \A q \in Requests, k \in Codes : Holds(req'[q], k) => Holds(req[q], k)
  BY <1>1
<1>3. CodesOK'
  BY <1>1, <1>2 DEF Inv, CodesOK
<1>4. BindingOK'
  BY <1>1 DEF Inv, BindingOK
<1> QED BY <1>3, <1>4

\* A request that is over.
LEMMA EndKeeps ==
    ASSUME Inv, NEW p \in Requests, Goto(p, Idle), UNCHANGED <<code, drawn, answered>>
    PROVE  CodesOK' /\ BindingOK'
<1>1. Idle.pc = "idle" /\ Idle \notin Exchanging /\ \A k \in Codes : ~Holds(Idle, k)
  BY RegistersDisjoint DEF Idle, Holds
<1> QED BY <1>1, IdleType, MoveKeeps

\* Codes are only deleted, and requests stay where they are.
LEMMA ForgetKeeps ==
    ASSUME Inv, creds \subseteq creds', UNCHANGED <<tokens, req, drawn, answered>>,
           \A k \in Codes : code'[k] = NoCode \/ code'[k] = code[k]
    PROVE  GrantsOK' /\ CodesOK' /\ BindingOK'
<1>1. GrantsOK'
  BY GrantsFrame DEF Inv
<1>2. CodesOK'
  BY DEF Inv, CodesOK
<1>3. BindingOK'
  <2> SUFFICES ASSUME NEW p \in Requests, req[p].pc = "consume"
               PROVE  LET r == req[p] IN
                      /\ Bound(r.row, r.client, r.redirect_uri, r.verifier)
                      /\ code'[r.code] # NoCode =>
                            /\ code'[r.code].client = r.row.client
                            /\ code'[r.code].redirect_uri = r.row.redirect_uri
                            /\ code'[r.code].code_challenge = r.row.code_challenge
    BY DEF BindingOK, Bound
  <2>1. req[p].code \in Codes
    BY Registers DEF Inv, Exchanging
  <2> QED BY <2>1 DEF Inv, BindingOK
<1> QED BY <1>1, <1>2, <1>3

\* authorize.
LEMMA AuthorizeKeeps ==
    ASSUME Inv, NEW p \in Requests, NEW c \in creds, NEW a \in Clients,
           NEW uri \in RedirectUris, NEW ch \in Challenges, Authorize(p, c, a, uri, ch)
    PROVE  GrantsOK' /\ CodesOK' /\ BindingOK'
<1> DEFINE r == [pc |-> "issue", cred |-> c, client |-> a, redirect_uri |-> uri,
                 challenge |-> ch]
<1>1. r \in Authorizing /\ r.cred \in creds /\ r.pc = "issue"
  BY DEF Authorizing, Inv, TypeOK
<1>2. Goto(p, r) /\ UNCHANGED <<authVars, app, roles, code, tokens, drawn, answered>>
  BY DEF Authorize
<1> HIDE DEF r
<1>3. r \in Request /\ r \notin Exchanging /\ \A k \in Codes : ~Holds(r, k)
  BY <1>1, RegistersDisjoint DEF Request, Holds
<1>4. req'[p] = r /\ \A q \in Requests : q # p => req'[q] = req[q]
  BY <1>2, <1>3, GotoType DEF Inv
<1>5. GrantsOK'
  BY <1>1, <1>2, <1>4, GrantsFrame DEF Inv, authVars
<1> QED BY <1>1, <1>2, <1>3, <1>5, MoveKeeps

\* codes::issue: a code that was never drawn, derived from the credential that
\* authorized it.
LEMMA IssueCodeKeeps ==
    ASSUME Inv, NEW p \in Requests, IssueCode(p)
    PROVE  GrantsOK' /\ CodesOK' /\ BindingOK'
<1> DEFINE r == req[p]
           c == r.cred
           new == [client |-> r.client, login |-> c.login, user |-> c.user,
                   redirect_uri |-> r.redirect_uri, code_challenge |-> r.challenge,
                   auth_time |-> c.auth_time, expires_at |-> CodeExpiry(c),
                   session_version |-> c.session_version,
                   session_exp |-> Deadline(c), consumed |-> FALSE]
<1>1. r \in Authorizing /\ c \in creds /\ c \in Credential
  <2>1. r \in Authorizing
    BY Registers DEF IssueCode, Inv
  <2> QED BY <2>1 DEF Inv, GrantsOK, TypeOK
<1>2. Goto(p, Idle) /\ UNCHANGED <<authVars, app, roles, tokens, answered>>
  BY DEF IssueCode
<1>3. req'[p] = Idle /\ \A q \in Requests : q # p => req'[q] = req[q]
  BY <1>2, GotoType, IdleType DEF Inv
<1>4. creds' = creds
  BY <1>2 DEF authVars
<1>5. CASE UNCHANGED <<drawn, code>>
  <2>1. GrantsOK'
    BY <1>2, <1>3, <1>4, <1>5, GrantsFrame DEF Inv
  <2> QED BY <1>2, <1>5, <2>1, EndKeeps
<1>6. ASSUME NEW k \in Codes \ drawn, drawn' = drawn \cup {k},
             code' = [code EXCEPT ![k] = new]
      PROVE  GrantsOK' /\ CodesOK' /\ BindingOK'
  <2>1. RowIn(new, creds)
    <3>1. Deadline(c) \in Nat /\ Deadline(c) <= c.session_exp
      BY <1>1 DEF Deadline, Credential, Inv, CredentialsOK
    <3>2. now + AUTHORIZATION_CODE_LIFETIME \in Nat
      BY OidcAssumption DEF Inv, TypeOK
    <3>3. CodeExpiry(c) \in Nat /\ CodeExpiry(c) <= Deadline(c)
      BY <3>1, <3>2, LesserType DEF CodeExpiry
    <3>4. CodeExpiry(c) <= c.session_exp
      BY <1>1, <3>1, <3>3 DEF Credential
    <3>5. DerivedFrom(new, c) /\ new.session_exp <= c.session_exp
          /\ new.expires_at <= c.session_exp
      BY <3>1, <3>4 DEF DerivedFrom
    <3> QED BY <1>1, <3>5 DEF RowIn
  <2>2. new.consumed = FALSE
    OBVIOUS
  <2> HIDE DEF new
  <2>3. /\ code'[k] = new
        /\ \A j \in Codes : j # k => code'[j] = code[j]
    BY <1>6 DEF Inv, TypeOK
  <2>4. GrantsOK'
    BY <1>2, <1>3, <1>4, <2>1, <2>3, GrantsFrame DEF Inv
  <2>5. \A q \in Requests, j \in Codes : Holds(req'[q], j) => Holds(req[q], j) /\ j # k
    <3>1. \A j \in Codes : ~Holds(Idle, j)
      BY DEF Idle, Holds
    <3>2. ASSUME NEW q \in Requests, NEW j \in Codes, Holds(req[q], j) PROVE j \in drawn
      BY <3>2, Registers DEF Holds, Inv, CodesOK
    <3> QED BY <1>3, <1>6, <3>1, <3>2
  <2>6. CodesOK'
    <3>1. answered[k] = 0
      BY <1>6 DEF Inv, CodesOK
    <3>2. ASSUME NEW q \in Requests, req'[q] \in Exchanging PROVE req'[q].code \in drawn'
      BY <1>3, <1>6, <3>2, RegistersDisjoint DEF Inv, CodesOK
    <3> QED BY <1>2, <1>6, <2>3, <2>5, <3>1, <3>2 DEF Inv, CodesOK
  <2>7. BindingOK'
    <3> SUFFICES ASSUME NEW q \in Requests, req'[q].pc = "consume"
                 PROVE  LET r0 == req'[q] IN
                        /\ Bound(r0.row, r0.client, r0.redirect_uri, r0.verifier)
                        /\ code'[r0.code] # NoCode =>
                              /\ code'[r0.code].client = r0.row.client
                              /\ code'[r0.code].redirect_uri = r0.row.redirect_uri
                              /\ code'[r0.code].code_challenge = r0.row.code_challenge
      BY DEF BindingOK, Bound
    <3>1. req'[q] = req[q]
      BY <1>3 DEF Idle
    <3>2. req[q].code \in drawn /\ req[q].code \in Codes
      BY <3>1, Registers DEF Inv, CodesOK, Exchanging
    <3>3. code'[req[q].code] = code[req[q].code]
      BY <1>6, <2>3, <3>2
    <3> QED BY <3>1, <3>3 DEF Inv, BindingOK
  <2> QED BY <2>4, <2>6, <2>7
<1> QED BY <1>5, <1>6 DEF IssueCode

\* The SELECT of codes::consume.
LEMMA PresentCodeKeeps ==
    ASSUME Inv, NEW p \in Requests, NEW k \in Codes, NEW a \in Clients,
           NEW uri \in RedirectUris, NEW v \in Verifiers, PresentCode(p, k, a, uri, v)
    PROVE  GrantsOK' /\ CodesOK' /\ BindingOK'
<1> DEFINE r == [pc |-> "consume", code |-> k, row |-> code[k], app |-> app[a],
                 client |-> a, redirect_uri |-> uri, verifier |-> v]
<1>1. code[k] \in CodeRow /\ app[a] \in Application /\ code[k] # NoCode
      /\ Bound(code[k], a, uri, v)
  BY DEF PresentCode, Inv, TypeOK
<1>2. r \in Exchanging
  BY <1>1 DEF Exchanging
<1>3. /\ r.pc = "consume" /\ r.code = k /\ r.row = code[k]
      /\ Bound(r.row, r.client, r.redirect_uri, r.verifier)
  BY <1>1
<1>4. Goto(p, r) /\ UNCHANGED <<authVars, app, roles, code, tokens, drawn, answered>>
  BY DEF PresentCode
<1> HIDE DEF r
<1>5. req'[p] = r /\ \A q \in Requests : q # p => req'[q] = req[q]
  BY <1>2, <1>4, GotoType DEF Inv, Request
<1>6. GrantsOK'
  <2>1. RowIn(r.row, creds)
    BY <1>1, <1>3 DEF Inv, GrantsOK
  <2> QED BY <1>2, <1>4, <1>5, <2>1, GrantsFrame DEF Inv, authVars
<1>7. CodesOK'
  <2>1. k \in drawn
    BY <1>1 DEF Inv, CodesOK
  <2>2. \A q \in Requests, j \in Codes : Holds(req'[q], j) => Holds(req[q], j)
    BY <1>3, <1>5 DEF Holds
  <2> QED BY <1>3, <1>4, <1>5, <2>1, <2>2 DEF Inv, CodesOK
<1>8. BindingOK'
  BY <1>3, <1>4, <1>5 DEF Inv, BindingOK, Bound
<1> QED BY <1>6, <1>7, <1>8

\* The UPDATE of codes::consume hands the right to answer to the request.
LEMMA ConsumeCodeKeeps ==
    ASSUME Inv, NEW p \in Requests, ConsumeCode(p)
    PROVE  GrantsOK' /\ CodesOK' /\ BindingOK'
<1> DEFINE k == req[p].code
           r == [req[p] EXCEPT !.pc = "verify"]
<1>1. req[p] \in Exchanging /\ k \in Codes /\ k \in drawn
  <2>1. req[p] \in Exchanging
    BY Registers DEF ConsumeCode, Inv
  <2> QED BY <2>1 DEF Exchanging, Inv, CodesOK
<1>2. UNCHANGED <<authVars, app, roles, tokens, drawn, answered>> /\ creds' = creds
  BY DEF ConsumeCode, authVars
<1>3. CASE Goto(p, Idle) /\ UNCHANGED code
  <2>1. req'[p] = Idle /\ \A q \in Requests : q # p => req'[q] = req[q]
    BY <1>3, GotoType, IdleType DEF Inv
  <2>2. GrantsOK'
    BY <1>2, <1>3, <2>1, GrantsFrame DEF Inv
  <2> QED BY <1>2, <1>3, <2>2, EndKeeps
<1>4. CASE Redeemable(k) /\ code' = [code EXCEPT ![k].consumed = TRUE] /\ Goto(p, r)
  <2> DEFINE new == [code[k] EXCEPT !.consumed = TRUE]
  <2>1. r \in Exchanging /\ r \in Request /\ r.pc = "verify" /\ r.code = k
        /\ r.row = req[p].row
    BY <1>1, ExchangeMoves
  <2>2. code[k] \in CodeRow /\ code[k] # NoCode /\ ~code[k].consumed
    BY <1>1, <1>4 DEF Redeemable, Inv, TypeOK
  <2>3. /\ code' = [code EXCEPT ![k] = new]
        /\ new \in CodeRow
        /\ new.consumed = TRUE
        /\ \A c : DerivedFrom(code[k], c) => DerivedFrom(new, c)
        /\ new.session_exp = code[k].session_exp /\ new.expires_at = code[k].expires_at
        /\ new.client = code[k].client /\ new.redirect_uri = code[k].redirect_uri
        /\ new.code_challenge = code[k].code_challenge
    BY <1>4, <2>2 DEF CodeRow, DerivedFrom
  <2> HIDE DEF new, r
  <2>4. /\ code'[k] = new
        /\ \A j \in Codes : j # k => code'[j] = code[j]
    BY <1>1, <2>3 DEF Inv, TypeOK
  <2>5. req'[p] = r /\ \A q \in Requests : q # p => req'[q] = req[q]
    BY <1>4, <2>1, GotoType DEF Inv
  <2>6. GrantsOK'
    <3>1. RowIn(new, creds)
      BY <1>1, <2>2, <2>3 DEF Inv, GrantsOK, RowIn
    <3>2. RowIn(r.row, creds)
      BY <1>1, <2>1 DEF Inv, GrantsOK
    <3> QED BY <1>2, <2>1, <2>4, <2>5, <3>1, <3>2, GrantsFrame DEF Inv
  <2>7. CodesOK'
    <3>1. \A j \in Codes : Holds(r, j) <=> j = k
      BY <2>1 DEF Holds
    <3>2. answered[k] = 0 /\ \A q \in Requests : ~Holds(req[q], k)
      BY <1>1, <2>2 DEF Inv, CodesOK
    <3> QED BY <1>1, <1>2, <2>1, <2>3, <2>4, <2>5, <3>1, <3>2 DEF Inv, CodesOK
  <2>8. BindingOK'
    <3> SUFFICES ASSUME NEW q \in Requests, req'[q].pc = "consume"
                 PROVE  LET r0 == req'[q] IN
                        /\ Bound(r0.row, r0.client, r0.redirect_uri, r0.verifier)
                        /\ code'[r0.code] # NoCode =>
                              /\ code'[r0.code].client = r0.row.client
                              /\ code'[r0.code].redirect_uri = r0.row.redirect_uri
                              /\ code'[r0.code].code_challenge = r0.row.code_challenge
      BY DEF BindingOK, Bound
    <3>1. req'[q] = req[q]
      BY <2>1, <2>5
    <3>2. req[q].code \in Codes
      BY <3>1, Registers DEF Inv, Exchanging
    <3> QED BY <2>2, <2>3, <2>4, <3>1, <3>2 DEF Inv, BindingOK
  <2> QED BY <2>6, <2>7, <2>8
<1> QED BY <1>3, <1>4 DEF ConsumeCode

\* verify_user_session of the exchange.
LEMMA VerifyGrantKeeps ==
    ASSUME Inv, NEW p \in Requests, VerifyGrant(p)
    PROVE  GrantsOK' /\ CodesOK' /\ BindingOK'
<1> DEFINE r == [req[p] EXCEPT !.pc = "mint"]
<1>1. req[p] \in Exchanging /\ req[p].pc = "verify" /\ req[p].code \in drawn
  <2>1. req[p] \in Exchanging /\ req[p].pc = "verify"
    BY Registers DEF VerifyGrant, Inv
  <2> QED BY <2>1 DEF Inv, CodesOK
<1>2. /\ UNCHANGED <<authVars, app, roles, code, tokens, drawn, answered>>
      /\ creds' = creds
      /\ Goto(p, Idle) \/ Goto(p, r)
  BY DEF VerifyGrant, authVars
<1>3. r \in Exchanging /\ r \in Request /\ r.pc = "mint" /\ r.code = req[p].code
      /\ r.row = req[p].row
  BY <1>1, ExchangeMoves
<1> HIDE DEF r
<1>4. GrantsOK'
  <2>1. \/ req'[p] = Idle
        \/ req'[p] = r
    BY <1>2, <1>3, GotoType, IdleType DEF Inv
  <2>2. \A q \in Requests : q # p => req'[q] = req[q]
    BY <1>2, <1>3, GotoType, IdleType DEF Inv
  <2>3. RowIn(r.row, creds)
    BY <1>1, <1>3 DEF Inv, GrantsOK
  <2> QED BY <1>2, <1>3, <2>1, <2>2, <2>3, GrantsFrame DEF Inv
<1>5. CASE Goto(p, Idle)
  BY <1>2, <1>4, <1>5, EndKeeps
<1>6. CASE Goto(p, r)
  <2>1. \A k \in Codes : Holds(r, k) => Holds(req[p], k)
    BY <1>1, <1>3 DEF Holds
  <2> QED BY <1>1, <1>2, <1>3, <1>4, <1>6, <2>1, MoveKeeps
<1> QED BY <1>2, <1>5, <1>6

\* The answer uses up the right to answer.
LEMMA MintKeeps ==
    ASSUME Inv, NEW p \in Requests, Mint(p)
    PROVE  GrantsOK' /\ CodesOK' /\ BindingOK'
<1> DEFINE r == req[p]
           new == [client |-> r.client, login |-> r.row.login, user |-> r.row.user,
                   iat |-> now,
                   exp |-> Lesser(now + OIDC_ACCESS_TOKEN_LIFETIME, r.row.session_exp),
                   id_exp |-> Lesser(now + ID_TOKEN_LIFETIME, r.row.session_exp),
                   auth_time |-> r.row.auth_time,
                   session_version |-> MintedVersion(r.row)]
<1>1. r \in Exchanging /\ r.pc = "mint" /\ r.code \in Codes /\ r.row \in CodeRow
      /\ RowIn(r.row, creds)
  <2>1. r \in Exchanging /\ r.pc = "mint"
    BY Registers DEF Mint, Inv
  <2> QED BY <2>1 DEF Exchanging, Inv, GrantsOK
<1>2. Goto(p, Idle) /\ UNCHANGED <<authVars, app, roles, code, drawn>> /\ creds' = creds
  BY DEF Mint, authVars
<1>3. req'[p] = Idle /\ \A q \in Requests : q # p => req'[q] = req[q]
  BY <1>2, GotoType, IdleType DEF Inv
<1>4. CASE UNCHANGED <<tokens, answered>>
  <2>1. GrantsOK'
    BY <1>2, <1>3, <1>4, GrantsFrame DEF Inv
  <2> QED BY <1>2, <1>4, <2>1, EndKeeps
<1>5. CASE tokens' = tokens \cup {new} /\ answered' = [answered EXCEPT ![r.code] = @ + 1]
  <2>1. TokenIn(new, creds)
    <3>1. PICK c \in creds : DerivedFrom(r.row, c) /\ r.row.session_exp <= c.session_exp
      BY <1>1 DEF RowIn
    <3>2. /\ now + OIDC_ACCESS_TOKEN_LIFETIME \in Nat
          /\ now + ID_TOKEN_LIFETIME \in Nat
          /\ r.row.session_exp \in Nat
          /\ c.session_exp \in Nat
      BY <1>1, OidcAssumption DEF Inv, TypeOK, CodeRow, Credential
    <3>3. /\ new.exp \in Nat /\ new.exp <= r.row.session_exp
          /\ new.id_exp \in Nat /\ new.id_exp <= r.row.session_exp
      BY <3>2, LesserType
    <3>4. DerivedFrom(new, c)
      BY <3>1 DEF DerivedFrom, MintedVersion
    <3>5. new.exp <= c.session_exp /\ new.id_exp <= c.session_exp
      <4> HIDE DEF new, r
      <4> QED BY <3>1, <3>2, <3>3
    <3> QED BY <3>4, <3>5 DEF TokenIn
  <2> HIDE DEF new
  <2>2. GrantsOK'
    BY <1>2, <1>3, <1>5, <2>1, GrantsFrame DEF Inv
  <2>3. CodesOK'
    <3>1. Holds(r, r.code) /\ r.code \in drawn
      BY <1>1 DEF Holds, Inv, CodesOK
    <3>2. answered[r.code] = 0 /\ \A q \in Requests : Holds(req[q], r.code) => q = p
      BY <1>1, <3>1 DEF Inv, CodesOK
    <3>3. ~(code[r.code] # NoCode /\ ~code[r.code].consumed)
      BY <1>1, <3>1 DEF Inv, CodesOK
    <3>4. \A q \in Requests, j \in Codes :
             Holds(req'[q], j) => Holds(req[q], j) /\ j # r.code
      <4>1. \A j \in Codes : ~Holds(Idle, j)
        BY DEF Idle, Holds
      <4> QED BY <1>3, <3>2, <4>1
    <3>5. /\ answered'[r.code] = 1
          /\ \A j \in Codes : j # r.code => answered'[j] = answered[j]
      BY <1>1, <1>5, <3>2 DEF Inv, TypeOK
    <3>6. \A q \in Requests : req'[q] \in Exchanging => req'[q].code \in drawn'
      BY <1>2, <1>3, RegistersDisjoint DEF Inv, CodesOK
    <3> QED BY <1>2, <3>1, <3>2, <3>3, <3>4, <3>5, <3>6 DEF Inv, CodesOK
  <2>4. BindingOK'
    <3>1. Idle.pc # "consume"
      BY DEF Idle
    <3> QED BY <1>2, <1>3, <3>1 DEF Inv, BindingOK, Bound
  <2> QED BY <2>2, <2>3, <2>4
<1> QED BY <1>4, <1>5 DEF Mint

\* A dropped request.
LEMMA AbortKeeps ==
    ASSUME Inv, NEW p \in Requests, Abort(p)
    PROVE  GrantsOK' /\ CodesOK' /\ BindingOK'
<1>1. Goto(p, Idle) /\ UNCHANGED <<authVars, app, roles, code, tokens, drawn, answered>>
  BY DEF Abort
<1>2. req'[p] = Idle /\ \A q \in Requests : q # p => req'[q] = req[q]
  BY <1>1, GotoType, IdleType DEF Inv
<1>3. GrantsOK'
  BY <1>1, <1>2, GrantsFrame DEF Inv, authVars
<1> QED BY <1>1, <1>3, EndKeeps

\* Every step but those of a request leaves the requests and the answers alone
\* and at most deletes codes.
LEMMA OthersForget ==
    ASSUME Inv, [Next]_vars, ~\E p \in Requests : RequestNext(p)
    PROVE  /\ UNCHANGED <<tokens, req, drawn, answered>>
           /\ \A k \in Codes : code'[k] = NoCode \/ code'[k] = code[k]
<1>1. ASSUME UNCHANGED <<code, tokens, req, drawn, answered>>
      PROVE  /\ UNCHANGED <<tokens, req, drawn, answered>>
             /\ \A k \in Codes : code'[k] = NoCode \/ code'[k] = code[k]
  BY <1>1
<1>2. CASE UNCHANGED vars
  BY <1>1, <1>2 DEF vars, grantVars
<1>3. ASSUME NEW c \in creds, NEW b \in BOOLEAN, Renewed(c) \/ EndSession(c, b)
      PROVE  UNCHANGED <<code, tokens, req, drawn, answered>>
  BY <1>3 DEF Renewed, EndSession, grantVars
<1>4. ASSUME NEW a \in Clients, UpdateApplication(a)
      PROVE  UNCHANGED <<code, tokens, req, drawn, answered>>
  BY <1>4 DEF UpdateApplication
<1>5. ASSUME NEW a \in Clients, DeleteApplication(a)
      PROVE  /\ UNCHANGED <<tokens, req, drawn, answered>>
             /\ \A k \in Codes : code'[k] = NoCode \/ code'[k] = code[k]
  BY <1>5 DEF DeleteApplication
<1>6. ASSUME NEW u \in Users, ChangeRoles(u) \/ Revoked(u) \/ ActiveSet(u)
      PROVE  UNCHANGED <<code, tokens, req, drawn, answered>>
  BY <1>6 DEF ChangeRoles, Revoked, ActiveSet, grantVars
<1>7. ASSUME NEW u \in Users, NEW n \in Logins, SignedIn(n, u)
      PROVE  UNCHANGED <<code, tokens, req, drawn, answered>>
  BY <1>7 DEF SignedIn, grantVars
<1>8. CASE Sweep
  BY <1>8 DEF Sweep
<1>9. CASE TimePasses
  BY <1>1, <1>9 DEF TimePasses, grantVars
<1> QED BY <1>1, <1>2, <1>3, <1>4, <1>5, <1>6, <1>7, <1>8, <1>9 DEF Next

-----------------------------------------------------------------------------
(* The theorems *)

\* The initial states satisfy the invariant.
LEMMA InitInv == Init => Inv
<1> SUFFICES ASSUME Init PROVE Inv
  OBVIOUS
<1> USE DEF Init, AuthorityInit
<1>1. Legacy \subseteq Credential
  BY LegacyAssumption
<1>2. TypeOK
  BY <1>1, ApplicationAssumption, IdleType DEF TypeOK
<1>3. CredentialsOK
  BY AuthorityInitOK
<1>4. GrantsOK /\ CodesOK /\ BindingOK
  <2>1. Idle.pc = "idle" /\ Idle \notin Authorizing /\ Idle \notin Exchanging
        /\ \A k \in Codes : ~Holds(Idle, k)
    BY RegistersDisjoint DEF Idle, Holds
  <2>2. \A p \in Requests : req[p] = Idle
    OBVIOUS
  <2> QED BY <2>1, <2>2 DEF GrantsOK, CodesOK, BindingOK
<1> QED BY <1>2, <1>3, <1>4 DEF Inv

\* Every step keeps the invariant: types, credentials, then what the step hands
\* on.
LEMMA StepInv == Inv /\ [Next]_vars => Inv'
<1> SUFFICES ASSUME Inv, [Next]_vars PROVE Inv'
  OBVIOUS
<1>1. TypeOK'
  BY TypeStep DEF Inv
<1>2. CredentialsOK' /\ creds \subseteq creds'
  BY <1>1, CredentialsStep, NextIsAuthority DEF Inv, TypeOK, AuthorityTypeOK
<1>3. ASSUME NEW p \in Requests, RequestNext(p) PROVE GrantsOK' /\ CodesOK' /\ BindingOK'
  BY <1>3, AuthorizeKeeps, IssueCodeKeeps, PresentCodeKeeps, ConsumeCodeKeeps,
     VerifyGrantKeeps, MintKeeps, AbortKeeps DEF RequestNext
<1>4. ASSUME ~\E p \in Requests : RequestNext(p) PROVE GrantsOK' /\ CodesOK' /\ BindingOK'
  BY <1>2, <1>4, OthersForget, ForgetKeeps
<1> QED BY <1>1, <1>2, <1>3, <1>4 DEF Inv

\* The inductive invariant holds in every reachable state of the provider.
THEOREM Invariance == Spec => []Inv
BY InitInv, StepInv, PTL DEF Spec

\* Every reachable state is well typed.
THEOREM TypeCorrect == Spec => []TypeOK
<1>1. Inv => TypeOK
  BY DEF Inv
<1> QED BY <1>1, Invariance, PTL

\* An authorization code is answered at most once, for any number of requests
\* that present it at the same time (codes::consume).
THEOREM CodesAreSingleUse == Spec => []CodeAnsweredOnce
<1>1. Inv => CodeAnsweredOnce
  BY DEF Inv, CodesOK, CodeAnsweredOnce
<1> QED BY <1>1, Invariance, PTL

\* No token of a revoked login is accepted, whenever it was minted
\* (mint_token_pair, verify_user_session).
THEOREM RevocationIsFinal == Spec => []RevocationReachesTokens
<1>1. ASSUME Inv, NEW t \in tokens, t.login \in dead
      PROVE  ~SessionOk(t.user, t.iat, t.session_version)
  <2>1. PICK c \in creds : DerivedFrom(t, c)
    BY <1>1 DEF Inv, GrantsOK, TokenIn
  <2>2. AuthorityTypeOK /\ CredentialsOK /\ c.login \in dead
    BY <1>1, <2>1 DEF Inv, TypeOK, AuthorityTypeOK, DerivedFrom
  <2>3. ~SessionOk(c.user, t.iat, c.session_version)
    BY <2>2, RevokedIsRefused
  <2> QED BY <2>1, <2>3 DEF DerivedFrom
<1>2. Inv => RevocationReachesTokens
  BY <1>1 DEF RevocationReachesTokens, UserinfoAccepts, HintMatches
<1> QED BY <1>2, Invariance, PTL

\* Codes and tokens end with the session they were derived from (codes::issue,
\* mint_token_pair).
THEOREM GrantsEndWithSession == Spec => []GrantsWithinSession
<1>1. Inv => GrantsWithinSession
  BY DEF Inv, GrantsOK, RowIn, TokenIn, DerivedFrom, GrantsWithinSession
<1> QED BY <1>1, Invariance, PTL

\* Only the client, redirect URI and verifier a code was issued for spend it
\* (codes::consume).
THEOREM CodesAreBound == Spec => CodeSpentByItsClient
<1> DEFINE Spender(k, p) == /\ req[p].pc = "consume"
                            /\ req[p].code = k
                            /\ req[p].client = code[k].client
                            /\ req[p].redirect_uri = code[k].redirect_uri
                            /\ S256[req[p].verifier] = code[k].code_challenge
           Spent(k) == code[k] # NoCode /\ ~code[k].consumed
                       /\ code'[k] # NoCode /\ code'[k].consumed
<1>1. ASSUME Inv, [Next]_vars, NEW k \in Codes, Spent(k)
      PROVE  \E p \in Requests : Spender(k, p)
  <2>1. code'[k] # code[k]
    BY <1>1
  <2>2. PICK p \in Requests : RequestNext(p)
    BY <1>1, <2>1, OthersForget
  <2>3. ~IssueCode(p)
    <3> SUFFICES ASSUME IssueCode(p) PROVE FALSE
      OBVIOUS
    <3>1. PICK j \in Codes \ drawn : \E new : code' = [code EXCEPT ![j] = new]
      BY <2>1 DEF IssueCode
    <3>2. code[j] = NoCode
      BY <1>1, <3>1 DEF Inv, CodesOK
    <3>3. j # k
      BY <1>1, <3>2
    <3> QED BY <1>1, <2>1, <3>1, <3>3 DEF Inv, TypeOK
  <2>4. ConsumeCode(p)
    BY <2>1, <2>2, <2>3 DEF RequestNext, Authorize, PresentCode, VerifyGrant, Mint, Abort
  <2>5. code' = [code EXCEPT ![req[p].code].consumed = TRUE]
    BY <2>1, <2>4 DEF ConsumeCode
  <2>6. req[p].code = k
    <3>1. req[p].code \in Codes
      BY <1>1, <2>4, Registers DEF ConsumeCode, Inv, Exchanging
    <3> QED BY <1>1, <2>1, <2>5, <3>1 DEF Inv, TypeOK
  <2>7. Spender(k, p)
    BY <1>1, <2>4, <2>6 DEF ConsumeCode, Inv, BindingOK, Bound
  <2> QED BY <2>7
<1>2. Inv /\ [Next]_vars =>
        [\A k \in Codes : Spent(k) => \E p \in Requests : Spender(k, p)]_vars
  BY <1>1
<1> QED BY <1>2, Invariance, PTL DEF Spec, CodeSpentByItsClient

=============================================================================
