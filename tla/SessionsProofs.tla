--------------------------- MODULE SessionsProofs ---------------------------
(***************************************************************************)
(* Proofs about Sessions, for every set of users, tokens and requests and   *)
(* every value of the lifetimes.                                            *)
(*                                                                          *)
(* None of the safety properties is inductive: a request carries a version, *)
(* a deadline and a parent pair from one statement to the next, and each    *)
(* property depends on what those registers still mean when the INSERT      *)
(* comes.  RequestOK says what they mean.                                   *)
(***************************************************************************)
EXTENDS Sessions, NaturalsInduction, WellFoundedInduction, TLAPS

\* A request that works on a pair it was handed, or has just made.
OnPair(r) ==
    /\ r.pc \notin {"idle", "version"}
    /\ ~(r.pc = "issue" /\ r.kind = "login")

\* A request that is going to mint a pair from the refresh token it verified.
Rotating(r) == r.pc = "issue" /\ r.kind # "login"

\* What a request's registers mean.  The version it read is never ahead of the
\* user's version, and is behind once the login it works for has been revoked.
RequestOK(r) ==
    /\ r.pc = "version" => r.kind = "login"
    /\ OnPair(r) => r.tok \in issued
    /\ (r.pc \in {"verify", "consume"} \/ Rotating(r)) => claims[r.tok].user = r.user
    /\ r.pc \in {"verify", "consume", "issue"} => r.ver <= token_version[r.user]
    /\ (r.pc = "consume" \/ Rotating(r)) =>
          /\ origin[r.tok] \in dead => r.ver < token_version[r.user]
          /\ r.exp = claims[r.tok].session_exp
          /\ r.auth = claims[r.tok].auth_time

\* Rows and retry pairs only exist for issued pairs; a pair has the user, the
\* deadline and the authentication time of its login, and is behind the user's
\* version once its login has been revoked.
PairOK(t) ==
    /\ origin[t] \in issued
    /\ claims[t].user = claims[origin[t]].user
    /\ claims[t].session_exp = claims[origin[t]].session_exp
    /\ claims[t].auth_time = claims[origin[t]].auth_time
    /\ claims[t].exp <= claims[t].session_exp
    /\ claims[t].session_version <= token_version[claims[t].user]
    /\ origin[t] \in dead => /\ claims[t].session_version < token_version[claims[t].user]
                             /\ 0 < token_version[claims[t].user]

StoreOK ==
    /\ held \subseteq issued
    /\ dead \subseteq issued
    /\ \A t \in Tokens \ issued : row[t] = "absent" /\ retry_pair[t] = NoToken

Inv == /\ TypeOK
       /\ StoreOK
       /\ \A t \in issued : PairOK(t)
       /\ \A p \in Requests : RequestOK(req[p])

\* TypeOK without the requests.
DataType ==
    /\ now \in Nat
    /\ active \in [Users -> BOOLEAN]
    /\ token_version \in [Users -> Nat]
    /\ password \in [Users -> Nat]
    /\ revoked_before \in [Users -> Int]
    /\ session_expiry \in SessionExpiries
    /\ claims \in [Tokens -> Claims]
    /\ issued \subseteq Tokens
    /\ held \subseteq Tokens
    /\ row \in [Tokens -> {"absent", "live", "revoked"}]
    /\ retry_until \in [Tokens -> Nat]
    /\ retry_pair \in [Tokens -> Tokens \cup {NoToken}]
    /\ origin \in [Tokens -> Tokens]
    /\ dead \subseteq Tokens
    /\ gen \in [Tokens -> Nat]

-----------------------------------------------------------------------------
(* What a step does to the pairs that exist *)

\* The idle request is a request.
LEMMA IdleType == Idle \in Request
  BY ConstantsAssumption DEF Idle, Request, AnyUser, PCs, Kinds

\* An idle request says nothing about the pairs.
LEMMA IdleOK == RequestOK(Idle)' /\ Idle.pc = "idle" /\ Idle.kind = "none"
  BY DEF Idle, RequestOK, OnPair, Rotating

\* Nothing about pairs and versions has changed.
Same == UNCHANGED <<claims, issued, origin, token_version, dead>>

\* Registers keep their meaning when pairs and versions do not change.
LEMMA SameKeeps ==
    ASSUME Inv, Same
    PROVE  /\ \A r \in Request : RequestOK(r) => RequestOK(r)'
           /\ \A t \in issued' : PairOK(t)'
  BY DEF Inv, Same, RequestOK, PairOK, OnPair, Rotating

\* ... when a pair is added ...
LEMMA InsertKeeps ==
    ASSUME Inv,
           NEW n \in Tokens, NEW u \in Users, NEW exp \in Nat, NEW ver \in Nat,
           NEW auth \in Nat, NEW from \in Tokens, NEW g \in Nat,
           InsertPair(n, u, exp, ver, auth, from, g),
           UNCHANGED <<token_version, dead>>,
           ver <= token_version[u],
           \/ from = n
           \/ /\ from \in issued
              /\ claims[from].user = u
              /\ claims[from].session_exp = exp
              /\ claims[from].auth_time = auth
              /\ from \in dead => ver < token_version[u]
    PROVE  /\ \A r \in Request : RequestOK(r) => RequestOK(r)'
           /\ \A t \in issued' : PairOK(t)'
  <1> DEFINE c == [user |-> u, iat |-> now, exp |-> Lesser(now + AccessLifetime, exp),
                   session_exp |-> exp, session_version |-> ver, auth_time |-> auth]
  <1>1. /\ n \notin issued
        /\ issued' = issued \cup {n}
        /\ claims'[n] = c
        /\ origin'[n] = from
        /\ \A t \in issued : claims'[t] = claims[t] /\ origin'[t] = origin[t]
    BY DEF InsertPair, Inv, TypeOK
  <1>2. \A t \in issued : t \in Tokens /\ PairOK(t)
    BY DEF Inv, TypeOK
  <1>3. dead \subseteq issued
    BY DEF Inv, StoreOK
  <1>4. ASSUME NEW t \in issued PROVE PairOK(t)'
    BY <1>1, <1>2 DEF PairOK
  <1>5. PairOK(n)'
    <2>1. Lesser(now + AccessLifetime, exp) <= exp
      BY ConstantsAssumption DEF Inv, TypeOK, Lesser
    <2>2. CASE from = n
      BY <1>1, <1>3, <2>1, <2>2 DEF PairOK, Inv, TypeOK
    <2>3. CASE from # n
      BY <1>1, <1>3, <2>1, <2>3 DEF PairOK, Inv, TypeOK
    <2>4. QED
      BY <2>2, <2>3
  <1>6. ASSUME NEW r \in Request, RequestOK(r) PROVE RequestOK(r)'
    BY <1>1, <1>6 DEF RequestOK, OnPair, Rotating
  <1>7. QED
    BY <1>1, <1>4, <1>5, <1>6

\* ... and when a user's credentials are revoked.
LEMMA RevokeKeeps ==
    ASSUME Inv, NEW u \in Users, RevokeAccess(u), UNCHANGED <<claims, issued, origin>>
    PROVE  /\ \A r \in Request : RequestOK(r) => RequestOK(r)'
           /\ \A t \in issued' : PairOK(t)'
           /\ dead' \subseteq issued
           /\ token_version' \in [Users -> Nat]
           /\ revoked_before' \in [Users -> Int]
  <1>1. /\ token_version' = [token_version EXCEPT ![u] = @ + 1]
        /\ token_version \in [Users -> Nat]
    BY DEF RevokeAccess, Inv, TypeOK
  <1>2. \A t \in issued : t \in Tokens /\ PairOK(t) /\ claims[t].user \in Users
                          /\ claims[t].session_version \in Nat \cup {NoVersion}
    BY DEF Inv, TypeOK, Claims
  <1>3. \A t \in issued : origin[t] \in dead' => origin[t] \in dead \/ claims[t].user = u
    BY <1>2 DEF RevokeAccess, PairOK
  <1>4. ASSUME NEW t \in issued PROVE PairOK(t)'
    BY <1>1, <1>2, <1>3 DEF PairOK, NoVersion
  <1>5. ASSUME NEW r \in Request, RequestOK(r) PROVE RequestOK(r)'
    BY <1>1, <1>2, <1>3, <1>5 DEF RequestOK, OnPair, Rotating, Request
  <1>6. dead' \subseteq issued
    BY <1>2 DEF RevokeAccess, Inv, StoreOK, PairOK
  <1>7. token_version' \in [Users -> Nat] /\ revoked_before' \in [Users -> Int]
    BY <1>1 DEF RevokeAccess, Inv, TypeOK
  <1>8. QED
    BY <1>4, <1>5, <1>6, <1>7

\* A step that moves one request, or none, preserves Inv if the data do.
LEMMA MoveKeeps ==
    ASSUME Inv, DataType', StoreOK', \A t \in issued' : PairOK(t)',
           \A r \in Request : RequestOK(r) => RequestOK(r)',
           \/ UNCHANGED req
           \/ \E p \in Requests, r \in Request : Goto(p, r) /\ RequestOK(r)'
    PROVE  Inv'
  <1>1. CASE UNCHANGED req
    BY <1>1 DEF Inv, TypeOK, DataType
  <1>2. ASSUME NEW p \in Requests, NEW r \in Request, Goto(p, r), RequestOK(r)' PROVE Inv'
    <2>1. req' \in [Requests -> Request]
      BY <1>2 DEF Goto, Inv, TypeOK
    <2>2. ASSUME NEW q \in Requests PROVE RequestOK(req[q])'
      <3>1. CASE q = p
        <4>1. req'[q] = r
          BY <1>2, <3>1 DEF Goto, Inv, TypeOK
        <4>2. QED
          BY <1>2, <4>1 DEF RequestOK, OnPair, Rotating
      <3>2. CASE q # p
        <4>1. req'[q] = req[q] /\ req[q] \in Request /\ RequestOK(req[q])
          BY <1>2, <3>2 DEF Goto, Inv, TypeOK
        <4>2. PICK s \in Request : s = req[q]
          BY <4>1
        <4>3. RequestOK(s)'
          BY <4>1, <4>2
        <4>4. QED
          BY <4>1, <4>2, <4>3 DEF RequestOK, OnPair, Rotating
      <3>3. QED
        BY <3>1, <3>2
    <2>3. QED
      BY <2>1, <2>2 DEF Inv, TypeOK, DataType
  <1>3. QED
    BY <1>1, <1>2

-----------------------------------------------------------------------------
(* Every action preserves Inv: first the actions that only move a request *)

\* A statement that only moves its request preserves Inv.
LEMMA MovesKeep ==
    ASSUME Inv, NEW p \in Requests, NEW r \in Request, Goto(p, r), RequestOK(r)',
           UNCHANGED <<now, userVars, rowVars, pairVars, held, dead>>
    PROVE  Inv'
  <1>1. Same /\ DataType' /\ StoreOK'
    BY DEF Same, DataType, StoreOK, Inv, TypeOK, userVars, rowVars, pairVars
  <1>2. QED
    BY <1>1, SameKeeps, MoveKeeps

\* consume_refresh_token has failed: the request ends or tries its access token.
LEMMA FailConsumeMoves ==
    ASSUME NEW p \in Requests, req[p] \in Request, FailConsume(p)
    PROVE  \E r \in Request : /\ Goto(p, r)
                              /\ r.pc = "idle" \/ (r.pc = "access" /\ r.tok = req[p].tok)
  <1>1. CASE req[p].kind = "browser_logout"
    <2> DEFINE x == [req[p] EXCEPT !.pc = "access", !.failed = FALSE]
    <2>1. x \in Request /\ x.pc = "access" /\ x.tok = req[p].tok
      BY DEF Request, PCs
    <2>2. Goto(p, x)
      BY <1>1 DEF FailConsume
    <2> HIDE DEF x
    <2>3. QED
      BY <2>1, <2>2
  <1>2. CASE req[p].kind # "browser_logout"
    BY <1>2, IdleType, IdleOK DEF FailConsume
  <1>3. QED
    BY <1>1, <1>2

\* The password check of a login preserves Inv.
LEMMA LoginCheckKeeps ==
    ASSUME Inv, NEW p \in Requests, NEW u \in Users, LoginCheck(p, u) PROVE Inv'
  <1>1. password[u] \in Nat
    BY DEF Inv, TypeOK
  <1> DEFINE x == [Idle EXCEPT !.pc = "version", !.kind = "login", !.user = u,
                               !.gen = password[u]]
  <1>2. x \in Request /\ x.pc = "version" /\ x.kind = "login"
    BY <1>1, IdleType DEF Request, PCs, Kinds
  <1>3. Goto(p, x)
    BY DEF LoginCheck
  <1> HIDE DEF x
  <1>4. PICK r \in Request : Goto(p, r) /\ r.pc = "version" /\ r.kind = "login"
    BY <1>2, <1>3
  <1>5. RequestOK(r)'
    BY <1>4 DEF RequestOK, OnPair, Rotating
  <1>6. QED
    BY <1>4, <1>5, MovesKeep DEF LoginCheck

\* generate_token_pair reads the user's current version.
LEMMA LoginVersionKeeps == ASSUME Inv, NEW p \in Requests, LoginVersion(p) PROVE Inv'
  <1> DEFINE s == req[p]
  <1>1. /\ s \in Request /\ s.user \in Users /\ s.kind = "login"
        /\ now \in Nat /\ now + session_expiry \in Nat
        /\ token_version[s.user] \in Nat
    BY ConstantsAssumption DEF Inv, TypeOK, Request, RequestOK, LoginVersion
  <1>2. UNCHANGED <<now, userVars, rowVars, pairVars, held, dead>>
    BY DEF LoginVersion
  <1>3. CASE active[s.user]
    <2>1. PICK r \in Request : /\ Goto(p, r)
                               /\ r.pc = "issue"
                               /\ r.kind = "login"
                               /\ r.user = s.user
                               /\ r.ver = token_version[s.user]
      <3> DEFINE x == [s EXCEPT !.pc = "issue", !.exp = now + session_expiry,
                                !.ver = token_version[s.user], !.auth = now]
      <3>1. /\ x \in Request /\ x.pc = "issue" /\ x.kind = "login" /\ x.user = s.user
            /\ x.ver = token_version[s.user]
        BY <1>1 DEF Request, PCs, Kinds
      <3>2. Goto(p, x)
        BY <1>3 DEF LoginVersion
      <3> HIDE DEF x
      <3>3. QED
        BY <3>1, <3>2
    <2>2. RequestOK(r)'
      BY <1>1, <1>2, <2>1 DEF RequestOK, OnPair, Rotating, userVars
    <2>3. QED
      BY <1>2, <2>1, <2>2, MovesKeep
  <1>4. CASE ~active[s.user]
    <2>1. Goto(p, Idle)
      BY <1>4 DEF LoginVersion
    <2>2. PICK r \in Request : r = Idle
      BY IdleType
    <2>3. RequestOK(r)'
      BY <2>2, IdleOK DEF RequestOK, OnPair, Rotating
    <2>4. QED
      BY <1>2, <2>1, <2>2, <2>3, MovesKeep
  <1>5. QED
    BY <1>3, <1>4

\* The version read before verification is the current one.
LEMMA PresentKeeps ==
    ASSUME Inv, NEW p \in Requests, NEW t \in Tokens,
           NEW k \in {"refresh", "logout", "browser_logout"}, Present(p, t, k)
    PROVE  Inv'
  <1>1. /\ t \in issued /\ claims[t].user \in Users
        /\ token_version[claims[t].user] \in Nat
    BY DEF Inv, TypeOK, StoreOK, Claims, Present
  <1>2. PICK r \in Request : /\ Goto(p, r)
                             /\ r.pc = "verify"
                             /\ r.user = claims[t].user
                             /\ r.tok = t
                             /\ r.ver = token_version[claims[t].user]
    <2> DEFINE x == [Idle EXCEPT !.pc = "verify", !.kind = k, !.user = claims[t].user,
                                 !.tok = t, !.ver = token_version[claims[t].user]]
    <2>1. /\ x \in Request /\ x.pc = "verify" /\ x.user = claims[t].user /\ x.tok = t
          /\ x.ver = token_version[claims[t].user]
      BY <1>1, IdleType DEF Request, PCs, Kinds
    <2>2. Goto(p, x)
      BY DEF Present
    <2> HIDE DEF x
    <2>3. QED
      BY <2>1, <2>2
  <1>3. UNCHANGED <<now, userVars, rowVars, pairVars, held, dead>>
    BY DEF Present
  <1>4. RequestOK(r)'
    BY <1>1, <1>2, <1>3 DEF RequestOK, OnPair, Rotating, userVars, pairVars
  <1>5. QED
    BY <1>2, <1>3, <1>4, MovesKeep

\* What passes verify_user_session has not been revoked, so the version handed on
\* is current and the login is not dead.
LEMMA VerifyKeeps == ASSUME Inv, NEW p \in Requests, Verify(p) PROVE Inv'
  <1> DEFINE s == req[p]
  <1> DEFINE c == claims[s.tok]
  <1>1. UNCHANGED <<now, userVars, rowVars, pairVars, held, dead>>
    BY DEF Verify
  <1>2. /\ s \in Request /\ s.user \in Users /\ s.ver \in Nat
        /\ s.tok \in issued /\ s.tok \in Tokens /\ c \in Claims
        /\ c.user = s.user
        /\ s.ver <= token_version[s.user]
        /\ PairOK(s.tok)
        /\ token_version[s.user] \in Nat
        /\ gen[s.tok] \in Nat
    BY DEF Inv, TypeOK, Request, RequestOK, OnPair, Verify
  <1>3. CASE SessionOk(c)
    <2>1. /\ PinnedVersion(c, s.ver) \in Nat
          /\ PinnedVersion(c, s.ver) <= token_version[s.user]
          /\ origin[s.tok] \notin dead
      BY <1>2, <1>3 DEF SessionOk, PinnedVersion, PairOK, Claims, NoVersion
    <2>2. /\ RotatedDeadline(c) = c.session_exp /\ c.session_exp \in Nat
          /\ c.auth_time \in Nat
      BY <1>2 DEF RotatedDeadline, Claims
    <2>3. PICK r \in Request : /\ Goto(p, r)
                               /\ r.pc = "consume"
                               /\ r.user = s.user
                               /\ r.tok = s.tok
                               /\ r.ver = PinnedVersion(c, s.ver)
                               /\ r.exp = c.session_exp
                               /\ r.auth = c.auth_time
      <3> DEFINE x == [s EXCEPT !.pc = "consume", !.exp = RotatedDeadline(c),
                                !.auth = c.auth_time, !.gen = gen[s.tok],
                                !.ver = PinnedVersion(c, s.ver)]
      <3>1. /\ x \in Request /\ x.pc = "consume" /\ x.user = s.user /\ x.tok = s.tok
            /\ x.ver = PinnedVersion(c, s.ver) /\ x.exp = c.session_exp
            /\ x.auth = c.auth_time
        BY <1>2, <2>1, <2>2 DEF Request, PCs, Kinds
      <3>2. Goto(p, x)
        BY <1>3 DEF Verify
      <3> HIDE DEF x
      <3>3. QED
        BY <3>1, <3>2
    <2>4. RequestOK(r)'
      BY <1>1, <1>2, <2>1, <2>3 DEF RequestOK, OnPair, Rotating, userVars, pairVars
    <2>5. QED
      BY <1>1, <2>3, <2>4, MovesKeep
  <1>4. CASE ~SessionOk(c)
    <2>1. FailConsume(p)
      BY <1>4 DEF Verify
    <2>2. PICK r \in Request : /\ Goto(p, r)
                               /\ r.pc = "idle" \/ (r.pc = "access" /\ r.tok = s.tok)
      BY <1>2, <2>1, FailConsumeMoves
    <2>3. RequestOK(r)'
      BY <1>1, <1>2, <2>2 DEF RequestOK, OnPair, Rotating, pairVars
    <2>4. QED
      BY <1>1, <2>2, <2>3, MovesKeep
  <1>5. QED
    BY <1>3, <1>4

\* browser_logout turns to the access cookie.
LEMMA BrowserLogoutAccessKeeps ==
    ASSUME Inv, NEW p \in Requests, NEW t \in Tokens, BrowserLogoutAccess(p, t) PROVE Inv'
  <1>1. t \in issued /\ claims[t].user \in Users
    BY DEF Inv, TypeOK, StoreOK, Claims, BrowserLogoutAccess
  <1>2. PICK r \in Request : Goto(p, r) /\ r.pc = "access" /\ r.tok = t
    <2> DEFINE x == [Idle EXCEPT !.pc = "access", !.kind = "browser_logout",
                                 !.user = claims[t].user, !.tok = t]
    <2>1. x \in Request /\ x.pc = "access" /\ x.tok = t
      BY <1>1, IdleType DEF Request, PCs, Kinds
    <2>2. Goto(p, x)
      BY DEF BrowserLogoutAccess
    <2> HIDE DEF x
    <2>3. QED
      BY <2>1, <2>2
  <1>3. UNCHANGED <<now, userVars, rowVars, pairVars, held, dead>>
    BY DEF BrowserLogoutAccess
  <1>4. RequestOK(r)'
    BY <1>1, <1>2, <1>3 DEF RequestOK, OnPair, Rotating, pairVars
  <1>5. QED
    BY <1>2, <1>3, <1>4, MovesKeep

\* verify_access_token of browser_logout.
LEMMA AccessCheckKeeps == ASSUME Inv, NEW p \in Requests, AccessCheck(p) PROVE Inv'
  <1>1. req[p] \in Request /\ req[p].tok \in issued
    BY DEF Inv, TypeOK, RequestOK, OnPair, AccessCheck
  <1>2. PICK r \in Request :
           /\ Goto(p, r)
           /\ r.pc = "idle" \/ (r.pc = "revoke_rows" /\ r.tok = req[p].tok)
    <2>1. CASE VerifyAccess(req[p].tok)
      <3> DEFINE x == [req[p] EXCEPT !.pc = "revoke_rows"]
      <3>1. x \in Request /\ x.pc = "revoke_rows" /\ x.tok = req[p].tok
        BY <1>1 DEF Request, PCs
      <3>2. Goto(p, x)
        BY <2>1 DEF AccessCheck
      <3> HIDE DEF x
      <3>3. QED
        BY <3>1, <3>2
    <2>2. CASE ~VerifyAccess(req[p].tok)
      BY <2>2, IdleType, IdleOK DEF AccessCheck
    <2>3. QED
      BY <2>1, <2>2
  <1>3. UNCHANGED <<now, userVars, rowVars, pairVars, held, dead>>
    BY DEF AccessCheck
  <1>4. RequestOK(r)'
    BY <1>1, <1>2, <1>3 DEF RequestOK, OnPair, Rotating, pairVars
  <1>5. QED
    BY <1>2, <1>3, <1>4, MovesKeep

\* The answer to a retry is a pair that exists.
LEMMA BrowserRetryKeeps ==
    ASSUME Inv, NEW p \in Requests, NEW t \in Tokens, BrowserRetry(p, t) PROVE Inv'
  <1>1. claims[t].user \in Users
    BY DEF Inv, TypeOK, Claims
  <1>2. PICK a \in RetryResults(t) :
           Goto(p, [Idle EXCEPT !.pc = "reply", !.kind = "browser_refresh",
                                !.user = claims[t].user, !.tok = a])
    BY DEF BrowserRetry
  <1>3. a \in Tokens /\ row[a] = "live"
    BY DEF RetryResults, Consumable
  <1>4. a \in issued
    BY <1>3 DEF Inv, StoreOK
  <1>5. PICK r \in Request : Goto(p, r) /\ r.pc = "reply" /\ r.tok = a
    <2> DEFINE x == [Idle EXCEPT !.pc = "reply", !.kind = "browser_refresh",
                                 !.user = claims[t].user, !.tok = a]
    <2>1. x \in Request /\ x.pc = "reply" /\ x.tok = a
      BY <1>1, <1>3, IdleType DEF Request, PCs, Kinds
    <2>2. Goto(p, x)
      BY <1>2
    <2> HIDE DEF x
    <2>3. QED
      BY <2>1, <2>2
  <1>6. UNCHANGED <<now, userVars, rowVars, pairVars, held, dead>>
    BY DEF BrowserRetry
  <1>7. RequestOK(r)'
    BY <1>4, <1>5, <1>6 DEF RequestOK, OnPair, Rotating, pairVars
  <1>8. QED
    BY <1>5, <1>6, <1>7, MovesKeep

\* A dropped request leaves no registers behind.
LEMMA AbortKeeps == ASSUME Inv, NEW p \in Requests, Abort(p) PROVE Inv'
  <1>1. PICK r \in Request : r = Idle
    BY IdleType
  <1>2. RequestOK(r)'
    BY <1>1, IdleOK DEF RequestOK, OnPair, Rotating
  <1>3. QED
    BY <1>1, <1>2, MovesKeep DEF Abort

-----------------------------------------------------------------------------
(* Actions that mint a pair *)

\* What InsertPair and the row it stores leave behind.
LEMMA InsertData ==
    ASSUME Inv, NEW n \in Tokens, NEW u \in Users, NEW exp \in Nat, NEW ver \in Nat,
           NEW auth \in Nat, NEW from \in Tokens, NEW g \in Nat,
           InsertPair(n, u, exp, ver, auth, from, g)
    PROVE  /\ claims' \in [Tokens -> Claims]
           /\ issued' \subseteq Tokens
           /\ issued \subseteq issued'
           /\ n \in issued'
           /\ origin' \in [Tokens -> Tokens]
           /\ gen' \in [Tokens -> Nat]
  <1>1. [user |-> u, iat |-> now, exp |-> Lesser(now + AccessLifetime, exp),
         session_exp |-> exp, session_version |-> ver, auth_time |-> auth] \in Claims
    BY ConstantsAssumption DEF Inv, TypeOK, Claims, Lesser
  <1>2. QED
    BY <1>1 DEF InsertPair, Inv, TypeOK

\* The INSERT of a login or a strict refresh: the registers still describe the
\* login, also when it has been revoked since they were read.
LEMMA IssueKeeps == ASSUME Inv, NEW p \in Requests, Issue(p) PROVE Inv'
  <1> DEFINE s == req[p]
  <1>1. /\ s \in Request /\ s.user \in Users /\ s.ver \in Nat /\ s.exp \in Nat
        /\ s.auth \in Nat /\ s.gen \in Nat /\ s.pc = "issue"
        /\ s.ver <= token_version[s.user]
        /\ IssuedVersion(p) = s.ver
    BY DEF Inv, TypeOK, Request, RequestOK, Issue, IssuedVersion
  <1>2. UNCHANGED <<now, userVars, retry_until, retry_pair, held, dead>>
    BY DEF Issue
  <1>3. CASE s.exp > now
    <2>1. PICK n \in Tokens :
             /\ InsertPair(n, s.user, s.exp, s.ver, s.auth,
                           IF s.kind = "login" THEN n ELSE origin[s.tok], s.gen)
             /\ row' = [row EXCEPT ![n] = "live"]
             /\ Goto(p, [s EXCEPT !.pc = "reply", !.tok = n])
      BY <1>1, <1>3 DEF Issue
    <2> DEFINE from == IF s.kind = "login" THEN n ELSE origin[s.tok]
    <2>2. /\ from \in Tokens
          /\ \/ from = n
             \/ /\ from \in issued
                /\ claims[from].user = s.user
                /\ claims[from].session_exp = s.exp
                /\ claims[from].auth_time = s.auth
                /\ from \in dead => s.ver < token_version[s.user]
      <3>1. CASE s.kind = "login"
        BY <3>1
      <3>2. CASE s.kind # "login"
        <4>1. RequestOK(s) /\ Rotating(s) /\ OnPair(s) /\ s.tok \in issued /\ PairOK(s.tok)
          BY <1>1, <3>2 DEF Inv, RequestOK, Rotating, OnPair
        <4>2. issued \subseteq Tokens
          BY DEF Inv, TypeOK
        <4>3. QED
          BY <3>2, <4>1, <4>2 DEF RequestOK, PairOK
      <3>3. QED
        BY <3>1, <3>2
    <2>3. InsertPair(n, s.user, s.exp, s.ver, s.auth, from, s.gen)
      BY <2>1
    <2>4. UNCHANGED <<token_version, dead>>
      BY <1>2 DEF userVars
    <2> HIDE DEF from
    <2>5. /\ \A r \in Request : RequestOK(r) => RequestOK(r)'
          /\ \A t \in issued' : PairOK(t)'
      BY <1>1, <2>2, <2>3, <2>4, InsertKeeps
    <2>6. /\ claims' \in [Tokens -> Claims] /\ issued' \subseteq Tokens
          /\ issued \subseteq issued' /\ n \in issued'
          /\ origin' \in [Tokens -> Tokens] /\ gen' \in [Tokens -> Nat]
      BY <1>1, <2>2, <2>3, InsertData
    <2>7. DataType'
      BY <1>2, <2>1, <2>6 DEF DataType, Inv, TypeOK, userVars
    <2>8. StoreOK'
      BY <1>2, <2>1, <2>6 DEF StoreOK, Inv, TypeOK
    <2>9. PICK r \in Request : Goto(p, r) /\ r.pc = "reply" /\ r.tok = n
      <3> DEFINE x == [s EXCEPT !.pc = "reply", !.tok = n]
      <3>1. x \in Request /\ x.pc = "reply" /\ x.tok = n
        BY <1>1 DEF Request, PCs
      <3>2. Goto(p, x)
        BY <2>1
      <3> HIDE DEF x
      <3>3. QED
        BY <3>1, <3>2
    <2>10. RequestOK(r)'
      BY <2>6, <2>9 DEF RequestOK, OnPair, Rotating
    <2>11. QED
      BY <2>5, <2>7, <2>8, <2>9, <2>10, MoveKeeps
  <1>4. CASE ~(s.exp > now)
    <2>1. Goto(p, Idle) /\ UNCHANGED <<now, userVars, rowVars, pairVars, held, dead>>
      BY <1>2, <1>4 DEF Issue, rowVars
    <2>2. PICK r \in Request : r = Idle
      BY IdleType
    <2>3. RequestOK(r)'
      BY <2>2, IdleOK DEF RequestOK, OnPair, Rotating
    <2>4. QED
      BY <2>1, <2>2, <2>3, MovesKeep
  <1>5. QED
    BY <1>3, <1>4

\* The INSERT of a passkey login uses the current version.
LEMMA PasskeyLoginKeeps ==
    ASSUME Inv, NEW p \in Requests, NEW u \in Users, PasskeyLogin(p, u) PROVE Inv'
  <1>1. /\ now \in Nat /\ now + session_expiry \in Nat /\ token_version[u] \in Nat
        /\ password[u] \in Nat
    BY ConstantsAssumption DEF Inv, TypeOK
  <1>2. UNCHANGED <<now, userVars, retry_until, retry_pair, held, dead>>
    BY DEF PasskeyLogin
  <1>3. PICK n \in Tokens :
           /\ InsertPair(n, u, now + session_expiry, token_version[u], now, n, password[u])
           /\ row' = [row EXCEPT ![n] = "live"]
           /\ Goto(p, [Idle EXCEPT !.pc = "reply", !.kind = "login", !.user = u, !.tok = n])
    BY DEF PasskeyLogin
  <1>4. UNCHANGED <<token_version, dead>> /\ token_version[u] <= token_version[u]
    BY <1>1, <1>2 DEF userVars
  <1>5. /\ \A r \in Request : RequestOK(r) => RequestOK(r)'
        /\ \A t \in issued' : PairOK(t)'
    BY <1>1, <1>3, <1>4, InsertKeeps
  <1>6. /\ claims' \in [Tokens -> Claims] /\ issued' \subseteq Tokens
        /\ issued \subseteq issued' /\ n \in issued'
        /\ origin' \in [Tokens -> Tokens] /\ gen' \in [Tokens -> Nat]
    BY <1>1, <1>3, InsertData
  <1>7. DataType' /\ StoreOK'
    BY <1>2, <1>3, <1>6 DEF DataType, StoreOK, Inv, TypeOK, userVars
  <1>8. PICK r \in Request : Goto(p, r) /\ r.pc = "reply" /\ r.tok = n
    <2> DEFINE x == [Idle EXCEPT !.pc = "reply", !.kind = "login", !.user = u, !.tok = n]
    <2>1. x \in Request /\ x.pc = "reply" /\ x.tok = n
      BY IdleType DEF Request, PCs, Kinds
    <2>2. Goto(p, x)
      BY <1>3
    <2> HIDE DEF x
    <2>3. QED
      BY <2>1, <2>2
  <1>9. RequestOK(r)'
    BY <1>6, <1>8 DEF RequestOK, OnPair, Rotating
  <1>10. QED
    BY <1>5, <1>7, <1>8, <1>9, MoveKeeps

\* The INSERT of a browser refresh follows its verification in one transaction.
LEMMA BrowserRotateKeeps ==
    ASSUME Inv, NEW p \in Requests, NEW t \in Tokens, BrowserRotate(p, t) PROVE Inv'
  <1> DEFINE c == claims[t]
             ver == PinnedVersion(c, token_version[c.user])
  <1>1. /\ t \in issued /\ c \in Claims /\ PairOK(t)
        /\ token_version[c.user] \in Nat /\ gen[t] \in Nat
    BY DEF Inv, TypeOK, StoreOK, BrowserRotate, Claims
  <1>2. /\ c.user \in Users /\ c.auth_time \in Nat
        /\ RotatedDeadline(c) = c.session_exp /\ c.session_exp \in Nat
        /\ ver \in Nat /\ ver <= token_version[c.user]
    BY <1>1 DEF Claims, RotatedDeadline, PinnedVersion, PairOK, NoVersion
  <1>3. origin[t] \notin dead /\ origin[t] \in issued /\ origin[t] \in Tokens
    BY <1>1, <1>2 DEF BrowserRotate, SessionOk, PairOK, Claims, NoVersion, Inv, TypeOK
  <1>4. UNCHANGED <<now, userVars, held, dead>>
    BY DEF BrowserRotate
  <1>5. PICK n \in Tokens :
           /\ InsertPair(n, c.user, RotatedDeadline(c), ver, c.auth_time, origin[t], gen[t])
           /\ row' = [row EXCEPT ![n] = "live", ![t] = "revoked"]
           /\ SaveRetry(t, n)
           /\ Goto(p, [Idle EXCEPT !.pc = "reply", !.kind = "browser_refresh",
                                   !.user = c.user, !.tok = n])
    BY DEF BrowserRotate
  <1> HIDE DEF ver
  <1>6. InsertPair(n, c.user, c.session_exp, ver, c.auth_time, origin[t], gen[t])
    BY <1>2, <1>5
  <1>7. /\ claims[origin[t]].user = c.user
        /\ claims[origin[t]].session_exp = c.session_exp
        /\ claims[origin[t]].auth_time = c.auth_time
    BY <1>1 DEF PairOK
  <1>8. UNCHANGED <<token_version, dead>>
    BY <1>4 DEF userVars
  <1>9. /\ \A r \in Request : RequestOK(r) => RequestOK(r)'
        /\ \A s \in issued' : PairOK(s)'
    BY <1>1, <1>2, <1>3, <1>6, <1>7, <1>8, InsertKeeps
  <1>10. /\ claims' \in [Tokens -> Claims] /\ issued' \subseteq Tokens
         /\ issued \subseteq issued' /\ n \in issued'
         /\ origin' \in [Tokens -> Tokens] /\ gen' \in [Tokens -> Nat]
    BY <1>1, <1>2, <1>3, <1>6, InsertData
  <1>11. /\ retry_until' \in [Tokens -> Nat]
         /\ retry_pair' \in [Tokens -> Tokens \cup {NoToken}]
         /\ row' \in [Tokens -> {"absent", "live", "revoked"}]
    BY <1>5, ConstantsAssumption DEF SaveRetry, Inv, TypeOK
  <1>12. DataType'
    BY <1>4, <1>10, <1>11 DEF DataType, Inv, TypeOK, userVars
  <1>13. StoreOK'
    BY <1>1, <1>4, <1>5, <1>10 DEF StoreOK, SaveRetry, Inv, TypeOK
  <1>14. PICK r \in Request : Goto(p, r) /\ r.pc = "reply" /\ r.tok = n
    <2> DEFINE x == [Idle EXCEPT !.pc = "reply", !.kind = "browser_refresh",
                                 !.user = c.user, !.tok = n]
    <2>1. x \in Request /\ x.pc = "reply" /\ x.tok = n
      BY <1>2, IdleType DEF Request, PCs, Kinds
    <2>2. Goto(p, x)
      BY <1>5
    <2> HIDE DEF x
    <2>3. QED
      BY <2>1, <2>2
  <1>15. RequestOK(r)'
    BY <1>10, <1>14 DEF RequestOK, OnPair, Rotating
  <1>16. QED
    BY <1>9, <1>12, <1>13, <1>14, <1>15, MoveKeeps

-----------------------------------------------------------------------------
(* Actions that change rows or deliver a pair *)

\* A client only receives pairs that exist.
LEMMA ReplyKeeps == ASSUME Inv, NEW p \in Requests, Reply(p) PROVE Inv'
  <1>1. req[p].tok \in issued
    BY DEF Inv, RequestOK, OnPair, Reply
  <1>2. UNCHANGED <<now, userVars, rowVars, pairVars, dead>> /\ Goto(p, Idle)
    BY DEF Reply
  <1>3. held' \subseteq issued
    BY <1>1 DEF Reply, Inv, StoreOK
  <1>4. Same /\ DataType' /\ StoreOK'
    BY <1>2, <1>3 DEF Same, DataType, StoreOK, Inv, TypeOK, userVars, rowVars, pairVars
  <1>5. PICK r \in Request : r = Idle
    BY IdleType
  <1>6. RequestOK(r)'
    BY <1>5, IdleOK DEF RequestOK, OnPair, Rotating
  <1>7. QED
    BY <1>2, <1>4, <1>5, <1>6, SameKeeps, MoveKeeps

\* Consuming a row moves no version and no pair.
LEMMA ConsumeKeeps == ASSUME Inv, NEW p \in Requests, Consume(p) PROVE Inv'
  <1> DEFINE s == req[p]
  <1>1. /\ s \in Request /\ s.pc = "consume" /\ RequestOK(s) /\ OnPair(s)
        /\ s.tok \in issued /\ s.tok \in Tokens /\ s.user \in Users
    BY DEF Inv, TypeOK, Request, RequestOK, OnPair, Consume
  <1>2. UNCHANGED <<now, userVars, retry_until, retry_pair, pairVars, held, dead>>
    BY DEF Consume
  <1>3. PICK r \in Request : /\ Goto(p, r)
                             /\ r.pc \in {"issue", "bump", "revoke_rows", "replay"}
                             /\ r.pc = "issue" => r.kind = "refresh"
                             /\ r.user = s.user /\ r.tok = s.tok /\ r.ver = s.ver
                             /\ r.exp = s.exp /\ r.auth = s.auth
    <2>1. CASE Consumable(s.tok)
      <3> DEFINE next == CASE s.kind = "refresh" -> "issue"
                           [] s.kind = "logout" -> "bump"
                           [] OTHER -> "revoke_rows"
                 x == [s EXCEPT !.pc = next]
      <3>1. /\ next \in {"issue", "bump", "revoke_rows"}
            /\ next = "issue" => s.kind = "refresh"
        OBVIOUS
      <3>2. Goto(p, x)
        BY <2>1 DEF Consume
      <3> HIDE DEF next
      <3>3. /\ x \in Request /\ x.pc = next /\ x.kind = s.kind /\ x.user = s.user
            /\ x.tok = s.tok /\ x.ver = s.ver /\ x.exp = s.exp /\ x.auth = s.auth
        BY <1>1, <3>1 DEF Request, PCs
      <3> HIDE DEF x
      <3>4. QED
        BY <3>1, <3>2, <3>3
    <2>2. CASE ~Consumable(s.tok)
      <3> DEFINE x == [s EXCEPT !.pc = "replay", !.failed = TRUE]
      <3>1. /\ x \in Request /\ x.pc = "replay" /\ x.user = s.user
            /\ x.tok = s.tok /\ x.ver = s.ver /\ x.exp = s.exp /\ x.auth = s.auth
        BY <1>1 DEF Request, PCs
      <3>2. Goto(p, x)
        BY <2>2 DEF Consume
      <3> HIDE DEF x
      <3>3. QED
        BY <3>1, <3>2
    <2>3. QED
      BY <2>1, <2>2
  <1>4. row' = row \/ row' = [row EXCEPT ![s.tok] = "revoked"]
    BY DEF Consume
  <1>5. Same /\ DataType' /\ StoreOK'
    BY <1>1, <1>2, <1>4 DEF Same, DataType, StoreOK, Inv, TypeOK, userVars, pairVars
  <1>6. RequestOK(r)'
    BY <1>1, <1>2, <1>3 DEF RequestOK, OnPair, Rotating, userVars, pairVars
  <1>7. QED
    BY <1>3, <1>5, <1>6, SameKeeps, MoveKeeps

\* revoke_all_user_tokens writes rows that exist.
LEMMA RevokedRowsStored ==
    ASSUME Inv, NEW u \in Users
    PROVE  /\ RevokedRows(u) \in [Tokens -> {"absent", "live", "revoked"}]
           /\ \A t \in Tokens \ issued : RevokedRows(u)[t] = "absent"
  BY DEF RevokedRows, Inv, TypeOK, StoreOK

\* Revoking the rows of a replayed token moves no version and no pair.
LEMMA ReplayKeeps == ASSUME Inv, NEW p \in Requests, Replay(p) PROVE Inv'
  <1> DEFINE s == req[p]
  <1>1. s \in Request /\ s.tok \in issued /\ s.user \in Users
    BY DEF Inv, TypeOK, Request, RequestOK, OnPair, Replay
  <1>2. UNCHANGED <<now, userVars, retry_until, retry_pair, pairVars, held, dead>>
    BY DEF Replay
  <1>3. PICK r \in Request : /\ Goto(p, r)
                             /\ r.pc = "idle" \/ (r.pc \in {"access", "bump"} /\ r.tok = s.tok)
    <2>1. CASE row[s.tok] = "absent"
      BY <1>1, <2>1, FailConsumeMoves DEF Replay
    <2>2. CASE row[s.tok] # "absent"
      <3> DEFINE x == [s EXCEPT !.pc = "bump"]
      <3>1. x \in Request /\ x.pc = "bump" /\ x.tok = s.tok
        BY <1>1 DEF Request, PCs
      <3>2. Goto(p, x)
        BY <2>2 DEF Replay
      <3> HIDE DEF x
      <3>3. QED
        BY <3>1, <3>2
    <2>3. QED
      BY <2>1, <2>2
  <1>4. row' = row \/ row' = RevokedRows(s.user)
    BY DEF Replay
  <1>5. Same /\ DataType' /\ StoreOK'
    BY <1>1, <1>2, <1>4, RevokedRowsStored
    DEF Same, DataType, StoreOK, Inv, TypeOK, userVars, pairVars
  <1>6. RequestOK(r)'
    BY <1>1, <1>2, <1>3 DEF RequestOK, OnPair, Rotating, pairVars
  <1>7. QED
    BY <1>3, <1>5, <1>6, SameKeeps, MoveKeeps

\* The first statement of revoke_all_user_tokens.
LEMMA RevokeRowsKeeps == ASSUME Inv, NEW p \in Requests, RevokeRows(p) PROVE Inv'
  <1> DEFINE s == req[p]
  <1>1. s \in Request /\ s.tok \in issued /\ s.user \in Users
    BY DEF Inv, TypeOK, Request, RequestOK, OnPair, RevokeRows
  <1>2. UNCHANGED <<now, userVars, retry_until, retry_pair, pairVars, held, dead>>
    BY DEF RevokeRows
  <1> DEFINE x == [s EXCEPT !.pc = "bump"]
  <1>3. x \in Request /\ x.pc = "bump" /\ x.tok = s.tok
    BY <1>1 DEF Request, PCs
  <1>4. Goto(p, x) /\ row' = RevokedRows(s.user)
    BY DEF RevokeRows
  <1> HIDE DEF x
  <1>5. Same /\ DataType' /\ StoreOK'
    BY <1>1, <1>2, <1>4, RevokedRowsStored
    DEF Same, DataType, StoreOK, Inv, TypeOK, userVars, pairVars
  <1>6. PICK r \in Request : r = x
    BY <1>3
  <1>7. RequestOK(r)'
    BY <1>1, <1>2, <1>3, <1>6 DEF RequestOK, OnPair, Rotating, pairVars
  <1>8. QED
    BY <1>4, <1>5, <1>6, <1>7, SameKeeps, MoveKeeps

\* The sweep only removes rows and retry pairs.
LEMMA SweepKeeps == ASSUME Inv, Sweep PROVE Inv'
  <1>1. /\ row' \in [Tokens -> {"absent", "live", "revoked"}]
        /\ retry_pair' \in [Tokens -> Tokens \cup {NoToken}]
        /\ \A t \in Tokens \ issued : row'[t] = "absent" /\ retry_pair'[t] = NoToken
    BY DEF Sweep, Inv, TypeOK, StoreOK
  <1>2. UNCHANGED <<now, userVars, retry_until, pairVars, held, req, dead>>
    BY DEF Sweep
  <1>3. Same /\ DataType' /\ StoreOK'
    BY <1>1, <1>2 DEF Same, DataType, StoreOK, Inv, TypeOK, userVars, pairVars
  <1>4. QED
    BY <1>2, <1>3, SameKeeps, MoveKeeps

-----------------------------------------------------------------------------
(* Actions that revoke a user's credentials, and the rest of the server *)

\* The version of a logout or a detected replay.
LEMMA BumpKeeps == ASSUME Inv, NEW p \in Requests, Bump(p) PROVE Inv'
  <1> DEFINE s == req[p]
  <1>1. s \in Request /\ s.tok \in issued /\ s.user \in Users
    BY DEF Inv, TypeOK, Request, RequestOK, OnPair, Bump
  <1>2. UNCHANGED <<now, active, password, session_expiry, rowVars, pairVars, held>>
    BY DEF Bump
  <1>3. RevokeAccess(s.user) /\ UNCHANGED <<claims, issued, origin>>
    BY <1>2 DEF Bump, pairVars
  <1>4. /\ \A r \in Request : RequestOK(r) => RequestOK(r)'
        /\ \A t \in issued' : PairOK(t)'
        /\ dead' \subseteq issued
        /\ token_version' \in [Users -> Nat]
        /\ revoked_before' \in [Users -> Int]
    BY <1>1, <1>3, RevokeKeeps
  <1>5. DataType' /\ StoreOK'
    BY <1>2, <1>4 DEF DataType, StoreOK, Inv, TypeOK, rowVars, pairVars
  <1>6. PICK r \in Request : /\ Goto(p, r)
                             /\ r.pc = "idle" \/ (r.pc = "access" /\ r.tok = s.tok)
    <2>1. CASE s.failed
      BY <1>1, <2>1, FailConsumeMoves DEF Bump
    <2>2. CASE ~s.failed
      BY <2>2, IdleType, IdleOK DEF Bump
    <2>3. QED
      BY <2>1, <2>2
  <1>7. RequestOK(r)'
    BY <1>1, <1>2, <1>6 DEF RequestOK, OnPair, Rotating, pairVars
  <1>8. QED
    BY <1>4, <1>5, <1>6, <1>7, MoveKeeps

\* Revocations that are one step of their own.
LEMMA RevocationsKeep ==
    ASSUME Inv, NEW u \in Users, RevokeAccess(u),
           password' \in [Users -> Nat], row' = row \/ row' = RevokedRows(u),
           UNCHANGED <<now, active, session_expiry, retry_until, retry_pair, pairVars,
                       held, req>>
    PROVE  Inv'
  <1>1. UNCHANGED <<claims, issued, origin>>
    BY DEF pairVars
  <1>2. /\ \A r \in Request : RequestOK(r) => RequestOK(r)'
        /\ \A t \in issued' : PairOK(t)'
        /\ dead' \subseteq issued
        /\ token_version' \in [Users -> Nat]
        /\ revoked_before' \in [Users -> Int]
    BY <1>1, RevokeKeeps
  <1>3. DataType' /\ StoreOK'
    BY <1>2, RevokedRowsStored DEF DataType, StoreOK, Inv, TypeOK, pairVars
  <1>4. QED
    BY <1>2, <1>3, MoveKeeps

\* A replay detected by a browser refresh.
LEMMA BrowserReplayKeeps == ASSUME Inv, NEW t \in Tokens, BrowserReplay(t) PROVE Inv'
  <1>1. claims[t].user \in Users /\ password \in [Users -> Nat]
    BY DEF Inv, TypeOK, Claims
  <1>2. QED
    BY <1>1, RevocationsKeep DEF BrowserReplay

\* A password change.
LEMMA ChangePasswordKeeps == ASSUME Inv, NEW u \in Users, ChangePassword(u) PROVE Inv'
  <1>1. password' \in [Users -> Nat]
    BY DEF ChangePassword, Inv, TypeOK
  <1>2. QED
    BY <1>1, RevocationsKeep DEF ChangePassword

\* A role change.
LEMMA RoleChangeKeeps == ASSUME Inv, NEW u \in Users, RoleChange(u) PROVE Inv'
  <1>1. password' \in [Users -> Nat]
    BY DEF RoleChange, Inv, TypeOK
  <1>2. QED
    BY <1>1, RevocationsKeep DEF RoleChange, rowVars

\* set_active, update_settings, the clock, and steps outside this system.
LEMMA OthersKeep ==
    ASSUME Inv,
           \/ \E u \in Users : SetActive(u)
           \/ \E e \in SessionExpiries : UpdateSettings(e)
           \/ Tick
           \/ UNCHANGED vars
    PROVE  Inv'
  <1>1. UNCHANGED <<token_version, password, revoked_before, rowVars, pairVars, held, req, dead>>
    BY DEF SetActive, UpdateSettings, Tick, vars, userVars
  <1>2. active' \in [Users -> BOOLEAN] /\ session_expiry' \in SessionExpiries /\ now' \in Nat
    <2>1. active \in [Users -> BOOLEAN] /\ session_expiry \in SessionExpiries /\ now \in Nat
      BY DEF Inv, TypeOK
    <2>2. ASSUME NEW u \in Users, SetActive(u) PROVE active' \in [Users -> BOOLEAN]
      BY <2>1, <2>2, Zenon DEF SetActive
    <2>3. QED
      BY <2>1, <2>2 DEF SetActive, UpdateSettings, Tick, vars, userVars
  <1>3. Same /\ DataType' /\ StoreOK'
    BY <1>1, <1>2 DEF Same, DataType, StoreOK, Inv, TypeOK, rowVars, pairVars
  <1>4. QED
    BY <1>1, <1>3, SameKeeps, MoveKeeps

-----------------------------------------------------------------------------
(* Theorems *)

\* The initial state: no requests, legacy pairs that are their own logins.
LEMMA InitInv == Init => Inv
  <1> SUFFICES ASSUME Init PROVE Inv
    OBVIOUS
  <1>1. AnyUser \in Users
    BY ConstantsAssumption DEF AnyUser
  <1>2. \A t \in Tokens : claims[t] \in Claims
    BY <1>1, ConstantsAssumption DEF Init, Claims, Lesser, NoVersion
  <1>3. TypeOK
    BY <1>1, <1>2, IdleType, ConstantsAssumption DEF Init, TypeOK
  <1>4. StoreOK
    BY ConstantsAssumption DEF Init, StoreOK
  <1>5. ASSUME NEW t \in issued PROVE PairOK(t)
    BY <1>1, <1>5, ConstantsAssumption DEF Init, PairOK, Lesser, NoVersion
  <1>6. ASSUME NEW p \in Requests PROVE RequestOK(req[p])
    <2>1. req[p] = Idle /\ Idle.pc = "idle"
      BY DEF Init, Idle
    <2>2. QED
      BY <2>1 DEF RequestOK, OnPair, Rotating
  <1>7. QED
    BY <1>3, <1>4, <1>5, <1>6 DEF Inv

\* Every step preserves Inv.
LEMMA StepInv == Inv /\ [Next]_vars => Inv'
  <1> SUFFICES ASSUME Inv, [Next]_vars PROVE Inv'
    OBVIOUS
  <1>1. ASSUME NEW p \in Requests, RequestStart(p) PROVE Inv'
    BY <1>1, LoginCheckKeeps, PasskeyLoginKeeps, PresentKeeps, BrowserLogoutAccessKeeps,
       BrowserRetryKeeps, BrowserRotateKeeps
    DEF RequestStart
  <1>2. ASSUME NEW p \in Requests, RequestStep(p) PROVE Inv'
    BY <1>2, LoginVersionKeeps, IssueKeeps, ReplyKeeps, VerifyKeeps, ConsumeKeeps,
       ReplayKeeps, AccessCheckKeeps, RevokeRowsKeeps, BumpKeeps
    DEF RequestStep
  <1>3. ASSUME NEW u \in Users, ChangePassword(u) \/ RoleChange(u) \/ SetActive(u) PROVE Inv'
    BY <1>3, ChangePasswordKeeps, RoleChangeKeeps, OthersKeep
  <1>4. CASE UNCHANGED vars \/ Tick \/ \E e \in SessionExpiries : UpdateSettings(e)
    BY <1>4, OthersKeep
  <1>5. QED
    BY <1>1, <1>2, <1>3, <1>4, AbortKeeps, BrowserReplayKeeps, SweepKeeps DEF Next

\* Every state of the sessions is well typed, and every register of every
\* request in flight means what its handler takes it to mean.
THEOREM Invariance == Spec => []Inv
  BY InitInv, StepInv, PTL DEF Spec

\* The sessions' state is well typed.
THEOREM TypeCorrect == Spec => []TypeOK
  <1>1. Inv => TypeOK
    BY DEF Inv
  <1>2. QED
    BY <1>1, Invariance, PTL

\* A login that was revoked never comes back, whatever was in flight when
\* revoke_user_access_tokens ran.
THEOREM RevocationIsFinal == Spec => []RevokedSessionsStayDead
  <1>1. Inv => RevokedSessionsStayDead
    BY DEF Inv, TypeOK, Claims, PairOK, RevokedSessionsStayDead, SessionOk, NoVersion
  <1>2. QED
    BY <1>1, Invariance, PTL

\* Refreshing never moves a session's deadline or authentication time, and no
\* access token outlives the deadline.
THEOREM DeadlineIsFixed == Spec => []DeadlineFixedAtLogin
  <1>1. Inv => DeadlineFixedAtLogin
    BY DEF Inv, TypeOK, Claims, PairOK, DeadlineFixedAtLogin
  <1>2. QED
    BY <1>1, Invariance, PTL

-----------------------------------------------------------------------------
(* Refresh tokens are single use.                                            *)
(*                                                                           *)
(* A login has at most one unrevoked refresh token OR one request that has   *)
(* consumed its token and not yet inserted the replacement: the right to     *)
(* refresh is handed from the row to the request and back.                   *)

LiveInv ==
    /\ OneLiveCredentialPerLogin
    /\ \A t \in issued, p \in Requests :
          row[t] = "live" /\ Rotating(req[p]) => origin[t] # origin[req[p].tok]
    /\ \A p, q \in Requests :
          p # q /\ Rotating(req[p]) /\ Rotating(req[q])
             => origin[req[p].tok] # origin[req[q].tok]

\* No row comes alive and no request starts to rotate.
Quiet ==
    /\ UNCHANGED <<issued, origin>>
    /\ \A t \in issued : row'[t] = "live" => row[t] = "live"
    /\ \A p \in Requests : Rotating(req[p])' => req'[p] = req[p]

\* A quiet step preserves LiveInv.
LEMMA QuietKeeps == ASSUME Inv, LiveInv, Quiet PROVE LiveInv'
  <1>1. \A p \in Requests : Rotating(req[p])' => Rotating(req[p]) /\ req'[p] = req[p]
    BY DEF Quiet, Rotating
  <1>2. QED
    BY <1>1 DEF LiveInv, Quiet, OneLiveCredentialPerLogin

\* A request that moves to a state in which it is not rotating.
LEMMA MoveIsQuiet ==
    ASSUME Inv, NEW p \in Requests, NEW x, Goto(p, x), ~Rotating(x)
    PROVE  \A q \in Requests : Rotating(req[q])' => q # p /\ req'[q] = req[q]
  BY DEF Goto, Inv, TypeOK, Rotating

\* An idle request is not rotating.
LEMMA IdleQuiet == ~Rotating(Idle)
  BY DEF Idle, Rotating

\* Nor is one whose refresh token was refused.
LEMMA FailConsumeQuiet ==
    ASSUME Inv, NEW p \in Requests, FailConsume(p)
    PROVE  \A q \in Requests : Rotating(req[q])' => q # p /\ req'[q] = req[q]
  <1>1. req[p] \in Request
    BY DEF Inv, TypeOK
  <1>2. PICK r \in Request : Goto(p, r) /\ r.pc \in {"idle", "access"}
    BY <1>1, FailConsumeMoves
  <1>3. ~Rotating(r)
    BY <1>2 DEF Rotating
  <1>4. QED
    BY <1>2, <1>3, MoveIsQuiet

\* The first statement of a handler that mints nothing.
LEMMA StartsAreQuiet ==
    ASSUME Inv, NEW p \in Requests,
           \/ \E u \in Users : LoginCheck(p, u)
           \/ \E t \in Tokens :
                 \/ \E k \in {"refresh", "logout", "browser_logout"} : Present(p, t, k)
                 \/ BrowserLogoutAccess(p, t)
                 \/ BrowserRetry(p, t)
           \/ Abort(p)
    PROVE  Quiet
  <1>1. UNCHANGED <<issued, origin, row>>
    BY DEF LoginCheck, Present, BrowserLogoutAccess, BrowserRetry, Abort, pairVars, rowVars
  <1>2. ASSUME NEW u \in Users, LoginCheck(p, u) PROVE Quiet
    <2> DEFINE x == [Idle EXCEPT !.pc = "version", !.kind = "login", !.user = u,
                                 !.gen = password[u]]
    <2>1. x.pc = "version"
      BY IdleType DEF Request
    <2>2. Goto(p, x)
      BY <1>2 DEF LoginCheck
    <2> HIDE DEF x
    <2>3. QED
      BY <1>1, <2>1, <2>2, MoveIsQuiet DEF Quiet, Rotating
  <1>3. ASSUME NEW t \in Tokens, NEW k \in {"refresh", "logout", "browser_logout"},
               Present(p, t, k)
        PROVE  Quiet
    <2> DEFINE x == [Idle EXCEPT !.pc = "verify", !.kind = k, !.user = claims[t].user,
                                 !.tok = t, !.ver = token_version[claims[t].user]]
    <2>1. x.pc = "verify"
      BY IdleType DEF Request
    <2>2. Goto(p, x)
      BY <1>3 DEF Present
    <2> HIDE DEF x
    <2>3. QED
      BY <1>1, <2>1, <2>2, MoveIsQuiet DEF Quiet, Rotating
  <1>4. ASSUME NEW t \in Tokens, BrowserLogoutAccess(p, t) PROVE Quiet
    <2> DEFINE x == [Idle EXCEPT !.pc = "access", !.kind = "browser_logout",
                                 !.user = claims[t].user, !.tok = t]
    <2>1. x.pc = "access"
      BY IdleType DEF Request
    <2>2. Goto(p, x)
      BY <1>4 DEF BrowserLogoutAccess
    <2> HIDE DEF x
    <2>3. QED
      BY <1>1, <2>1, <2>2, MoveIsQuiet DEF Quiet, Rotating
  <1>5. ASSUME NEW t \in Tokens, BrowserRetry(p, t) PROVE Quiet
    <2>1. PICK a \in RetryResults(t) :
             Goto(p, [Idle EXCEPT !.pc = "reply", !.kind = "browser_refresh",
                                  !.user = claims[t].user, !.tok = a])
      BY <1>5 DEF BrowserRetry
    <2> DEFINE x == [Idle EXCEPT !.pc = "reply", !.kind = "browser_refresh",
                                 !.user = claims[t].user, !.tok = a]
    <2>2. x.pc = "reply"
      BY IdleType DEF Request
    <2>3. Goto(p, x)
      BY <2>1
    <2> HIDE DEF x
    <2>4. QED
      BY <1>1, <2>2, <2>3, MoveIsQuiet DEF Quiet, Rotating
  <1>6. CASE Abort(p)
    BY <1>1, <1>6, IdleQuiet, MoveIsQuiet DEF Quiet, Abort
  <1>7. QED
    BY <1>2, <1>3, <1>4, <1>5, <1>6

\* The later statements that neither mint nor consume.
LEMMA StepsAreQuiet ==
    ASSUME Inv, NEW p \in Requests,
           \/ LoginVersion(p) \/ Reply(p) \/ Verify(p) \/ Replay(p)
           \/ AccessCheck(p) \/ RevokeRows(p) \/ Bump(p)
    PROVE  Quiet
  <1> DEFINE s == req[p]
  <1>1. s \in Request
    BY DEF Inv, TypeOK
  <1>2. UNCHANGED <<issued, origin>>
    BY DEF LoginVersion, Reply, Verify, Replay, AccessCheck, RevokeRows, Bump, pairVars
  <1>3. \A t \in issued : row'[t] = "live" => row[t] = "live"
    BY DEF LoginVersion, Reply, Verify, Replay, AccessCheck, RevokeRows, Bump, rowVars,
           RevokedRows, Inv, TypeOK
  <1>4. ASSUME NEW x, Goto(p, x), ~Rotating(x) PROVE Quiet
    BY <1>2, <1>3, <1>4, MoveIsQuiet DEF Quiet
  <1>5. CASE FailConsume(p) \/ Goto(p, Idle)
    BY <1>2, <1>3, <1>5, IdleQuiet, MoveIsQuiet, FailConsumeQuiet DEF Quiet
  <1>6. CASE LoginVersion(p) /\ active[s.user]
    <2> DEFINE x == [s EXCEPT !.pc = "issue", !.exp = now + session_expiry,
                              !.ver = token_version[s.user], !.auth = now]
    <2>1. s.kind = "login"
      BY <1>6 DEF LoginVersion, Inv, RequestOK
    <2>2. x.kind = "login"
      BY <1>1, <2>1 DEF Request
    <2>3. Goto(p, x)
      BY <1>6 DEF LoginVersion
    <2> HIDE DEF x
    <2>4. QED
      BY <1>4, <2>2, <2>3 DEF Rotating
  <1>7. CASE Verify(p) /\ SessionOk(claims[s.tok])
    <2> DEFINE c == claims[s.tok]
    <2> DEFINE x == [s EXCEPT !.pc = "consume", !.exp = RotatedDeadline(c),
                              !.auth = c.auth_time, !.gen = gen[s.tok],
                              !.ver = PinnedVersion(c, s.ver)]
    <2>1. x.pc = "consume"
      BY <1>1 DEF Request
    <2>2. Goto(p, x)
      BY <1>7 DEF Verify
    <2> HIDE DEF x
    <2>3. QED
      BY <1>4, <2>1, <2>2 DEF Rotating
  <1>8. CASE Goto(p, [s EXCEPT !.pc = "bump"])
    <2> DEFINE x == [s EXCEPT !.pc = "bump"]
    <2>1. x.pc = "bump" /\ Goto(p, x)
      BY <1>1, <1>8 DEF Request
    <2> HIDE DEF x
    <2>2. QED
      BY <1>4, <2>1 DEF Rotating
  <1>9. CASE Goto(p, [s EXCEPT !.pc = "revoke_rows"])
    <2> DEFINE x == [s EXCEPT !.pc = "revoke_rows"]
    <2>1. x.pc = "revoke_rows" /\ Goto(p, x)
      BY <1>1, <1>9 DEF Request
    <2> HIDE DEF x
    <2>2. QED
      BY <1>4, <2>1 DEF Rotating
  <1>10. CASE LoginVersion(p) \/ Reply(p) \/ Verify(p)
    BY <1>5, <1>6, <1>7, <1>10 DEF LoginVersion, Reply, Verify
  <1>11. CASE Replay(p) \/ AccessCheck(p) \/ RevokeRows(p) \/ Bump(p)
    BY <1>5, <1>8, <1>9, <1>11 DEF Replay, AccessCheck, RevokeRows, Bump
  <1>12. QED
    BY <1>10, <1>11

\* The steps of the rest of the server.
LEMMA OthersAreQuiet ==
    ASSUME Inv,
           \/ \E t \in Tokens : BrowserReplay(t)
           \/ \E u \in Users : ChangePassword(u) \/ RoleChange(u) \/ SetActive(u)
           \/ \E e \in SessionExpiries : UpdateSettings(e)
           \/ Sweep
           \/ Tick
           \/ UNCHANGED vars
    PROVE  Quiet
  <1>1. UNCHANGED <<issued, origin, req>>
    BY DEF BrowserReplay, ChangePassword, RoleChange, SetActive, UpdateSettings, Sweep, Tick,
           vars, pairVars
  <1>2. \A s \in issued : row'[s] = "live" => row[s] = "live"
    BY DEF BrowserReplay, ChangePassword, RoleChange, SetActive, UpdateSettings, Sweep, Tick,
           vars, rowVars, RevokedRows, Inv, TypeOK
  <1>3. QED
    BY <1>1, <1>2 DEF Quiet

\* The UPDATE of consume_refresh_token hands the right to refresh to a request.
LEMMA ConsumeLive ==
    ASSUME Inv, LiveInv, NEW p \in Requests, Consume(p) PROVE LiveInv'
  <1> DEFINE s == req[p]
  <1>1. /\ s \in Request /\ s.tok \in issued /\ s.tok \in Tokens /\ s.pc = "consume"
    BY DEF Inv, TypeOK, RequestOK, OnPair, Consume
  <1>2. UNCHANGED <<issued, origin>>
    BY DEF Consume, pairVars
  <1>3. CASE Consumable(s.tok)
    <2> DEFINE x == [s EXCEPT !.pc = CASE s.kind = "refresh" -> "issue"
                                       [] s.kind = "logout" -> "bump"
                                       [] OTHER -> "revoke_rows"]
    <2>1. x.tok = s.tok
      BY <1>1 DEF Request
    <2>2. Goto(p, x) /\ row' = [row EXCEPT ![s.tok] = "revoked"]
      BY <1>3 DEF Consume
    <2> HIDE DEF x
    <2>3. /\ req'[p].tok = s.tok
          /\ \A q \in Requests : q # p => req'[q] = req[q]
      BY <2>1, <2>2 DEF Goto, Inv, TypeOK
    <2>4. /\ row[s.tok] = "live"
          /\ \A t \in issued : row'[t] = "live" => row[t] = "live" /\ t # s.tok
      BY <1>1, <1>3, <2>2 DEF Consumable, Inv, TypeOK
    <2>5. OneLiveCredentialPerLogin'
      BY <1>2, <2>4 DEF LiveInv, OneLiveCredentialPerLogin
    <2>6. ASSUME NEW t \in issued, NEW q \in Requests, row'[t] = "live", Rotating(req[q])'
          PROVE  origin[t] # origin[req'[q].tok]
      <3>1. CASE q = p
        BY <1>1, <2>3, <2>4, <2>6, <3>1 DEF LiveInv, OneLiveCredentialPerLogin
      <3>2. CASE q # p
        BY <2>3, <2>4, <2>6, <3>2 DEF LiveInv, Rotating
      <3>3. QED
        BY <3>1, <3>2
    <2>7. ASSUME NEW q \in Requests, q # p, Rotating(req[q])'
          PROVE  origin[req'[q].tok] # origin[s.tok]
      BY <1>1, <2>3, <2>4, <2>7 DEF LiveInv, Rotating
    <2>8. ASSUME NEW q1 \in Requests, NEW q2 \in Requests, q1 # q2,
                 Rotating(req[q1])', Rotating(req[q2])'
          PROVE  origin[req'[q1].tok] # origin[req'[q2].tok]
      <3>1. CASE q1 # p /\ q2 # p
        BY <2>3, <2>8, <3>1 DEF LiveInv, Rotating
      <3>2. CASE q1 = p \/ q2 = p
        BY <2>3, <2>7, <2>8, <3>2
      <3>3. QED
        BY <3>1, <3>2
    <2>9. QED
      BY <1>2, <2>5, <2>6, <2>8 DEF LiveInv
  <1>4. CASE ~Consumable(s.tok)
    <2> DEFINE x == [s EXCEPT !.pc = "replay", !.failed = TRUE]
    <2>1. x.pc = "replay"
      BY <1>1 DEF Request
    <2>2. Goto(p, x) /\ row' = row
      BY <1>4 DEF Consume
    <2> HIDE DEF x
    <2>3. Quiet
      BY <1>2, <2>1, <2>2, MoveIsQuiet DEF Quiet, Rotating
    <2>4. QED
      BY <2>3, QuietKeeps
  <1>5. QED
    BY <1>3, <1>4

\* A new pair n of login `from' comes alive when no row and no request of
\* that login is left to refresh it.
LEMMA InsertLive ==
    ASSUME Inv, LiveInv, NEW p \in Requests, NEW x, Goto(p, x), ~Rotating(x),
           NEW n \in Tokens, NEW from \in Tokens,
           n \notin issued, issued' = issued \cup {n},
           origin' = [origin EXCEPT ![n] = from],
           \A t \in issued : row'[t] = "live" => row[t] = "live" /\ origin[t] # from,
           \A q \in Requests : q # p /\ Rotating(req[q]) => origin[req[q].tok] # from
    PROVE  LiveInv'
  <1>1. \A q \in Requests : Rotating(req[q])' => q # p /\ req'[q] = req[q]
    BY MoveIsQuiet
  <1>2. \A t \in issued : t \in Tokens /\ t # n /\ origin'[t] = origin[t]
    BY DEF Inv, TypeOK
  <1>3. origin'[n] = from
    BY DEF Inv, TypeOK
  <1>4. \A q \in Requests : Rotating(req[q])' =>
           /\ q # p /\ req'[q] = req[q] /\ Rotating(req[q])
           /\ req[q].tok \in issued
           /\ origin'[req[q].tok] = origin[req[q].tok]
    BY <1>1, <1>2 DEF Rotating, Inv, RequestOK, OnPair
  <1>5. OneLiveCredentialPerLogin'
    BY <1>2, <1>3 DEF LiveInv, OneLiveCredentialPerLogin
  <1>6. ASSUME NEW t \in issued', NEW q \in Requests, row'[t] = "live", Rotating(req[q])'
        PROVE  origin'[t] # origin'[req'[q].tok]
    <2>1. CASE t = n
      BY <1>3, <1>4, <1>6, <2>1
    <2>2. CASE t # n
      BY <1>2, <1>4, <1>6, <2>2 DEF LiveInv
    <2>3. QED
      BY <2>1, <2>2
  <1>7. ASSUME NEW q1 \in Requests, NEW q2 \in Requests, q1 # q2,
               Rotating(req[q1])', Rotating(req[q2])'
        PROVE  origin'[req'[q1].tok] # origin'[req'[q2].tok]
    BY <1>4, <1>7 DEF LiveInv
  <1>8. QED
    BY <1>5, <1>6, <1>7 DEF LiveInv

\* Nothing belongs to a login that has not been made.
LEMMA FreshLogin ==
    ASSUME Inv, NEW n \in Tokens, n \notin issued
    PROVE  /\ \A t \in issued : origin[t] # n
           /\ \A q \in Requests : Rotating(req[q]) => origin[req[q].tok] # n
  <1>1. \A t \in issued : origin[t] # n
    BY DEF Inv, PairOK
  <1>2. \A q \in Requests : Rotating(req[q]) => req[q].tok \in issued
    BY DEF Inv, RequestOK, OnPair, Rotating
  <1>3. QED
    BY <1>1, <1>2

\* The INSERT gives the right to refresh back to a row.
LEMMA IssueLive == ASSUME Inv, LiveInv, NEW p \in Requests, Issue(p) PROVE LiveInv'
  <1> DEFINE s == req[p]
  <1>1. s \in Request /\ s.pc = "issue" /\ row \in [Tokens -> {"absent", "live", "revoked"}]
    BY DEF Inv, TypeOK, Issue
  <1>2. CASE s.exp > now
    <2>1. PICK n \in Tokens :
             /\ InsertPair(n, s.user, s.exp, IssuedVersion(p), s.auth,
                           IF s.kind = "login" THEN n ELSE origin[s.tok], s.gen)
             /\ row' = [row EXCEPT ![n] = "live"]
             /\ Goto(p, [s EXCEPT !.pc = "reply", !.tok = n])
      BY <1>2 DEF Issue
    <2> DEFINE from == IF s.kind = "login" THEN n ELSE origin[s.tok]
               x == [s EXCEPT !.pc = "reply", !.tok = n]
    <2>2. /\ n \notin issued /\ issued' = issued \cup {n}
          /\ origin' = [origin EXCEPT ![n] = from]
      BY <2>1 DEF InsertPair
    <2>3. x.pc = "reply" /\ Goto(p, x)
      BY <1>1, <2>1 DEF Request
    <2>4. /\ from \in Tokens
          /\ \A t \in issued : row[t] = "live" => origin[t] # from
          /\ \A q \in Requests : q # p /\ Rotating(req[q]) => origin[req[q].tok] # from
      <3>1. CASE s.kind = "login"
        BY <2>2, <3>1, FreshLogin
      <3>2. CASE s.kind # "login"
        <4>1. Rotating(s) /\ s.tok \in issued
          BY <1>1, <3>2 DEF Rotating, Inv, RequestOK, OnPair
        <4>2. QED
          BY <3>2, <4>1 DEF LiveInv, Inv, TypeOK
      <3>3. QED
        BY <3>1, <3>2
    <2> HIDE DEF from, x
    <2>5. \A t \in issued : row'[t] = "live" => row[t] = "live" /\ origin[t] # from
      BY <1>1, <2>1, <2>2, <2>4 DEF Inv, TypeOK
    <2>6. ~Rotating(x)
      BY <2>3 DEF Rotating
    <2>7. PICK f \in Tokens : f = from
      BY <2>4
    <2>8. /\ origin' = [origin EXCEPT ![n] = f]
          /\ \A t \in issued : row'[t] = "live" => row[t] = "live" /\ origin[t] # f
          /\ \A q \in Requests : q # p /\ Rotating(req[q]) => origin[req[q].tok] # f
      BY <2>2, <2>4, <2>5, <2>7
    <2>9. n \notin issued /\ issued' = issued \cup {n} /\ Goto(p, x)
      BY <2>2, <2>3
    <2>10. QED
      BY <2>6, <2>8, <2>9, InsertLive
  <1>3. CASE ~(s.exp > now)
    <2>1. Goto(p, Idle) /\ UNCHANGED <<issued, origin, row>>
      BY <1>3 DEF Issue, pairVars
    <2>2. Quiet
      BY <2>1, IdleQuiet, MoveIsQuiet DEF Quiet
    <2>3. QED
      BY <2>2, QuietKeeps
  <1>4. QED
    BY <1>2, <1>3

\* A passkey login starts a login of its own.
LEMMA PasskeyLoginLive ==
    ASSUME Inv, LiveInv, NEW p \in Requests, NEW u \in Users, PasskeyLogin(p, u) PROVE LiveInv'
  <1>1. PICK n \in Tokens :
           /\ InsertPair(n, u, now + session_expiry, token_version[u], now, n, password[u])
           /\ row' = [row EXCEPT ![n] = "live"]
           /\ Goto(p, [Idle EXCEPT !.pc = "reply", !.kind = "login", !.user = u, !.tok = n])
    BY DEF PasskeyLogin
  <1> DEFINE x == [Idle EXCEPT !.pc = "reply", !.kind = "login", !.user = u, !.tok = n]
  <1>2. x.pc = "reply" /\ Goto(p, x)
    BY <1>1, IdleType DEF Request
  <1> HIDE DEF x
  <1>3. /\ n \notin issued /\ issued' = issued \cup {n}
        /\ origin' = [origin EXCEPT ![n] = n]
    BY <1>1 DEF InsertPair
  <1>4. /\ \A t \in issued : origin[t] # n
        /\ \A q \in Requests : Rotating(req[q]) => origin[req[q].tok] # n
    BY <1>3, FreshLogin
  <1>5. \A t \in issued : row'[t] = "live" => row[t] = "live" /\ origin[t] # n
    BY <1>1, <1>3, <1>4 DEF Inv, TypeOK
  <1>6. ~Rotating(x)
    BY <1>2 DEF Rotating
  <1>7. QED
    BY <1>2, <1>3, <1>4, <1>5, <1>6, InsertLive

\* A browser refresh exchanges one live row for another.
LEMMA BrowserRotateLive ==
    ASSUME Inv, LiveInv, NEW p \in Requests, NEW t \in Tokens, BrowserRotate(p, t)
    PROVE  LiveInv'
  <1>1. t \in issued /\ row[t] = "live" /\ origin[t] \in Tokens
    BY DEF BrowserRotate, Consumable, Inv, StoreOK, TypeOK
  <1>2. PICK n \in Tokens :
           /\ InsertPair(n, claims[t].user, RotatedDeadline(claims[t]),
                         PinnedVersion(claims[t], token_version[claims[t].user]),
                         claims[t].auth_time, origin[t], gen[t])
           /\ row' = [row EXCEPT ![n] = "live", ![t] = "revoked"]
           /\ Goto(p, [Idle EXCEPT !.pc = "reply", !.kind = "browser_refresh",
                                   !.user = claims[t].user, !.tok = n])
    BY DEF BrowserRotate
  <1> DEFINE x == [Idle EXCEPT !.pc = "reply", !.kind = "browser_refresh",
                               !.user = claims[t].user, !.tok = n]
  <1>3. x.pc = "reply" /\ Goto(p, x)
    BY <1>2, IdleType DEF Request
  <1> HIDE DEF x
  <1>4. /\ n \notin issued /\ issued' = issued \cup {n}
        /\ origin' = [origin EXCEPT ![n] = origin[t]]
    BY <1>2 DEF InsertPair
  <1>5. ASSUME NEW s \in issued, row'[s] = "live" PROVE row[s] = "live" /\ origin[s] # origin[t]
    <2>1. row[s] = "live" /\ s # t
      BY <1>1, <1>2, <1>4, <1>5 DEF Inv, TypeOK
    <2>2. QED
      BY <1>1, <2>1 DEF LiveInv, OneLiveCredentialPerLogin
  <1>6. \A q \in Requests : Rotating(req[q]) => origin[req[q].tok] # origin[t]
    BY <1>1 DEF LiveInv
  <1>7. ~Rotating(x)
    BY <1>3 DEF Rotating
  <1>8. QED
    BY <1>1, <1>3, <1>4, <1>5, <1>6, <1>7, InsertLive

\* Every step preserves LiveInv.
LEMMA StepLive == Inv /\ LiveInv /\ [Next]_vars => LiveInv'
  <1> SUFFICES ASSUME Inv, LiveInv, [Next]_vars PROVE LiveInv'
    OBVIOUS
  <1>1. ASSUME NEW p \in Requests, RequestStart(p) \/ Abort(p) PROVE LiveInv'
    BY <1>1, StartsAreQuiet, QuietKeeps, PasskeyLoginLive, BrowserRotateLive DEF RequestStart
  <1>2. ASSUME NEW p \in Requests, RequestStep(p) PROVE LiveInv'
    BY <1>2, StepsAreQuiet, QuietKeeps, IssueLive, ConsumeLive DEF RequestStep
  <1>3. QED
    BY <1>1, <1>2, OthersAreQuiet, QuietKeeps DEF Next

\* Legacy pairs are logins of their own.
LEMMA InitLive == Init => LiveInv
  <1> SUFFICES ASSUME Init PROVE LiveInv
    OBVIOUS
  <1>1. \A p \in Requests : ~Rotating(req[p])
    BY IdleQuiet DEF Init
  <1>2. OneLiveCredentialPerLogin
    BY ConstantsAssumption DEF Init, OneLiveCredentialPerLogin
  <1>3. QED
    BY <1>1, <1>2 DEF LiveInv

\* A login never has two unrevoked refresh tokens.
THEOREM RefreshTokensAreSingleUse == Spec => []OneLiveCredentialPerLogin
  <1>1. LiveInv => OneLiveCredentialPerLogin
    BY DEF LiveInv
  <1>2. QED
    BY <1>1, InitLive, StepLive, Invariance, PTL DEF Spec

-----------------------------------------------------------------------------
(* Browser retry chains stay inside the login they started in.               *)

\* No pair is minted and no retry pair is stored.
NoNewRetry ==
    /\ UNCHANGED <<issued, origin>>
    /\ \A t \in issued : retry_pair'[t] # NoToken =>
          /\ retry_pair'[t] = retry_pair[t]
          /\ row[t] = "revoked" => row'[t] = "revoked"

\* A step that stores no retry pair keeps the chains closed.
LEMMA NoNewRetryKeeps ==
    ASSUME RetryChainStaysInLogin, NoNewRetry PROVE RetryChainStaysInLogin'
  BY DEF RetryChainStaysInLogin, NoNewRetry

\* The first statements of the handlers store no retry pair ...
LEMMA StartsStoreNoRetry ==
    ASSUME Inv, NEW p \in Requests,
           \/ \E u \in Users : LoginCheck(p, u)
           \/ \E t \in Tokens :
                 \/ \E k \in {"refresh", "logout", "browser_logout"} : Present(p, t, k)
                 \/ BrowserLogoutAccess(p, t)
                 \/ BrowserRetry(p, t)
           \/ Abort(p)
    PROVE  NoNewRetry
  BY DEF LoginCheck, Present, BrowserLogoutAccess, BrowserRetry, Abort, pairVars, rowVars,
         NoNewRetry

\* ... nor do the later ones that mint nothing ...
LEMMA StepsStoreNoRetry ==
    ASSUME Inv, NEW p \in Requests,
           \/ LoginVersion(p) \/ Reply(p) \/ Verify(p) \/ Consume(p) \/ Replay(p)
           \/ AccessCheck(p) \/ RevokeRows(p) \/ Bump(p)
    PROVE  NoNewRetry
  <1>1. UNCHANGED <<issued, origin, retry_pair>>
    BY DEF LoginVersion, Reply, Verify, Consume, Replay, AccessCheck, RevokeRows, Bump,
           pairVars, rowVars
  <1>2. \A t \in issued : row[t] = "revoked" => row'[t] = "revoked"
    BY DEF LoginVersion, Reply, Verify, Consume, Replay, AccessCheck, RevokeRows, Bump,
           rowVars, RevokedRows, Inv, TypeOK
  <1>3. QED
    BY <1>1, <1>2 DEF NoNewRetry

\* ... nor does the rest of the server.
LEMMA OthersStoreNoRetry ==
    ASSUME Inv,
           \/ \E t \in Tokens : BrowserReplay(t)
           \/ \E u \in Users : ChangePassword(u) \/ RoleChange(u) \/ SetActive(u)
           \/ \E e \in SessionExpiries : UpdateSettings(e)
           \/ Sweep
           \/ Tick
           \/ UNCHANGED vars
    PROVE  NoNewRetry
  <1>1. UNCHANGED <<issued, origin>> /\ issued \subseteq Tokens
    BY DEF BrowserReplay, ChangePassword, RoleChange, SetActive, UpdateSettings, Sweep, Tick,
           vars, pairVars, Inv, TypeOK
  <1>2. CASE Sweep
    BY <1>1, <1>2 DEF Sweep, NoNewRetry
  <1>3. CASE ~Sweep
    <2>1. retry_pair' = retry_pair
      BY <1>3 DEF BrowserReplay, ChangePassword, RoleChange, SetActive, UpdateSettings, Tick,
                  vars, rowVars
    <2>2. \A t \in issued : row[t] = "revoked" => row'[t] = "revoked"
      BY <1>1, <1>3 DEF BrowserReplay, ChangePassword, RoleChange, SetActive, UpdateSettings,
                        Tick, vars, rowVars, RevokedRows
    <2>3. QED
      BY <1>1, <2>1, <2>2 DEF NoNewRetry
  <1>4. QED
    BY <1>2, <1>3

\* A login's new pair has no retry pair yet.
LEMMA MintRetry ==
    ASSUME Inv, RetryChainStaysInLogin, NEW n \in Tokens, NEW from \in Tokens,
           n \notin issued, issued' = issued \cup {n},
           origin' = [origin EXCEPT ![n] = from],
           UNCHANGED retry_pair, row' = [row EXCEPT ![n] = "live"]
    PROVE  RetryChainStaysInLogin'
  <1>1. retry_pair[n] = NoToken
    BY DEF Inv, StoreOK
  <1>2. \A t \in issued : /\ t # n /\ t \in Tokens
                          /\ row'[t] = row[t] /\ origin'[t] = origin[t]
    BY DEF Inv, TypeOK
  <1>3. QED
    BY <1>1, <1>2 DEF RetryChainStaysInLogin

\* A strict refresh stores no retry pair for the pair it mints.
LEMMA IssueRetry ==
    ASSUME Inv, RetryChainStaysInLogin, NEW p \in Requests, Issue(p)
    PROVE  RetryChainStaysInLogin'
  <1> DEFINE s == req[p]
  <1>1. CASE s.exp > now
    <2>1. PICK n \in Tokens :
             /\ InsertPair(n, s.user, s.exp, IssuedVersion(p), s.auth,
                           IF s.kind = "login" THEN n ELSE origin[s.tok], s.gen)
             /\ row' = [row EXCEPT ![n] = "live"]
      BY <1>1 DEF Issue
    <2>2. (IF s.kind = "login" THEN n ELSE origin[s.tok]) \in Tokens
      <3>1. s.kind # "login" => s.tok \in Tokens
        BY DEF Issue, Inv, TypeOK, RequestOK, OnPair
      <3>2. QED
        BY <3>1 DEF Inv, TypeOK
    <2>3. PICK from \in Tokens : from = IF s.kind = "login" THEN n ELSE origin[s.tok]
      BY <2>2
    <2>4. /\ n \notin issued /\ issued' = issued \cup {n}
          /\ origin' = [origin EXCEPT ![n] = from]
      BY <2>1, <2>3 DEF InsertPair
    <2>5. UNCHANGED retry_pair
      BY DEF Issue
    <2>6. QED
      BY <2>1, <2>4, <2>5, MintRetry
  <1>2. CASE ~(s.exp > now)
    BY <1>2, NoNewRetryKeeps DEF Issue, pairVars, NoNewRetry
  <1>3. QED
    BY <1>1, <1>2

\* Nor does a passkey login.
LEMMA PasskeyLoginRetry ==
    ASSUME Inv, RetryChainStaysInLogin, NEW p \in Requests, NEW u \in Users, PasskeyLogin(p, u)
    PROVE  RetryChainStaysInLogin'
  <1>1. PICK n \in Tokens :
           /\ InsertPair(n, u, now + session_expiry, token_version[u], now, n, password[u])
           /\ row' = [row EXCEPT ![n] = "live"]
    BY DEF PasskeyLogin
  <1>2. /\ n \notin issued /\ issued' = issued \cup {n}
        /\ origin' = [origin EXCEPT ![n] = n]
    BY <1>1 DEF InsertPair
  <1>3. UNCHANGED retry_pair
    BY DEF PasskeyLogin
  <1>4. QED
    BY <1>1, <1>2, <1>3, MintRetry

\* A browser refresh links the consumed pair to one of the same login.
LEMMA BrowserRotateRetry ==
    ASSUME Inv, RetryChainStaysInLogin, NEW p \in Requests, NEW t \in Tokens,
           BrowserRotate(p, t)
    PROVE  RetryChainStaysInLogin'
  <1>1. PICK n \in Tokens :
           /\ InsertPair(n, claims[t].user, RotatedDeadline(claims[t]),
                         PinnedVersion(claims[t], token_version[claims[t].user]),
                         claims[t].auth_time, origin[t], gen[t])
           /\ row' = [row EXCEPT ![n] = "live", ![t] = "revoked"]
           /\ SaveRetry(t, n)
    BY DEF BrowserRotate
  <1>2. /\ n \notin issued /\ issued' = issued \cup {n}
        /\ origin' = [origin EXCEPT ![n] = origin[t]]
        /\ t \in issued /\ retry_pair[n] = NoToken
    BY <1>1 DEF InsertPair, BrowserRotate, Inv, StoreOK
  <1>3. /\ n # t
        /\ retry_pair'[t] = n /\ row'[t] = "revoked" /\ origin'[n] = origin[t]
        /\ retry_pair'[n] = NoToken
    BY <1>1, <1>2 DEF SaveRetry, Inv, TypeOK
  <1>4. \A s \in issued : /\ s \in Tokens /\ s # n /\ origin'[s] = origin[s]
                          /\ s # t => /\ row'[s] = row[s]
                                      /\ retry_pair'[s] \in {retry_pair[s], NoToken}
    BY <1>1, <1>2 DEF SaveRetry, Inv, TypeOK
  <1>5. QED
    BY <1>2, <1>3, <1>4 DEF RetryChainStaysInLogin

\* Every step keeps the chains closed.
LEMMA StepRetry ==
    Inv /\ RetryChainStaysInLogin /\ [Next]_vars => RetryChainStaysInLogin'
  <1> SUFFICES ASSUME Inv, RetryChainStaysInLogin, [Next]_vars PROVE RetryChainStaysInLogin'
    OBVIOUS
  <1>1. ASSUME NEW p \in Requests, RequestStart(p) \/ Abort(p) PROVE RetryChainStaysInLogin'
    BY <1>1, StartsStoreNoRetry, NoNewRetryKeeps, PasskeyLoginRetry, BrowserRotateRetry
    DEF RequestStart
  <1>2. ASSUME NEW p \in Requests, RequestStep(p) PROVE RetryChainStaysInLogin'
    BY <1>2, StepsStoreNoRetry, NoNewRetryKeeps, IssueRetry DEF RequestStep
  <1>3. QED
    BY <1>1, <1>2, OthersStoreNoRetry, NoNewRetryKeeps DEF Next

\* Following the retry columns never leaves the login the tab is part of.
THEOREM RetryChainsAreClosed == Spec => []RetryChainStaysInLogin
  <1>1. Init => RetryChainStaysInLogin
    BY ConstantsAssumption DEF Init, RetryChainStaysInLogin
  <1>2. QED
    BY <1>1, StepRetry, Invariance, PTL DEF Spec
-----------------------------------------------------------------------------
(* A replay is only ever seen where there was one, or at the deadline.       *)

\* A request that could not consume its token: the row is still not there to
\* be consumed when the replay is acted on.
ReplayOK(r) == r.pc = "replay" => row[r.tok] # "live" \/ claims[r.tok].session_exp <= now
ReplayInv == \A p \in Requests : ReplayOK(req[p])

\* A spent token stays spent: no row comes back to life, no deadline moves.
SpentStaysSpent ==
    /\ now' \in {now, now + 1}
    /\ \A t \in issued : /\ claims'[t] = claims[t]
                         /\ row'[t] = "live" => row[t] = "live"

\* No request finds its token spent.
NoNewReplay == \A p \in Requests : req'[p].pc = "replay" => req'[p] = req[p]

\* Such steps preserve ReplayInv: a request that replays works on an issued pair.
LEMMA NoNewReplayKeeps ==
    ASSUME Inv, ReplayInv, SpentStaysSpent, NoNewReplay PROVE ReplayInv'
<1> SUFFICES ASSUME NEW p \in Requests, req'[p].pc = "replay"
             PROVE  row'[req'[p].tok] # "live" \/ claims'[req'[p].tok].session_exp <= now'
  BY DEF ReplayInv, ReplayOK
<1> DEFINE t == req[p].tok
<1>1. req'[p] = req[p] /\ req[p].pc = "replay"
  BY DEF NoNewReplay
<1>2. t \in issued /\ t \in Tokens
  BY <1>1 DEF Inv, RequestOK, OnPair, TypeOK
<1>3. claims[t].session_exp \in Nat /\ now \in Nat
  BY <1>2 DEF Inv, TypeOK, Claims
<1>4. CASE row[t] # "live"
  BY <1>1, <1>2, <1>4 DEF SpentStaysSpent
<1>5. CASE claims[t].session_exp <= now
  BY <1>1, <1>2, <1>3, <1>5 DEF SpentStaysSpent
<1> QED BY <1>1, <1>4, <1>5 DEF ReplayInv, ReplayOK

\* A request that moves on to anything but a replay.
LEMMA MoveStartsNoReplay ==
    ASSUME Inv, NEW p \in Requests, NEW x, Goto(p, x), x.pc # "replay"
    PROVE  NoNewReplay
  BY DEF Goto, Inv, TypeOK, NoNewReplay

\* An idle request is not a replay.
LEMMA IdleIsNoReplay == Idle.pc # "replay"
  BY DEF Idle

\* A refused refresh token falls back to the access cookie or ends the request.
LEMMA FailConsumeStartsNoReplay ==
    ASSUME Inv, NEW p \in Requests, FailConsume(p) PROVE NoNewReplay
<1>1. req[p] \in Request
  BY DEF Inv, TypeOK
<1>2. PICK r \in Request : Goto(p, r) /\ r.pc \in {"idle", "access"}
  BY <1>1, FailConsumeMoves
<1> QED BY <1>2, MoveStartsNoReplay

\* The first statement of a handler starts no replay.
LEMMA StartsNoReplay ==
    ASSUME Inv, NEW p \in Requests, RequestStart(p) \/ Abort(p) PROVE NoNewReplay
<1>2. CASE Abort(p)
  BY <1>2, IdleIsNoReplay, MoveStartsNoReplay DEF Abort
<1>3. ASSUME NEW u \in Users, LoginCheck(p, u) PROVE NoNewReplay
  <2> DEFINE x == [Idle EXCEPT !.pc = "version", !.kind = "login", !.user = u,
                               !.gen = password[u]]
  <2>1. x.pc = "version"
    BY IdleType DEF Request
  <2>2. Goto(p, x)
    BY <1>3 DEF LoginCheck
  <2> HIDE DEF x
  <2> QED BY <2>1, <2>2, MoveStartsNoReplay
<1>4. ASSUME NEW u \in Users, PasskeyLogin(p, u) PROVE NoNewReplay
  <2>1. PICK n \in Tokens :
           /\ InsertPair(n, u, now + session_expiry, token_version[u], now, n, password[u])
           /\ row' = [row EXCEPT ![n] = "live"]
           /\ Goto(p, [Idle EXCEPT !.pc = "reply", !.kind = "login", !.user = u, !.tok = n])
    BY <1>4, Zenon DEF PasskeyLogin
  <2> DEFINE x == [Idle EXCEPT !.pc = "reply", !.kind = "login", !.user = u, !.tok = n]
  <2>2. x.pc = "reply"
    BY IdleType DEF Request
  <2>3. Goto(p, x)
    BY <2>1
  <2> HIDE DEF x
  <2> QED BY <2>2, <2>3, MoveStartsNoReplay
<1>5. ASSUME NEW t \in Tokens, NEW k \in {"refresh", "logout", "browser_logout"},
             Present(p, t, k)
      PROVE  NoNewReplay
  <2> DEFINE x == [Idle EXCEPT !.pc = "verify", !.kind = k, !.user = claims[t].user,
                               !.tok = t, !.ver = token_version[claims[t].user]]
  <2>1. x.pc = "verify"
    BY IdleType DEF Request
  <2>2. Goto(p, x)
    BY <1>5 DEF Present
  <2> HIDE DEF x
  <2> QED BY <2>1, <2>2, MoveStartsNoReplay
<1>6. ASSUME NEW t \in Tokens, BrowserLogoutAccess(p, t) PROVE NoNewReplay
  <2> DEFINE x == [Idle EXCEPT !.pc = "access", !.kind = "browser_logout",
                               !.user = claims[t].user, !.tok = t]
  <2>1. x.pc = "access"
    BY IdleType DEF Request
  <2>2. Goto(p, x)
    BY <1>6 DEF BrowserLogoutAccess
  <2> HIDE DEF x
  <2> QED BY <2>1, <2>2, MoveStartsNoReplay
<1>7. ASSUME NEW t \in Tokens, BrowserRetry(p, t) PROVE NoNewReplay
  <2>1. PICK r \in RetryResults(t) :
           Goto(p, [Idle EXCEPT !.pc = "reply", !.kind = "browser_refresh",
                                !.user = claims[t].user, !.tok = r])
    BY <1>7, Zenon DEF BrowserRetry
  <2> DEFINE x == [Idle EXCEPT !.pc = "reply", !.kind = "browser_refresh",
                               !.user = claims[t].user, !.tok = r]
  <2>2. x.pc = "reply"
    BY IdleType DEF Request
  <2>3. Goto(p, x)
    BY <2>1
  <2> HIDE DEF x
  <2> QED BY <2>2, <2>3, MoveStartsNoReplay
<1>8. ASSUME NEW t \in Tokens, BrowserRotate(p, t) PROVE NoNewReplay
  <2>1. PICK n \in Tokens :
           /\ InsertPair(n, claims[t].user, RotatedDeadline(claims[t]),
                         PinnedVersion(claims[t], token_version[claims[t].user]),
                         claims[t].auth_time, origin[t], gen[t])
           /\ row' = [row EXCEPT ![n] = "live", ![t] = "revoked"]
           /\ SaveRetry(t, n)
           /\ Goto(p, [Idle EXCEPT !.pc = "reply", !.kind = "browser_refresh",
                                   !.user = claims[t].user, !.tok = n])
    BY <1>8, Zenon DEF BrowserRotate
  <2> DEFINE x == [Idle EXCEPT !.pc = "reply", !.kind = "browser_refresh",
                               !.user = claims[t].user, !.tok = n]
  <2>2. x.pc = "reply"
    BY IdleType DEF Request
  <2>3. Goto(p, x)
    BY <2>1
  <2> HIDE DEF x
  <2> QED BY <2>2, <2>3, MoveStartsNoReplay
<1> QED BY <1>2, <1>3, <1>4, <1>5, <1>6, <1>7, <1>8 DEF RequestStart

\* Of the later statements only consume_refresh_token's UPDATE starts one.
LEMMA StepsStartNoReplay ==
    ASSUME Inv, NEW p \in Requests, RequestStep(p), ~Consume(p) PROVE NoNewReplay
<1>1. req[p] \in Request
  BY DEF Inv, TypeOK
<1>2. CASE LoginVersion(p)
  <2> DEFINE x == [req[p] EXCEPT !.pc = "issue", !.exp = now + session_expiry,
                       !.ver = token_version[req[p].user], !.auth = now]
  <2>1. x.pc = "issue"
    BY <1>1 DEF Request
  <2>2. Goto(p, x) \/ Goto(p, Idle)
    BY <1>2 DEF LoginVersion
  <2> HIDE DEF x
  <2> QED BY <2>1, <2>2, IdleIsNoReplay, MoveStartsNoReplay
<1>3. CASE Issue(p)
  <2>1. CASE ~(req[p].exp > now)
    <3>1. Goto(p, Idle)
      BY <1>3, <2>1, Zenon DEF Issue
    <3> QED BY <3>1, IdleIsNoReplay, MoveStartsNoReplay
  <2>2. CASE req[p].exp > now
    <3>1. PICK n \in Tokens :
             /\ InsertPair(n, req[p].user, req[p].exp, IssuedVersion(p), req[p].auth,
                           IF req[p].kind = "login" THEN n ELSE origin[req[p].tok],
                           req[p].gen)
             /\ row' = [row EXCEPT ![n] = "live"]
             /\ Goto(p, [req[p] EXCEPT !.pc = "reply", !.tok = n])
      BY <1>3, <2>2, Zenon DEF Issue
    <3> DEFINE x == [req[p] EXCEPT !.pc = "reply", !.tok = n]
    <3>2. x.pc = "reply"
      BY <1>1 DEF Request
    <3>3. Goto(p, x)
      BY <3>1
    <3> HIDE DEF x
    <3> QED BY <3>2, <3>3, MoveStartsNoReplay
  <2> QED BY <2>1, <2>2
<1>4. CASE Reply(p)
  BY <1>4, IdleIsNoReplay, MoveStartsNoReplay DEF Reply
<1>5. CASE Verify(p)
  <2> DEFINE c == claims[req[p].tok]
             x == [req[p] EXCEPT !.pc = "consume", !.exp = RotatedDeadline(c),
                       !.auth = c.auth_time, !.gen = gen[req[p].tok],
                       !.ver = PinnedVersion(c, @)]
  <2>1. x.pc = "consume"
    BY <1>1 DEF Request
  <2>2. Goto(p, x) \/ FailConsume(p)
    BY <1>5 DEF Verify
  <2> HIDE DEF x
  <2> QED BY <2>1, <2>2, FailConsumeStartsNoReplay, MoveStartsNoReplay
<1>6. CASE Replay(p) \/ RevokeRows(p)
  <2> DEFINE x == [req[p] EXCEPT !.pc = "bump"]
  <2>1. x.pc = "bump"
    BY <1>1 DEF Request
  <2>2. Goto(p, x) \/ FailConsume(p)
    BY <1>6 DEF Replay, RevokeRows
  <2> HIDE DEF x
  <2> QED BY <2>1, <2>2, FailConsumeStartsNoReplay, MoveStartsNoReplay
<1>7. CASE AccessCheck(p)
  <2> DEFINE x == [req[p] EXCEPT !.pc = "revoke_rows"]
  <2>1. x.pc = "revoke_rows"
    BY <1>1 DEF Request
  <2>2. Goto(p, x) \/ Goto(p, Idle)
    BY <1>7 DEF AccessCheck
  <2> HIDE DEF x
  <2> QED BY <2>1, <2>2, IdleIsNoReplay, MoveStartsNoReplay
<1>8. CASE Bump(p)
  BY <1>8, FailConsumeStartsNoReplay, IdleIsNoReplay, MoveStartsNoReplay DEF Bump
<1> QED BY <1>2, <1>3, <1>4, <1>5, <1>6, <1>7, <1>8 DEF RequestStep

\* A new pair is live, but it was not there before.
LEMMA MintKeepsSpent ==
    ASSUME Inv, NEW n \in Tokens, n \notin issued, UNCHANGED now,
           NEW x, claims' = [claims EXCEPT ![n] = x],
           \A t \in issued : row'[t] = "live" => row[t] = "live"
    PROVE  SpentStaysSpent
  BY DEF Inv, TypeOK, SpentStaysSpent

\* No statement of any handler revives a row.
LEMMA StepKeepsSpent == ASSUME Inv, [Next]_vars PROVE SpentStaysSpent
<1>1. issued \subseteq Tokens /\ row \in [Tokens -> {"absent", "live", "revoked"}]
  BY DEF Inv, TypeOK
<1>2. ASSUME NEW p \in Requests, Issue(p), req[p].exp > now PROVE SpentStaysSpent
  <2>1. PICK n \in Tokens :
           /\ InsertPair(n, req[p].user, req[p].exp, IssuedVersion(p), req[p].auth,
                         IF req[p].kind = "login" THEN n ELSE origin[req[p].tok],
                         req[p].gen)
           /\ row' = [row EXCEPT ![n] = "live"]
           /\ Goto(p, [req[p] EXCEPT !.pc = "reply", !.tok = n])
    BY <1>2, Zenon DEF Issue
  <2>2. n \notin issued
    BY <2>1 DEF InsertPair
  <2>3. \A t \in issued : row'[t] = row[t]
    BY <1>1, <2>1, <2>2
  <2> DEFINE x == [user |-> req[p].user, iat |-> now,
                   exp |-> Lesser(now + AccessLifetime, req[p].exp),
                   session_exp |-> req[p].exp, session_version |-> IssuedVersion(p),
                   auth_time |-> req[p].auth]
  <2>4. claims' = [claims EXCEPT ![n] = x]
    BY <2>1, Zenon DEF InsertPair
  <2> HIDE DEF x
  <2>5. UNCHANGED now
    BY <1>2, Zenon DEF Issue
  <2> QED BY <2>2, <2>3, <2>4, <2>5, MintKeepsSpent
<1>3. ASSUME NEW p \in Requests, NEW u \in Users, PasskeyLogin(p, u) PROVE SpentStaysSpent
  <2>1. PICK n \in Tokens :
           /\ InsertPair(n, u, now + session_expiry, token_version[u], now, n, password[u])
           /\ row' = [row EXCEPT ![n] = "live"]
    BY <1>3 DEF PasskeyLogin
  <2>2. n \notin issued /\ \A t \in issued : row'[t] = row[t]
    BY <1>1, <2>1 DEF InsertPair
  <2> QED BY <1>3, <2>1, <2>2, MintKeepsSpent DEF PasskeyLogin, InsertPair
<1>4. ASSUME NEW p \in Requests, NEW t \in Tokens, BrowserRotate(p, t) PROVE SpentStaysSpent
  <2>1. PICK n \in Tokens :
           /\ InsertPair(n, claims[t].user, RotatedDeadline(claims[t]),
                         PinnedVersion(claims[t], token_version[claims[t].user]),
                         claims[t].auth_time, origin[t], gen[t])
           /\ row' = [row EXCEPT ![n] = "live", ![t] = "revoked"]
    BY <1>4 DEF BrowserRotate
  <2>2. n \notin issued /\ \A s \in issued : row'[s] = "live" => row[s] = "live"
    BY <1>1, <2>1 DEF InsertPair
  <2> QED BY <1>4, <2>1, <2>2, MintKeepsSpent DEF BrowserRotate, InsertPair
<1>5. ASSUME claims' = claims, now' \in {now, now + 1},
             \A t \in issued : row'[t] = "live" => row[t] = "live"
      PROVE  SpentStaysSpent
  BY <1>5 DEF SpentStaysSpent
<1>6. ASSUME NEW p \in Requests, RequestStep(p) PROVE SpentStaysSpent
  <2>1. CASE Issue(p) /\ req[p].exp > now
    BY <1>2, <2>1
  <2>2. CASE Issue(p) /\ ~(req[p].exp > now)
    <3>1. UNCHANGED <<pairVars, row>> /\ now' = now
      BY <2>2, Zenon DEF Issue
    <3> QED BY <1>5, <3>1 DEF pairVars
  <2>3. CASE LoginVersion(p) \/ Reply(p) \/ Verify(p) \/ AccessCheck(p) \/ Bump(p)
    BY <1>5, <2>3 DEF LoginVersion, Reply, Verify, AccessCheck, Bump, pairVars, rowVars
  <2>4. CASE Consume(p)
    <3>1. claims' = claims /\ now' = now
      BY <2>4 DEF Consume, pairVars
    <3>2. \A t \in issued : row'[t] = "live" => row[t] = "live"
      BY <1>1, <2>4 DEF Consume
    <3> QED BY <1>5, <3>1, <3>2
  <2>5. CASE Replay(p) \/ RevokeRows(p)
    <3>1. claims' = claims /\ now' = now
      BY <2>5 DEF Replay, RevokeRows, pairVars
    <3>2. \A t \in issued : row'[t] = "live" => row[t] = "live"
      BY <1>1, <2>5 DEF Replay, RevokeRows, RevokedRows
    <3> QED BY <1>5, <3>1, <3>2
  <2> QED BY <1>6, <2>1, <2>2, <2>3, <2>4, <2>5 DEF RequestStep
<1>7. ASSUME NEW p \in Requests, RequestStart(p) \/ Abort(p) PROVE SpentStaysSpent
  <2>1. ASSUME NEW u \in Users, LoginCheck(p, u) PROVE SpentStaysSpent
    <3>1. UNCHANGED <<claims, now, row>>
      BY <2>1 DEF LoginCheck, pairVars, rowVars
    <3> QED BY <1>5, <3>1
  <2>2. ASSUME NEW t \in Tokens, NEW k, Present(p, t, k) PROVE SpentStaysSpent
    BY <1>5, <2>2 DEF Present, pairVars, rowVars
  <2>3. ASSUME NEW t \in Tokens, BrowserLogoutAccess(p, t) \/ BrowserRetry(p, t)
        PROVE  SpentStaysSpent
    <3>1. UNCHANGED <<now, rowVars, pairVars>>
      BY <2>3, Zenon DEF BrowserLogoutAccess, BrowserRetry
    <3> QED BY <1>5, <3>1 DEF pairVars, rowVars
  <2>4. CASE Abort(p)
    BY <1>5, <2>4 DEF Abort, pairVars, rowVars
  <2> QED BY <1>3, <1>4, <1>7, <2>1, <2>2, <2>3, <2>4 DEF RequestStart
<1>8. ASSUME \/ \E t \in Tokens : BrowserReplay(t)
             \/ \E u \in Users : ChangePassword(u) \/ RoleChange(u) \/ SetActive(u)
             \/ \E e \in SessionExpiries : UpdateSettings(e)
             \/ Sweep \/ Tick \/ UNCHANGED vars
      PROVE  SpentStaysSpent
  <2>1. claims' = claims /\ now' \in {now, now + 1}
    BY <1>8 DEF BrowserReplay, ChangePassword, RoleChange, SetActive, UpdateSettings, Sweep,
                Tick, vars, pairVars
  <2>2. \A t \in issued : row'[t] = "live" => row[t] = "live"
    BY <1>1, <1>8 DEF BrowserReplay, ChangePassword, RoleChange, SetActive, UpdateSettings,
                Sweep, Tick, vars, rowVars, RevokedRows
  <2> QED BY <1>5, <2>1, <2>2
<1> QED BY <1>6, <1>7, <1>8 DEF Next

\* The UPDATE that matched no row found the token revoked, deleted or expired.
LEMMA ConsumeReplay ==
    ASSUME Inv, ReplayInv, SpentStaysSpent, NEW p \in Requests, Consume(p) PROVE ReplayInv'
<1> DEFINE s == req[p]
<1>1. s \in Request /\ s.tok \in issued
  BY DEF Inv, TypeOK, Consume, RequestOK, OnPair
<1>2. CASE Consumable(s.tok)
  <2> DEFINE c == CASE s.kind = "refresh" -> "issue"
                    [] s.kind = "logout" -> "bump"
                    [] OTHER -> "revoke_rows"
             x == [s EXCEPT !.pc = c]
  <2>1. c # "replay"
    OBVIOUS
  <2> HIDE DEF c
  <2>2. x.pc # "replay"
    BY <1>1, <2>1 DEF Request
  <2>3. Goto(p, x)
    BY <1>2 DEF Consume, c
  <2> HIDE DEF x
  <2> QED BY <2>2, <2>3, MoveStartsNoReplay, NoNewReplayKeeps
<1>3. CASE ~Consumable(s.tok)
  <2> DEFINE x == [s EXCEPT !.pc = "replay", !.failed = TRUE]
  <2>1. x.tok = s.tok
    BY <1>1 DEF Request
  <2>2. Goto(p, x) /\ row' = row /\ claims' = claims /\ now' = now
    BY <1>3 DEF Consume, pairVars
  <2>3. row[s.tok] # "live" \/ claims[s.tok].session_exp <= now
    BY <1>1, <1>3 DEF Consumable, Inv, TypeOK, Claims
  <2> HIDE DEF x
  <2>4. \A q \in Requests : req'[q] = IF q = p THEN x ELSE req[q]
    BY <2>2 DEF Goto, Inv, TypeOK
  <2>5. ASSUME NEW q \in Requests PROVE ReplayOK(req[q])'
    <3>1. CASE q = p
      BY <2>1, <2>2, <2>3, <2>4, <3>1 DEF ReplayOK
    <3>2. CASE q # p
      BY <2>2, <2>4, <3>2 DEF ReplayInv, ReplayOK
    <3> QED BY <3>1, <3>2
  <2> QED BY <2>5 DEF ReplayInv
<1> QED BY <1>2, <1>3

\* Every step preserves ReplayInv.
LEMMA StepReplay == Inv /\ ReplayInv /\ [Next]_vars => ReplayInv'
<1> SUFFICES ASSUME Inv, ReplayInv, [Next]_vars PROVE ReplayInv'
  OBVIOUS
<1>1. SpentStaysSpent
  BY StepKeepsSpent
<1>2. ASSUME NEW p \in Requests, RequestStart(p) \/ RequestStep(p) \/ Abort(p)
      PROVE  ReplayInv'
  BY <1>1, <1>2, StartsNoReplay, StepsStartNoReplay, ConsumeReplay, NoNewReplayKeeps
<1>3. ASSUME UNCHANGED req PROVE ReplayInv'
  BY <1>1, <1>3, NoNewReplayKeeps DEF NoNewReplay
<1> QED
  BY <1>2, <1>3 DEF Next, BrowserReplay, ChangePassword, RoleChange, SetActive, UpdateSettings,
                    Sweep, Tick, vars

\* A step of one request leaves the others where they are.
LEMMA OneMoves ==
    ASSUME Inv, NEW q \in Requests, RequestStart(q) \/ RequestStep(q) \/ Abort(q)
    PROVE  \A r \in Requests : r # q => req'[r] = req[r]
<1>1. ASSUME NEW x, Goto(q, x) PROVE \A r \in Requests : r # q => req'[r] = req[r]
  BY <1>1 DEF Goto, Inv, TypeOK
<1> DEFINE Moves == \E x : Goto(q, x)
<1>2. RequestStart(q) => Moves
  <2>1. ASSUME NEW u \in Users, LoginCheck(q, u) \/ PasskeyLogin(q, u) PROVE Moves
    BY <2>1, Zenon DEF LoginCheck, PasskeyLogin
  <2>2. ASSUME NEW t \in Tokens, NEW k, Present(q, t, k) PROVE Moves
    BY <2>2, Zenon DEF Present
  <2>3. ASSUME NEW t \in Tokens, BrowserLogoutAccess(q, t) \/ BrowserRetry(q, t) PROVE Moves
    BY <2>3, Zenon DEF BrowserLogoutAccess, BrowserRetry
  <2>4. ASSUME NEW t \in Tokens, BrowserRotate(q, t) PROVE Moves
    BY <2>4, Zenon DEF BrowserRotate
  <2> HIDE DEF Moves
  <2> QED BY <2>1, <2>2, <2>3, <2>4 DEF RequestStart
<1>3. RequestStep(q) => Moves
  <2>1. LoginVersion(q) \/ Reply(q) \/ AccessCheck(q) \/ RevokeRows(q) => Moves
    BY Zenon DEF LoginVersion, Reply, AccessCheck, RevokeRows
  <2>2. Verify(q) \/ Consume(q) \/ Replay(q) \/ Bump(q) => Moves
    BY Zenon DEF Verify, Consume, Replay, Bump, FailConsume
  <2>3. Issue(q) => Moves
    BY Zenon DEF Issue
  <2> HIDE DEF Moves
  <2> QED BY <2>1, <2>2, <2>3 DEF RequestStep
<1>4. Abort(q) => Moves
  BY Zenon DEF Abort
<1> QED BY <1>1, <1>2, <1>3, <1>4

\* A refresh revokes a user's sessions only over a token that was consumed
\* before or has reached its deadline: the replay that consume_refresh_token
\* acts on is still one when its second statement runs.
THEOREM RevocationNeedsReplayOrExpiry == Spec => OnlyReplayOrExpiryRevokes
<1> DEFINE A == \A p \in Requests :
                   (req[p].pc = "replay" /\ req'[p].pc = "bump")
                      => \/ row[req[p].tok] = "revoked"
                         \/ claims[req[p].tok].session_exp <= now
<1>1. Init => ReplayInv
  BY DEF Init, ReplayInv, ReplayOK, Idle
<1>2. Inv /\ ReplayInv /\ [Next]_vars => [A]_vars
  <2> SUFFICES ASSUME Inv, ReplayInv, Next, NEW p \in Requests,
                      req[p].pc = "replay", req'[p].pc = "bump",
                      row[req[p].tok] # "revoked"
               PROVE  claims[req[p].tok].session_exp <= now
    BY DEF A
  <2>1. req[p].tok \in Tokens
    BY DEF Inv, TypeOK, RequestOK, OnPair
  <2>2. CASE row[req[p].tok] = "live"
    BY <2>2 DEF ReplayInv, ReplayOK
  <2>3. CASE row[req[p].tok] = "absent"
    <3>1. req'[p] # req[p]
      OBVIOUS
    <3>2. PICK q \in Requests : RequestStart(q) \/ RequestStep(q) \/ Abort(q)
      BY <3>1 DEF Next, BrowserReplay, ChangePassword, RoleChange, SetActive, UpdateSettings,
                  Sweep, Tick
    <3>4. q = p
      BY <3>1, <3>2, OneMoves
    <3>5. Replay(p) \/ Abort(p)
      <4>1. ~RequestStart(p)
        <5>1. req[p] # Idle
          BY DEF Idle
        <5>2. \A u \in Users : ~LoginCheck(p, u) /\ ~PasskeyLogin(p, u)
          BY <5>1, Zenon DEF LoginCheck, PasskeyLogin
        <5>3. \A t \in Tokens : /\ \A k : ~Present(p, t, k)
                               /\ ~BrowserLogoutAccess(p, t)
          BY <5>1, Zenon DEF Present, BrowserLogoutAccess
        <5>4. \A t \in Tokens : ~BrowserRetry(p, t) /\ ~BrowserRotate(p, t)
          BY <5>1, Zenon DEF BrowserRetry, BrowserRotate
        <5> QED BY <5>2, <5>3, <5>4 DEF RequestStart
      <4>2. RequestStep(p) => Replay(p)
        BY DEF RequestStep, LoginVersion, Issue, Reply, Verify, Consume, AccessCheck,
               RevokeRows, Bump
      <4> QED BY <3>2, <3>4, <4>1, <4>2
    <3>6. ~Abort(p)
      BY DEF Abort, Goto, Idle, Inv, TypeOK
    <3>7. FailConsume(p) /\ req[p] \in Request
      BY <2>3, <3>5, <3>6 DEF Replay, Inv, TypeOK
    <3>8. PICK r \in Request : Goto(p, r) /\ r.pc \in {"idle", "access"}
      BY <3>7, FailConsumeMoves
    <3>9. req'[p] = r
      BY <3>8 DEF Goto, Inv, TypeOK
    <3> QED BY <3>8, <3>9
  <2> QED BY <2>1, <2>2, <2>3 DEF Inv, TypeOK
<1>3. Inv /\ ReplayInv /\ [Next]_vars => ReplayInv'
  BY StepReplay
<1> QED BY <1>1, <1>2, <1>3, Invariance, PTL DEF Spec, OnlyReplayOrExpiryRevokes

-----------------------------------------------------------------------------
(* The pair a browser refresh answers with.                                  *)

\* Every set of natural numbers that is not empty has a least element.
LEMMA LeastNumber ==
    ASSUME NEW T \in SUBSET Nat, T # {}
    PROVE  \E n \in T : \A m \in T : n <= m
<1> DEFINE R == OpToRel(<, Nat)
<1>1. IsWellFoundedOn(R, Nat)
  BY NatLessThanWellFounded
<1>2. \A x, y \in Nat : <<y, x>> \in R <=> y < x
  BY DEF OpToRel
<1> HIDE DEF R
<1>3. PICK x \in T : \A y \in T : ~ (<<y, x>> \in R)
  BY <1>1, WFMin
<1>4. \A y \in T : y \in Nat /\ x \in Nat /\ ~(y < x)
  BY <1>2, <1>3
<1>5. \A y \in T : x <= y
  BY <1>4
<1> QED BY <1>5

\* The next pair of a retry chain, NoToken where a round of the loop fails.
NextLink(r) == IF r # NoToken /\ VerifyAccess(r) /\ Retryable(r) THEN retry_pair[r] ELSE NoToken

\* chase is the first k rounds of the loop of rotate_browser_token_pair.
Chases(chase, t, k) ==
    chase = [i \in 1 .. k |-> IF i = 1 THEN retry_pair[t] ELSE NextLink(chase[i - 1])]

\* The loop runs to its limit: there is such a function for every number of rounds.
LEMMA ChaseExists == ASSUME NEW t, NEW n \in Nat PROVE \E chase : Chases(chase, t, n)
<1> DEFINE Bad == {k \in Nat : ~\E chase : Chases(chase, t, k)}
<1> SUFFICES ASSUME n \in Bad PROVE FALSE
  OBVIOUS
<1>1. PICK k \in Bad : \A m \in Bad : k <= m
  <2> HIDE DEF Bad
  <2>1. Bad \in SUBSET Nat
    BY DEF Bad
  <2> QED BY <2>1, LeastNumber
<1>2. k # 0
  <2> SUFFICES ASSUME k = 0 PROVE FALSE
    OBVIOUS
  <2> DEFINE f == [i \in 1 .. 0 |-> NoToken]
  <2>1. f = [i \in 1 .. 0 |-> IF i = 1 THEN retry_pair[t] ELSE NextLink(f[i - 1])]
    OBVIOUS
  <2> QED BY <2>1 DEF Chases
<1>3. k \in Nat /\ k - 1 \in Nat /\ ~(k <= k - 1)
  BY <1>2
<1>4. PICK f : Chases(f, t, k - 1)
  BY <1>1, <1>3
<1> DEFINE g == [i \in 1 .. k |->
                   IF i < k THEN f[i] ELSE IF i = 1 THEN retry_pair[t] ELSE NextLink(f[i - 1])]
<1>5. ASSUME NEW i \in 1 .. k
      PROVE  g[i] = IF i = 1 THEN retry_pair[t] ELSE NextLink(g[i - 1])
  <2>1. i # 1 => i - 1 \in 1 .. k /\ i - 1 < k
    BY <1>3
  <2>2. i # 1 => g[i - 1] = f[i - 1]
    BY <2>1
  <2>3. CASE i < k
    <3>1. i \in 1 .. (k - 1)
      BY <1>3, <2>3
    <3>2. f[i] = IF i = 1 THEN retry_pair[t] ELSE NextLink(f[i - 1])
      BY <1>4, <3>1 DEF Chases
    <3>3. g[i] = f[i]
      BY <2>3
    <3> HIDE DEF g
    <3> QED BY <2>2, <3>2, <3>3
  <2>4. CASE ~(i < k)
    <3>1. g[i] = IF i = 1 THEN retry_pair[t] ELSE NextLink(f[i - 1])
      BY <2>4
    <3> HIDE DEF g
    <3> QED BY <2>2, <3>1
  <2> QED BY <2>3, <2>4
<1>6. g = [i \in 1 .. k |-> g[i]]
  OBVIOUS
<1> HIDE DEF g
<1>7. Chases(g, t, k)
  BY <1>5, <1>6 DEF Chases
<1> QED BY <1>7

\* Every round of the loop works on a pair of the login the tab is part of.
LEMMA ChaseStaysInLogin ==
    ASSUME Inv, RetryChainStaysInLogin, NEW t \in issued, NEW n \in Nat, NEW chase,
           Chases(chase, t, n), NEW i \in 1 .. n, chase[i] # NoToken
    PROVE  chase[i] \in issued /\ origin[chase[i]] = origin[t]
<1> DEFINE Good(k) == chase[k] # NoToken => chase[k] \in issued /\ origin[chase[k]] = origin[t]
           Bad == {k \in 1 .. n : ~Good(k)}
<1> SUFFICES ASSUME Bad # {} PROVE FALSE
  OBVIOUS
<1>1. PICK k \in Bad : \A m \in Bad : k <= m
  <2> HIDE DEF Bad
  <2>1. Bad \in SUBSET Nat
    BY DEF Bad
  <2> QED BY <2>1, LeastNumber
<1>2. chase[k] = IF k = 1 THEN retry_pair[t] ELSE NextLink(chase[k - 1])
  BY DEF Chases
<1>3. k = 1 => Good(k)
  BY <1>2 DEF RetryChainStaysInLogin
<1>4. k # 1 => k - 1 \in 1 .. n /\ ~(k <= k - 1)
  OBVIOUS
<1>5. k # 1 => Good(k - 1)
  BY <1>1, <1>4
<1> HIDE DEF Bad
<1>6. ASSUME k # 1, chase[k] # NoToken PROVE chase[k] \in issued /\ origin[chase[k]] = origin[t]
  <2>1. chase[k - 1] # NoToken /\ chase[k] = retry_pair[chase[k - 1]]
    BY <1>2, <1>6 DEF NextLink
  <2>2. chase[k - 1] \in issued /\ origin[chase[k - 1]] = origin[t]
    BY <1>5, <1>6, <2>1
  <2> QED BY <1>6, <2>1, <2>2 DEF RetryChainStaysInLogin
<1>7. Good(k)
  BY <1>3, <1>6
<1> QED BY <1>1, <1>7 DEF Bad

\* A retry answers with a pair of the tab's own login that is accepted and unused.
LEMMA RetryAnswers ==
    ASSUME Inv, RetryChainStaysInLogin, NEW t \in issued, NEW r \in RetryResults(t)
    PROVE  r \in issued /\ origin[r] = origin[t] /\ VerifyAccess(r) /\ Consumable(r)
<1> DEFINE chase == CHOOSE f : Chases(f, t, ChainLimit)
<1>1. ChainLimit \in Nat
  BY ConstantsAssumption
<1>2. Chases(chase, t, ChainLimit)
  BY <1>1, ChaseExists
<1>3. RetryResults(t) = {s \in Tokens : /\ \E k \in 1 .. ChainLimit : chase[k] = s
                                        /\ VerifyAccess(s)
                                        /\ Consumable(s)}
  BY DEF RetryResults, Chases, NextLink
<1> HIDE DEF chase
<1>4. PICK k \in 1 .. ChainLimit : chase[k] = r
  BY <1>3
<1>5. r \in Tokens /\ VerifyAccess(r) /\ Consumable(r) /\ r # NoToken
  BY <1>3, ConstantsAssumption
<1>6. r \in issued /\ origin[r] = origin[t]
  BY <1>1, <1>2, <1>4, <1>5, ChaseStaysInLogin
<1> QED BY <1>5, <1>6

\* What rotate_browser_token_pair commits when it is going to answer with r.
Current(r) ==
    /\ row'[r] = "live"
    /\ VerifyAccess(r)'
    /\ origin'[r] \in {origin[t] : t \in held}

\* A retry changes nothing, so its answer is still accepted and unused.
LEMMA RetryIsCurrent ==
    ASSUME Inv, RetryChainStaysInLogin, NEW p \in Requests, NEW t \in Tokens,
           BrowserRetry(p, t), NEW a \in Tokens, req'[p].tok = a
    PROVE  Current(a)
<1>1. PICK r \in RetryResults(t) :
         Goto(p, [Idle EXCEPT !.pc = "reply", !.kind = "browser_refresh",
                              !.user = claims[t].user, !.tok = r])
  BY DEF BrowserRetry
<1> DEFINE x == [Idle EXCEPT !.pc = "reply", !.kind = "browser_refresh",
                             !.user = claims[t].user, !.tok = r]
<1>2. x.tok = r
  BY IdleType DEF Request
<1>3. Goto(p, x)
  BY <1>1
<1> HIDE DEF x
<1>4. a = r
  BY <1>2, <1>3 DEF Goto, Inv, TypeOK
<1>5. t \in held /\ t \in issued
  BY DEF BrowserRetry, Inv, StoreOK
<1>6. r \in issued /\ origin[r] = origin[t] /\ VerifyAccess(r) /\ Consumable(r)
  BY <1>5, RetryAnswers
<1>7. UNCHANGED <<now, userVars, rowVars, pairVars>>
  BY DEF BrowserRetry
<1>8. UNCHANGED <<now, active, token_version, revoked_before, row, claims, origin>>
  BY <1>7 DEF userVars, rowVars, pairVars
<1>9. VerifyAccess(r)'
  BY <1>6, <1>8 DEF VerifyAccess, SessionOk
<1>10. row'[r] = "live"
  BY <1>6, <1>8 DEF Consumable
<1>11. origin'[r] \in {origin[s] : s \in held}
  BY <1>5, <1>6, <1>8
<1>12. Current(r)
  BY <1>9, <1>10, <1>11 DEF Current
<1> QED BY <1>4, <1>12

\* The pair a rotation mints is accepted: its deadline is ahead, and it carries
\* the version its parent was verified with in the same transaction.
LEMMA RotationIsCurrent ==
    ASSUME Inv, NEW p \in Requests, NEW t \in Tokens, BrowserRotate(p, t),
           NEW a \in Tokens, req'[p].tok = a
    PROVE  Current(a)
<1> DEFINE c == claims[t]
           ver == PinnedVersion(c, token_version[c.user])
<1>1. /\ t \in held /\ t \in issued /\ c \in Claims
      /\ now \in Nat /\ c.session_exp \in Nat /\ c.user \in Users
      /\ token_version[c.user] \in Nat
  BY DEF Inv, TypeOK, StoreOK, BrowserRotate, Claims
<1>2. SessionOk(c) /\ Consumable(t)
  BY DEF BrowserRotate
<1>3. UNCHANGED <<now, userVars>>
  BY DEF BrowserRotate
<1>4. PICK n \in Tokens :
         /\ InsertPair(n, c.user, RotatedDeadline(c), ver, c.auth_time, origin[t], gen[t])
         /\ row' = [row EXCEPT ![n] = "live", ![t] = "revoked"]
         /\ SaveRetry(t, n)
         /\ Goto(p, [Idle EXCEPT !.pc = "reply", !.kind = "browser_refresh",
                                 !.user = c.user, !.tok = n])
  BY Zenon DEF BrowserRotate
<1> DEFINE x == [Idle EXCEPT !.pc = "reply", !.kind = "browser_refresh",
                             !.user = c.user, !.tok = n]
<1>5. x.tok = n
  BY IdleType DEF Request
<1>6. Goto(p, x)
  BY <1>4
<1> HIDE DEF x
<1>7. a = n
  BY <1>5, <1>6 DEF Goto, Inv, TypeOK
<1>8. ver = token_version[c.user] /\ active[c.user]
  BY <1>2 DEF SessionOk, PinnedVersion
<1>9. ver # NoVersion
  BY <1>1, <1>8 DEF NoVersion
<1> HIDE DEF ver
<1>10. n \notin issued /\ n # t
  BY <1>1, <1>4 DEF InsertPair
<1>11. row'[n] = "live" /\ origin'[n] = origin[t]
  BY <1>4, <1>10 DEF InsertPair, Inv, TypeOK
<1> DEFINE e == Lesser(now + AccessLifetime, c.session_exp)
           d == [user |-> c.user, iat |-> now, exp |-> e, session_exp |-> c.session_exp,
                 session_version |-> ver, auth_time |-> c.auth_time]
<1>12. claims'[n] = d
  BY <1>4 DEF InsertPair, RotatedDeadline, Inv, TypeOK
<1>13. c.session_exp > now /\ e > now
  BY <1>1, <1>2, ConstantsAssumption DEF Consumable, Lesser
<1> HIDE DEF e, c
<1>14. /\ claims'[n].user = c.user /\ claims'[n].exp = e
       /\ claims'[n].session_exp = c.session_exp /\ claims'[n].session_version = ver
  BY <1>12
<1>15. VerifyAccess(n)'
  BY <1>3, <1>8, <1>9, <1>13, <1>14 DEF VerifyAccess, SessionOk, userVars
<1>16. origin'[n] \in {origin[s] : s \in held}
  BY <1>1, <1>11
<1>17. Current(n)
  BY <1>11, <1>15, <1>16 DEF Current
<1> QED BY <1>7, <1>17

\* Only a browser refresh turns an idle request into one.
LEMMA OnlyBrowserRefresh ==
    ASSUME Inv, Next, NEW p \in Requests, req[p] = Idle, req'[p].kind = "browser_refresh"
    PROVE  \E t \in Tokens : BrowserRetry(p, t) \/ BrowserRotate(p, t)
<1>1. Idle.kind = "none" /\ Idle.pc = "idle"
  BY DEF Idle
<1>2. req'[p] # req[p]
  BY <1>1
<1>3. PICK q \in Requests : RequestStart(q) \/ RequestStep(q) \/ Abort(q)
  BY <1>2 DEF Next, BrowserReplay, ChangePassword, RoleChange, SetActive, UpdateSettings,
              Sweep, Tick
<1>4. q = p
  BY <1>2, <1>3, OneMoves
<1>5. ~RequestStep(p) /\ ~Abort(p)
  BY <1>1 DEF RequestStep, Abort, LoginVersion, Issue, Reply, Verify, Consume, Replay,
              AccessCheck, RevokeRows, Bump
<1>6. RequestStart(p)
  BY <1>3, <1>4, <1>5
<1>7. ASSUME NEW x, Goto(p, x) PROVE x.kind = "browser_refresh"
  BY <1>7 DEF Goto, Inv, TypeOK
<1>8. ASSUME NEW u \in Users, LoginCheck(p, u) PROVE FALSE
  <2> DEFINE x == [Idle EXCEPT !.pc = "version", !.kind = "login", !.user = u,
                               !.gen = password[u]]
  <2>1. x.kind = "login"
    BY IdleType DEF Request
  <2>2. Goto(p, x)
    BY <1>8 DEF LoginCheck
  <2> HIDE DEF x
  <2> QED BY <1>7, <2>1, <2>2
<1>9. ASSUME NEW u \in Users, PasskeyLogin(p, u) PROVE FALSE
  <2>1. PICK n \in Tokens :
           /\ InsertPair(n, u, now + session_expiry, token_version[u], now, n, password[u])
           /\ row' = [row EXCEPT ![n] = "live"]
           /\ Goto(p, [Idle EXCEPT !.pc = "reply", !.kind = "login", !.user = u, !.tok = n])
    BY <1>9, Zenon DEF PasskeyLogin
  <2> DEFINE x == [Idle EXCEPT !.pc = "reply", !.kind = "login", !.user = u, !.tok = n]
  <2>2. x.kind = "login"
    BY IdleType DEF Request
  <2>3. Goto(p, x)
    BY <2>1
  <2> HIDE DEF x
  <2> QED BY <1>7, <2>2, <2>3
<1>10. ASSUME NEW t \in Tokens, NEW k \in {"refresh", "logout", "browser_logout"},
              Present(p, t, k)
       PROVE  FALSE
  <2> DEFINE x == [Idle EXCEPT !.pc = "verify", !.kind = k, !.user = claims[t].user,
                               !.tok = t, !.ver = token_version[claims[t].user]]
  <2>1. x.kind = k
    BY IdleType DEF Request
  <2>2. Goto(p, x)
    BY <1>10 DEF Present
  <2> HIDE DEF x
  <2> QED BY <1>7, <2>1, <2>2
<1>11. ASSUME NEW t \in Tokens, BrowserLogoutAccess(p, t) PROVE FALSE
  <2> DEFINE x == [Idle EXCEPT !.pc = "access", !.kind = "browser_logout",
                               !.user = claims[t].user, !.tok = t]
  <2>1. x.kind = "browser_logout"
    BY IdleType DEF Request
  <2>2. Goto(p, x)
    BY <1>11 DEF BrowserLogoutAccess
  <2> HIDE DEF x
  <2> QED BY <1>7, <2>1, <2>2
<1> QED BY <1>6, <1>8, <1>9, <1>10, <1>11 DEF RequestStart

\* When a browser refresh commits, the pair it is going to answer with is
\* accepted, its refresh token is unused, and the tab held a token of the same
\* login, however long the chain of retries it followed.
THEOREM BrowserAnswersAreCurrent == Spec => BrowserAnswerIsCurrent
<1> DEFINE A == \A p \in Requests, r \in Tokens :
                   (req[p] = Idle /\ req'[p].kind = "browser_refresh" /\ req'[p].tok = r) =>
                       /\ row'[r] = "live"
                       /\ VerifyAccess(r)'
                       /\ origin'[r] \in {origin[t] : t \in held}
<1>1. Inv /\ RetryChainStaysInLogin /\ [Next]_vars => [A]_vars
  <2> SUFFICES ASSUME Inv, RetryChainStaysInLogin, Next, NEW p \in Requests, NEW r \in Tokens,
                      req[p] = Idle, req'[p].kind = "browser_refresh", req'[p].tok = r
               PROVE  Current(r)
    BY DEF Current
  <2>1. PICK t \in Tokens : BrowserRetry(p, t) \/ BrowserRotate(p, t)
    BY OnlyBrowserRefresh
  <2> QED BY <2>1, RetryIsCurrent, RotationIsCurrent
<1> QED BY <1>1, Invariance, RetryChainsAreClosed, PTL DEF Spec, BrowserAnswerIsCurrent

-----------------------------------------------------------------------------
(* Sessions implements Authority.  Most statements touch neither pairs nor   *)
(* versions and are stutters of Authority.  The INSERT of a login is SignIn, *)
(* the INSERT of a rotation is Renew, and the revocations are Revoke.  Renew *)
(* constrains the INSERT by the credential that was consumed some statements *)
(* earlier: RefinementInv carries what was known then to the INSERT.         *)

\* A request that is going to mint from the pair it verified carries the
\* version of that pair, 0 for a legacy one; and a legacy pair is newer than
\* the user's timestamp revocation unless the version has moved since.
RenewOK(r) ==
    (r.pc = "consume" \/ Rotating(r)) =>
       /\ r.ver = IF claims[r.tok].session_version = NoVersion
                  THEN 0 ELSE claims[r.tok].session_version
       /\ (claims[r.tok].session_version = NoVersion
             /\ token_version[claims[r.tok].user] = 0) =>
             claims[r.tok].iat > revoked_before[claims[r.tok].user]

\* A login authenticated in the past.
SignInOK(r) == (r.pc = "issue" /\ r.kind = "login") => r.auth <= now

RefinementInv == \A p \in Requests : RenewOK(req[p]) /\ SignInOK(req[p])

-----------------------------------------------------------------------------
(* RefinementInv is invariant *)

\* What every step does to the data: issued pairs keep their claims, the clock
\* does not go back, and a version that is still 0 has not been touched.
Monotone ==
    /\ \A t \in issued : claims'[t] = claims[t]
    /\ now <= now'
    /\ \A u \in Users : token_version'[u] = 0 =>
          token_version[u] = 0 /\ revoked_before'[u] = revoked_before[u]

\* No request comes to a point where it is about to consume or to mint.
Calm ==
    \A q \in Requests : req'[q] = req[q] \/ req'[q].pc \notin {"consume", "issue"}

\* Registers keep what RefinementInv says of them.
LEMMA MonotoneKeeps ==
    ASSUME Inv, Inv', Monotone
    PROVE  \A r \in Request : /\ RequestOK(r) /\ RenewOK(r) => RenewOK(r)'
                              /\ SignInOK(r) => SignInOK(r)'
  <1> SUFFICES ASSUME NEW r \in Request
               PROVE  /\ RequestOK(r) /\ RenewOK(r) => RenewOK(r)'
                      /\ SignInOK(r) => SignInOK(r)'
    OBVIOUS
  <1>1. ASSUME RequestOK(r), RenewOK(r), r.pc = "consume" \/ Rotating(r)
        PROVE  RenewOK(r)'
    <2>1. r.tok \in issued /\ claims[r.tok] \in Claims
      BY <1>1 DEF RequestOK, OnPair, Rotating, Inv, TypeOK
    <2>2. claims'[r.tok] = claims[r.tok] /\ claims[r.tok].user \in Users
      BY <2>1 DEF Monotone, Claims
    <2>3. QED
      BY <1>1, <2>2 DEF RenewOK, Rotating, Monotone
  <1>2. (~(r.pc = "consume" \/ Rotating(r))) => RenewOK(r)'
    BY DEF RenewOK, Rotating
  <1>3. SignInOK(r) => SignInOK(r)'
    BY DEF SignInOK, Monotone, Inv, TypeOK, Request
  <1>4. QED
    BY <1>1, <1>2, <1>3

\* A request moves to r: RefinementInv is kept if r satisfies it.
LEMMA MoveKeepsRefinement ==
    ASSUME Inv, Inv', Monotone, RefinementInv,
           NEW p \in Requests, NEW r \in Request, Goto(p, r), RenewOK(r)', SignInOK(r)'
    PROVE  RefinementInv'
  <1> SUFFICES ASSUME NEW q \in Requests PROVE (RenewOK(req[q]) /\ SignInOK(req[q]))'
    BY DEF RefinementInv
  <1>1. CASE q = p
    <2>1. req'[q] = r
      BY <1>1 DEF Goto, Inv, TypeOK
    <2>2. QED
      BY <2>1 DEF RenewOK, SignInOK, Rotating
  <1>2. CASE q # p
    <2>1. req'[q] = req[q]
      BY <1>2 DEF Goto, Inv, TypeOK
    <2>2. PICK s \in Request : s = req[q]
      BY DEF Inv, TypeOK
    <2>3. RequestOK(s) /\ RenewOK(s) /\ SignInOK(s)
      BY <2>2 DEF Inv, RefinementInv
    <2>4. (RenewOK(s) /\ SignInOK(s))'
      BY <2>3, MonotoneKeeps
    <2>5. QED
      BY <2>1, <2>2, <2>4 DEF RenewOK, SignInOK, Rotating
  <1>3. QED
    BY <1>1, <1>2

\* A calm step keeps RefinementInv.
LEMMA CalmKeeps ==
    ASSUME Inv, Inv', Monotone, Calm, RefinementInv PROVE RefinementInv'
  <1> SUFFICES ASSUME NEW q \in Requests PROVE (RenewOK(req[q]) /\ SignInOK(req[q]))'
    BY DEF RefinementInv
  <1>1. CASE req'[q] = req[q]
    <2>1. PICK s \in Request : s = req[q]
      BY DEF Inv, TypeOK
    <2>2. RequestOK(s) /\ RenewOK(s) /\ SignInOK(s)
      BY <2>1 DEF Inv, RefinementInv
    <2>3. (RenewOK(s) /\ SignInOK(s))'
      BY <2>2, MonotoneKeeps
    <2>4. QED
      BY <1>1, <2>1, <2>3 DEF RenewOK, SignInOK, Rotating
  <1>2. CASE req'[q].pc \notin {"consume", "issue"}
    BY <1>2 DEF RenewOK, SignInOK, Rotating
  <1>3. QED
    BY <1>1, <1>2 DEF Calm

\* One request moves, to a point that is neither.
LEMMA MoveIsCalm ==
    ASSUME Inv, NEW p \in Requests, NEW x, Goto(p, x), x.pc \notin {"consume", "issue"}
    PROVE  Calm
  BY DEF Goto, Inv, TypeOK, Calm

\* Every step is monotone.
LEMMA StepIsMonotone == Inv /\ [Next]_vars => Monotone
  <1> SUFFICES ASSUME Inv, [Next]_vars PROVE Monotone
    OBVIOUS
  <1> USE DEF Inv, TypeOK
  <1>1. CASE UNCHANGED <<now, token_version, revoked_before, claims>>
    BY <1>1 DEF Monotone
  <1>2. ASSUME NEW n, NEW u, NEW exp, NEW ver, NEW auth, NEW from, NEW g,
               InsertPair(n, u, exp, ver, auth, from, g),
               UNCHANGED <<now, token_version, revoked_before>>
        PROVE  Monotone
    BY <1>2 DEF Monotone, InsertPair
  <1>3. ASSUME NEW u \in Users, RevokeAccess(u), UNCHANGED <<now, claims>> PROVE Monotone
    BY <1>3 DEF Monotone, RevokeAccess
  <1>4. CASE Tick
    BY <1>4 DEF Monotone, Tick, userVars, pairVars
  <1>5. ASSUME NEW p \in Requests, RequestStart(p) \/ RequestStep(p) \/ Abort(p)
        PROVE  Monotone
    <2>1. CASE Issue(p)
      BY <1>1, <1>2, <2>1 DEF Issue, userVars, pairVars
    <2>2. CASE \E u \in Users : PasskeyLogin(p, u)
      BY <1>2, <2>2 DEF PasskeyLogin, userVars
    <2>3. CASE \E t \in Tokens : BrowserRotate(p, t)
      BY <1>2, <2>3 DEF BrowserRotate, userVars
    <2>4. CASE Bump(p)
      <3>1. req[p].user \in Users
        BY DEF Request
      <3>2. QED
        BY <1>3, <2>4, <3>1 DEF Bump, pairVars
    <2>5. CASE \/ \E u \in Users : LoginCheck(p, u)
               \/ \E t \in Tokens :
                     \/ \E k \in {"refresh", "logout", "browser_logout"} : Present(p, t, k)
                     \/ BrowserLogoutAccess(p, t) \/ BrowserRetry(p, t)
               \/ LoginVersion(p) \/ Reply(p) \/ Verify(p) \/ Consume(p) \/ Replay(p)
               \/ AccessCheck(p) \/ RevokeRows(p) \/ Abort(p)
      BY <1>1, <2>5 DEF LoginCheck, Present, BrowserLogoutAccess, BrowserRetry, LoginVersion,
         Reply, Verify, Consume, Replay, AccessCheck, RevokeRows, Abort, userVars, pairVars
    <2>6. QED
      BY <1>5, <2>1, <2>2, <2>3, <2>4, <2>5 DEF RequestStart, RequestStep
  <1>6. ASSUME NEW t \in Tokens, BrowserReplay(t) PROVE Monotone
    <2>1. claims[t].user \in Users
      BY DEF Claims
    <2>2. QED
      BY <1>3, <1>6, <2>1 DEF BrowserReplay, pairVars
  <1>7. ASSUME NEW u \in Users, ChangePassword(u) \/ RoleChange(u) \/ SetActive(u)
        PROVE  Monotone
    BY <1>1, <1>3, <1>7 DEF ChangePassword, RoleChange, SetActive, pairVars
  <1>8. CASE Sweep \/ UNCHANGED vars \/ \E e \in SessionExpiries : UpdateSettings(e)
    BY <1>1, <1>8 DEF Sweep, UpdateSettings, vars, userVars, pairVars
  <1>9. QED
    BY <1>4, <1>5, <1>6, <1>7, <1>8 DEF Next

\* The first statement of a handler is calm.
LEMMA StartsAreCalm ==
    ASSUME Inv, NEW p \in Requests, RequestStart(p) \/ Abort(p) PROVE Calm
  <1>1. ASSUME NEW u \in Users, LoginCheck(p, u) PROVE Calm
    <2> DEFINE x == [Idle EXCEPT !.pc = "version", !.kind = "login", !.user = u,
                                 !.gen = password[u]]
    <2>1. x.pc = "version" /\ Goto(p, x)
      BY <1>1, IdleType DEF LoginCheck, Request
    <2> HIDE DEF x
    <2>2. QED
      BY <2>1, MoveIsCalm
  <1>2. ASSUME NEW u \in Users, PasskeyLogin(p, u) PROVE Calm
    <2>1. PICK n \in Tokens : Goto(p, [Idle EXCEPT !.pc = "reply", !.kind = "login",
                                                   !.user = u, !.tok = n])
      BY <1>2 DEF PasskeyLogin
    <2> DEFINE x == [Idle EXCEPT !.pc = "reply", !.kind = "login", !.user = u, !.tok = n]
    <2>2. x.pc = "reply" /\ Goto(p, x)
      BY <2>1, IdleType DEF Request
    <2> HIDE DEF x
    <2>3. QED
      BY <2>2, MoveIsCalm
  <1>3. ASSUME NEW t \in Tokens, NEW k \in {"refresh", "logout", "browser_logout"},
               Present(p, t, k)
        PROVE  Calm
    <2> DEFINE x == [Idle EXCEPT !.pc = "verify", !.kind = k, !.user = claims[t].user,
                                 !.tok = t, !.ver = token_version[claims[t].user]]
    <2>1. x.pc = "verify" /\ Goto(p, x)
      BY <1>3, IdleType DEF Present, Request
    <2> HIDE DEF x
    <2>2. QED
      BY <2>1, MoveIsCalm
  <1>4. ASSUME NEW t \in Tokens, BrowserLogoutAccess(p, t) PROVE Calm
    <2> DEFINE x == [Idle EXCEPT !.pc = "access", !.kind = "browser_logout",
                                 !.user = claims[t].user, !.tok = t]
    <2>1. x.pc = "access" /\ Goto(p, x)
      BY <1>4, IdleType DEF BrowserLogoutAccess, Request
    <2> HIDE DEF x
    <2>2. QED
      BY <2>1, MoveIsCalm
  <1>5. ASSUME NEW t \in Tokens, BrowserRetry(p, t) \/ BrowserRotate(p, t) PROVE Calm
    <2>1. PICK a : Goto(p, [Idle EXCEPT !.pc = "reply", !.kind = "browser_refresh",
                                        !.user = claims[t].user, !.tok = a])
      BY <1>5 DEF BrowserRetry, BrowserRotate
    <2> DEFINE x == [Idle EXCEPT !.pc = "reply", !.kind = "browser_refresh",
                                 !.user = claims[t].user, !.tok = a]
    <2>2. x.pc = "reply" /\ Goto(p, x)
      BY <2>1, IdleType DEF Request
    <2> HIDE DEF x
    <2>3. QED
      BY <2>2, MoveIsCalm
  <1>6. CASE Abort(p)
    BY <1>6, IdleOK, MoveIsCalm DEF Abort
  <1>7. QED
    BY <1>1, <1>2, <1>3, <1>4, <1>5, <1>6 DEF RequestStart

\* A later statement is calm, unless it reads the version of a login, verifies
\* or consumes.
LEMMA StepsAreCalm ==
    ASSUME Inv, NEW p \in Requests,
           Issue(p) \/ Reply(p) \/ Replay(p) \/ AccessCheck(p) \/ RevokeRows(p) \/ Bump(p)
    PROVE  Calm
  <1> DEFINE s == req[p]
  <1>1. s \in Request
    BY DEF Inv, TypeOK
  <1>2. CASE Goto(p, Idle)
    BY <1>2, IdleOK, MoveIsCalm
  <1>3. CASE FailConsume(p)
    BY <1>1, <1>3, FailConsumeMoves, MoveIsCalm
  <1>4. ASSUME NEW n, Goto(p, [s EXCEPT !.pc = "reply", !.tok = n]) PROVE Calm
    <2> DEFINE x == [s EXCEPT !.pc = "reply", !.tok = n]
    <2>1. x.pc = "reply" /\ Goto(p, x)
      BY <1>1, <1>4 DEF Request
    <2> HIDE DEF x
    <2>2. QED
      BY <2>1, MoveIsCalm
  <1>5. CASE Goto(p, [s EXCEPT !.pc = "bump"])
    <2> DEFINE x == [s EXCEPT !.pc = "bump"]
    <2>1. x.pc = "bump" /\ Goto(p, x)
      BY <1>1, <1>5 DEF Request
    <2> HIDE DEF x
    <2>2. QED
      BY <2>1, MoveIsCalm
  <1>6. CASE Goto(p, [s EXCEPT !.pc = "revoke_rows"])
    <2> DEFINE x == [s EXCEPT !.pc = "revoke_rows"]
    <2>1. x.pc = "revoke_rows" /\ Goto(p, x)
      BY <1>1, <1>6 DEF Request
    <2> HIDE DEF x
    <2>2. QED
      BY <2>1, MoveIsCalm
  <1>7. QED
    BY <1>2, <1>3, <1>4, <1>5, <1>6
       DEF Issue, Reply, Replay, AccessCheck, RevokeRows, Bump

\* generate_token_pair: the authentication time is the current time.
LEMMA LoginVersionRefines ==
    ASSUME Inv, Inv', Monotone, RefinementInv, NEW p \in Requests, LoginVersion(p)
    PROVE  RefinementInv'
  <1> DEFINE s == req[p]
  <1>1. s \in Request /\ s.kind = "login" /\ now' = now /\ now \in Nat
    BY DEF Inv, TypeOK, RequestOK, LoginVersion
  <1>2. CASE active[s.user]
    <2> DEFINE x == [s EXCEPT !.pc = "issue", !.exp = now + session_expiry,
                              !.ver = token_version[s.user], !.auth = now]
    <2>1. x \in Request /\ x.kind = "login" /\ x.pc = "issue" /\ x.auth = now
      <3>1. now + session_expiry \in Nat /\ token_version[s.user] \in Nat
        BY ConstantsAssumption DEF Inv, TypeOK, Request
      <3>2. QED
        BY <1>1, <3>1 DEF Request, PCs
    <2>2. Goto(p, x)
      BY <1>2 DEF LoginVersion
    <2> HIDE DEF x
    <2>3. PICK r \in Request : r = x
      BY <2>1
    <2>4. RenewOK(r)' /\ SignInOK(r)'
      BY <1>1, <2>1, <2>3 DEF RenewOK, SignInOK, Rotating
    <2>5. QED
      BY <2>2, <2>3, <2>4, MoveKeepsRefinement
  <1>3. CASE ~active[s.user]
    BY <1>3, IdleOK, MoveIsCalm, CalmKeeps DEF LoginVersion
  <1>4. QED
    BY <1>2, <1>3

\* verify_user_session: a legacy pair passes only while the version is 0.
LEMMA VerifyRefines ==
    ASSUME Inv, Inv', Monotone, RefinementInv, NEW p \in Requests, Verify(p)
    PROVE  RefinementInv'
  <1> DEFINE s == req[p]
  <1> DEFINE c == claims[s.tok]
  <1>1. /\ s \in Request /\ s.tok \in issued /\ c \in Claims /\ c.user = s.user
        /\ s.ver \in Nat /\ s.ver <= token_version[s.user]
        /\ token_version[s.user] \in Nat /\ gen[s.tok] \in Nat
    BY DEF Inv, TypeOK, Request, RequestOK, OnPair, Verify
  <1>2. UNCHANGED <<claims, token_version, revoked_before>>
    BY DEF Verify, userVars, pairVars
  <1>3. CASE SessionOk(c)
    <2>1. /\ PinnedVersion(c, s.ver) \in Nat
          /\ PinnedVersion(c, s.ver) = IF c.session_version = NoVersion
                                       THEN 0 ELSE c.session_version
          /\ c.session_version = NoVersion => c.iat > revoked_before[c.user]
      BY <1>1, <1>3 DEF PinnedVersion, SessionOk, Claims, NoVersion
    <2> DEFINE x == [s EXCEPT !.pc = "consume", !.exp = RotatedDeadline(c),
                              !.auth = c.auth_time, !.gen = gen[s.tok],
                              !.ver = PinnedVersion(c, s.ver)]
    <2>2. x \in Request /\ x.pc = "consume" /\ x.tok = s.tok /\ x.ver = PinnedVersion(c, s.ver)
      BY <1>1, <2>1 DEF Request, PCs, RotatedDeadline, Claims
    <2>3. Goto(p, x)
      BY <1>3 DEF Verify
    <2> HIDE DEF x
    <2>4. PICK r \in Request : r = x
      BY <2>2
    <2>5. RenewOK(r)' /\ SignInOK(r)'
      BY <1>2, <2>1, <2>2, <2>4 DEF RenewOK, SignInOK
    <2>6. QED
      BY <2>3, <2>4, <2>5, MoveKeepsRefinement
  <1>4. CASE ~SessionOk(c)
    <2>1. FailConsume(p)
      BY <1>4 DEF Verify
    <2>2. QED
      BY <1>1, <2>1, FailConsumeMoves, MoveIsCalm, CalmKeeps
  <1>5. QED
    BY <1>3, <1>4

\* The UPDATE of consume_refresh_token leaves the registers alone.
LEMMA ConsumeRefines ==
    ASSUME Inv, Inv', Monotone, RefinementInv, NEW p \in Requests, Consume(p)
    PROVE  RefinementInv'
  <1> DEFINE s == req[p]
  <1>1. s \in Request /\ s.pc = "consume" /\ RenewOK(s)
    BY DEF Inv, TypeOK, RefinementInv, Consume
  <1>2. UNCHANGED <<claims, token_version, revoked_before>>
    BY DEF Consume, userVars, pairVars
  <1>3. CASE Consumable(s.tok) /\ s.kind = "refresh"
    <2> DEFINE x == [s EXCEPT !.pc = "issue"]
    <2>1. /\ x \in Request /\ x.pc = "issue" /\ x.kind = "refresh" /\ x.tok = s.tok
          /\ x.ver = s.ver
      BY <1>1, <1>3 DEF Request, PCs
    <2>2. Goto(p, x)
      BY <1>3 DEF Consume
    <2> HIDE DEF x
    <2>3. PICK r \in Request : r = x
      BY <2>1
    <2>4. RenewOK(r)' /\ SignInOK(r)'
      BY <1>1, <1>2, <2>1, <2>3 DEF RenewOK, SignInOK
    <2>5. QED
      BY <2>2, <2>3, <2>4, MoveKeepsRefinement
  <1>4. CASE Consumable(s.tok) /\ s.kind # "refresh"
    <2>1. PICK v \in {"bump", "revoke_rows"} : Goto(p, [s EXCEPT !.pc = v])
      BY <1>4 DEF Consume
    <2> DEFINE x == [s EXCEPT !.pc = v]
    <2>2. x.pc = v /\ Goto(p, x)
      BY <1>1, <2>1 DEF Request
    <2> HIDE DEF x
    <2>3. QED
      BY <2>2, MoveIsCalm, CalmKeeps
  <1>5. CASE ~Consumable(s.tok)
    <2> DEFINE x == [s EXCEPT !.pc = "replay", !.failed = TRUE]
    <2>1. x.pc = "replay" /\ Goto(p, x)
      BY <1>1, <1>5 DEF Consume, Request
    <2> HIDE DEF x
    <2>2. QED
      BY <2>1, MoveIsCalm, CalmKeeps
  <1>6. QED
    BY <1>3, <1>4, <1>5

\* No request mints at the start.
LEMMA InitRefinement == Init => RefinementInv
  BY DEF Init, RefinementInv, RenewOK, SignInOK, Rotating, Idle

\* Every step keeps RefinementInv.
LEMMA StepRefinement == Inv /\ Inv' /\ RefinementInv /\ [Next]_vars => RefinementInv'
  <1> SUFFICES ASSUME Inv, Inv', RefinementInv, [Next]_vars PROVE RefinementInv'
    OBVIOUS
  <1>1. Monotone
    BY StepIsMonotone
  <1>2. ASSUME NEW p \in Requests, RequestStart(p) \/ RequestStep(p) \/ Abort(p)
        PROVE  RefinementInv'
    BY <1>1, <1>2, StartsAreCalm, StepsAreCalm, CalmKeeps, LoginVersionRefines, VerifyRefines,
       ConsumeRefines DEF RequestStep
  <1>3. CASE UNCHANGED req
    BY <1>1, <1>3, CalmKeeps DEF Calm
  <1>4. QED
    BY <1>2, <1>3 DEF Next, BrowserReplay, ChangePassword, RoleChange, SetActive,
       UpdateSettings, Sweep, Tick, vars

-----------------------------------------------------------------------------
(* Every step is a step of Authority *)

\* A statement that touches neither pairs nor versions.
Silent == UNCHANGED <<now, active, token_version, revoked_before, claims, issued, origin, dead>>

\* It is a stutter of Authority.
LEMMA SilentStutters == Silent => UNCHANGED Auth!authVars
  BY DEF Silent, Auth!authVars, AsCredential

\* Authority's creds.
Credentials == {AsCredential(t) : t \in issued}

\* The pairs that existed are the same credentials after an INSERT.
LEMMA InsertedCredential ==
    ASSUME Inv, NEW n \in Tokens, NEW u, NEW exp, NEW ver, NEW auth, NEW from, NEW g,
           InsertPair(n, u, exp, ver, auth, from, g)
    PROVE  /\ Credentials' = Credentials \cup {AsCredential(n)'}
           /\ n \notin issued
           /\ AsCredential(n)' =
                 [login |-> from, user |-> u, iat |-> now,
                  exp |-> Lesser(now + AccessLifetime, exp), session_exp |-> exp,
                  session_version |-> ver, auth_time |-> auth]
  <1>1. /\ n \notin issued
        /\ issued' = issued \cup {n}
        /\ claims'[n] = [user |-> u, iat |-> now, exp |-> Lesser(now + AccessLifetime, exp),
                         session_exp |-> exp, session_version |-> ver, auth_time |-> auth]
        /\ origin'[n] = from
        /\ \A t \in issued : claims'[t] = claims[t] /\ origin'[t] = origin[t]
    BY DEF InsertPair, Inv, TypeOK
  <1>2. \A t \in issued : AsCredential(t)' = AsCredential(t)
    BY <1>1 DEF AsCredential
  <1>3. QED
    BY <1>1, <1>2 DEF AsCredential, Credentials

\* The INSERT of a login starts a login of Authority.
LEMMA InsertSignsIn ==
    ASSUME Inv, NEW n \in Tokens, NEW u \in Users, NEW exp \in Nat, NEW ver \in Nat,
           NEW auth \in Nat, NEW g,
           InsertPair(n, u, exp, ver, auth, n, g),
           auth <= now, exp > now, ver <= token_version[u],
           UNCHANGED <<now, active, token_version, revoked_before, dead>>
    PROVE  Auth!AuthorityNext
  <1>1. PICK c : /\ Credentials' = Credentials \cup {c}
                 /\ n \notin issued
                 /\ c = [login |-> n, user |-> u, iat |-> now,
                         exp |-> Lesser(now + AccessLifetime, exp), session_exp |-> exp,
                         session_version |-> ver, auth_time |-> auth]
    BY InsertedCredential
  <1>2. \A d \in Credentials : d.login # n
    BY <1>1 DEF AsCredential, Credentials, Inv, PairOK
  <1>3. /\ c.login = n /\ c.iat = now /\ c.auth_time = auth /\ c.session_exp = exp
        /\ c.session_version = ver /\ c.user = u /\ c.exp <= exp
    BY <1>1, ConstantsAssumption DEF Lesser, Inv, TypeOK
  <1>4. Auth!SignIn(c)
    BY <1>1, <1>2, <1>3 DEF Credentials, Auth!SignIn
  <1>5. c \in Credentials'
    BY <1>1
  <1>6. QED
    BY <1>4, <1>5 DEF Credentials, Auth!AuthorityNext

\* The INSERT of a rotation of pair t renews its credential.
LEMMA InsertRenews ==
    ASSUME Inv, NEW n \in Tokens, NEW t \in issued, NEW ver \in Nat, NEW g,
           InsertPair(n, claims[t].user, claims[t].session_exp, ver, claims[t].auth_time,
                      origin[t], g),
           claims[t].session_exp > now,
           ver = IF claims[t].session_version = NoVersion
                 THEN 0 ELSE claims[t].session_version,
           (claims[t].session_version = NoVersion /\ token_version[claims[t].user] = 0) =>
              claims[t].iat > revoked_before[claims[t].user],
           UNCHANGED <<now, active, token_version, revoked_before, dead>>
    PROVE  Auth!AuthorityNext
  <1>1. PICK k \in Claims, o \in Tokens : k = claims[t] /\ o = origin[t]
    BY DEF Inv, TypeOK
  <1>2. PICK u, exp, auth : /\ u = k.user /\ exp = k.session_exp /\ auth = k.auth_time
                            /\ InsertPair(n, u, exp, ver, auth, o, g)
    BY <1>1
  <1>3. PICK d : /\ Credentials' = Credentials \cup {d}
                 /\ d = [login |-> o, user |-> u, iat |-> now,
                         exp |-> Lesser(now + AccessLifetime, exp), session_exp |-> exp,
                         session_version |-> ver, auth_time |-> auth]
    BY <1>2, InsertedCredential
  <1>4. PICK c \in Credentials : c = AsCredential(t)
    BY DEF Credentials
  <1>5. /\ c.login = o /\ c.user = k.user /\ c.iat = k.iat
        /\ c.session_exp = k.session_exp /\ c.session_version = k.session_version
        /\ c.auth_time = k.auth_time
    BY <1>1, <1>4 DEF AsCredential
  <1>6. /\ d.login = o /\ d.user = k.user /\ d.iat = now
        /\ d.session_exp = k.session_exp /\ d.session_version = ver
        /\ d.auth_time = k.auth_time /\ d.exp <= k.session_exp
    BY <1>2, <1>3, ConstantsAssumption DEF Lesser, Inv, TypeOK, Claims
  <1>7. Auth!Renew(c, d)
    BY <1>1, <1>3, <1>5, <1>6
       DEF Credentials, Auth!Renew, Auth!RenewedVersion, Auth!NoVersion, NoVersion
  <1>8. d \in Credentials'
    BY <1>3
  <1>9. QED
    BY <1>7, <1>8 DEF Credentials, Auth!AuthorityNext

\* revoke_user_access_tokens is a revocation of Authority.
LEMMA RevokeRevokes ==
    ASSUME Inv, NEW u \in Users, RevokeAccess(u), UNCHANGED <<now, active, claims, issued, origin>>
    PROVE  Auth!AuthorityNext
  <1>1. Credentials' = Credentials
    BY DEF AsCredential, Credentials
  <1>2. {c.login : c \in {d \in Credentials : d.user = u}} =
           {origin[t] : t \in {s \in issued : claims[s].user = u}}
    <2>1. \A t \in issued : /\ AsCredential(t).login = origin[t]
                            /\ AsCredential(t).user = claims[t].user
      BY DEF AsCredential
    <2>2. QED
      BY <2>1 DEF Credentials
  <1>3. Auth!Revoke(u)
    BY <1>1, <1>2 DEF Credentials, Auth!Revoke, RevokeAccess
  <1>4. QED
    BY <1>3 DEF Credentials, Auth!AuthorityNext

\* generate_token_pair_for_session.
LEMMA IssueMaps ==
    ASSUME Inv, RefinementInv, NEW p \in Requests, Issue(p)
    PROVE  [Auth!AuthorityNext]_(Auth!authVars)
  <1> DEFINE s == req[p]
  <1>1. /\ s \in Request /\ s.user \in Users /\ s.exp \in Nat /\ s.ver \in Nat
        /\ s.auth \in Nat /\ s.pc = "issue" /\ s.ver <= token_version[s.user]
    BY DEF Inv, TypeOK, Request, RequestOK, Issue
  <1>2. UNCHANGED <<now, active, token_version, revoked_before, dead>>
    BY DEF Issue, userVars
  <1>3. CASE ~(s.exp > now)
    BY <1>3, SilentStutters DEF Issue, Silent, userVars, pairVars
  <1>4. CASE s.exp > now /\ s.kind = "login"
    <2>1. PICK n \in Tokens : InsertPair(n, s.user, s.exp, s.ver, s.auth, n, s.gen)
      BY <1>4 DEF Issue, IssuedVersion
    <2>2. s.auth <= now
      BY <1>1, <1>4 DEF RefinementInv, SignInOK
    <2>3. QED
      BY <1>1, <1>2, <1>4, <2>1, <2>2, InsertSignsIn
  <1>5. CASE s.exp > now /\ s.kind # "login"
    <2>1. Rotating(s)
      BY <1>1, <1>5 DEF Rotating
    <2>2. PICK t \in issued : t = s.tok
      BY <1>1, <2>1 DEF Inv, RequestOK, OnPair, Rotating
    <2>3. /\ claims[t].user = s.user /\ claims[t].session_exp = s.exp
          /\ claims[t].auth_time = s.auth
      BY <2>1, <2>2 DEF Inv, RequestOK
    <2>4. PICK n \in Tokens : InsertPair(n, s.user, s.exp, s.ver, s.auth, origin[t], s.gen)
      BY <1>5, <2>2 DEF Issue, IssuedVersion
    <2>5. /\ s.ver = IF claims[t].session_version = NoVersion
                     THEN 0 ELSE claims[t].session_version
          /\ (claims[t].session_version = NoVersion
                /\ token_version[claims[t].user] = 0) =>
                claims[t].iat > revoked_before[claims[t].user]
      BY <2>1, <2>2 DEF RefinementInv, RenewOK
    <2>6. QED
      BY <1>1, <1>2, <1>5, <2>3, <2>4, <2>5, InsertRenews
  <1>6. QED
    BY <1>3, <1>4, <1>5

\* login_finish of a passkey.
LEMMA PasskeyLoginMaps ==
    ASSUME Inv, NEW p \in Requests, NEW u \in Users, PasskeyLogin(p, u)
    PROVE  Auth!AuthorityNext
  <1>1. PICK n \in Tokens :
           InsertPair(n, u, now + session_expiry, token_version[u], now, n, password[u])
    BY DEF PasskeyLogin
  <1>2. /\ now \in Nat /\ token_version[u] \in Nat
        /\ now + session_expiry \in Nat /\ now + session_expiry > now
    BY ConstantsAssumption DEF Inv, TypeOK
  <1>3. UNCHANGED <<now, active, token_version, revoked_before, dead>>
    BY DEF PasskeyLogin, userVars
  <1>4. QED
    BY <1>1, <1>2, <1>3, InsertSignsIn

\* rotate_browser_token_pair verifies and mints in one transaction.
LEMMA BrowserRotateMaps ==
    ASSUME Inv, NEW p \in Requests, NEW t \in Tokens, BrowserRotate(p, t)
    PROVE  Auth!AuthorityNext
  <1> DEFINE c == claims[t]
  <1>1. t \in issued /\ c \in Claims /\ token_version[c.user] \in Nat
    BY DEF Inv, TypeOK, StoreOK, Claims, BrowserRotate
  <1>2. PICK n \in Tokens :
           InsertPair(n, c.user, c.session_exp, PinnedVersion(c, token_version[c.user]),
                      c.auth_time, origin[t], gen[t])
    BY DEF BrowserRotate, RotatedDeadline
  <1>3. SessionOk(c) /\ c.session_exp > now
    BY DEF BrowserRotate, Consumable
  <1>4. /\ PinnedVersion(c, token_version[c.user]) \in Nat
        /\ PinnedVersion(c, token_version[c.user]) =
              IF c.session_version = NoVersion THEN 0 ELSE c.session_version
        /\ c.session_version = NoVersion => c.iat > revoked_before[c.user]
    BY <1>1, <1>3 DEF PinnedVersion, SessionOk, Claims, NoVersion
  <1>5. UNCHANGED <<now, active, token_version, revoked_before, dead>>
    BY DEF BrowserRotate, userVars
  <1>6. QED
    BY <1>1, <1>2, <1>3, <1>4, <1>5, InsertRenews

\* Every step of Sessions is a step of Authority or a stutter.
LEMMA StepMaps ==
    Inv /\ RefinementInv /\ [Next]_vars => [Auth!AuthorityNext]_(Auth!authVars)
  <1> SUFFICES ASSUME Inv, RefinementInv, [Next]_vars
               PROVE  [Auth!AuthorityNext]_(Auth!authVars)
    OBVIOUS
  <1>1. CASE Silent
    BY <1>1, SilentStutters
  <1>2. ASSUME NEW p \in Requests, RequestStart(p) \/ RequestStep(p) \/ Abort(p)
        PROVE  [Auth!AuthorityNext]_(Auth!authVars)
    <2>1. CASE Bump(p)
      <3>1. req[p].user \in Users
        BY DEF Inv, TypeOK, Request
      <3>2. UNCHANGED <<now, active, claims, issued, origin>> /\ RevokeAccess(req[p].user)
        BY <2>1 DEF Bump, pairVars
      <3>3. QED
        BY <3>1, <3>2, RevokeRevokes
    <2>2. CASE \/ \E u \in Users : LoginCheck(p, u)
               \/ \E t \in Tokens :
                     \/ \E k \in {"refresh", "logout", "browser_logout"} : Present(p, t, k)
                     \/ BrowserLogoutAccess(p, t) \/ BrowserRetry(p, t)
               \/ LoginVersion(p) \/ Reply(p) \/ Verify(p) \/ Consume(p) \/ Replay(p)
               \/ AccessCheck(p) \/ RevokeRows(p) \/ Abort(p)
      <3>1. Silent
        BY <2>2 DEF Silent, LoginCheck, Present, BrowserLogoutAccess, BrowserRetry,
           LoginVersion, Reply, Verify, Consume, Replay, AccessCheck, RevokeRows, Abort,
           userVars, pairVars
      <3>2. QED
        BY <1>1, <3>1
    <2>3. QED
      BY <1>2, <2>1, <2>2, IssueMaps, PasskeyLoginMaps, BrowserRotateMaps
         DEF RequestStart, RequestStep
  <1>3. ASSUME NEW t \in Tokens, BrowserReplay(t) PROVE Auth!AuthorityNext
    <2>1. claims[t].user \in Users
      BY DEF Inv, TypeOK, Claims
    <2>2. UNCHANGED <<now, active, claims, issued, origin>> /\ RevokeAccess(claims[t].user)
      BY <1>3 DEF BrowserReplay, pairVars
    <2>3. QED
      BY <2>1, <2>2, RevokeRevokes
  <1>4. ASSUME NEW u \in Users, ChangePassword(u) \/ RoleChange(u) PROVE Auth!AuthorityNext
    BY <1>4, RevokeRevokes DEF ChangePassword, RoleChange, pairVars
  <1>5. ASSUME NEW u \in Users, SetActive(u) PROVE Auth!AuthorityNext
    <2>1. Auth!SetActive(u)
      BY <1>5 DEF SetActive, Auth!SetActive, AsCredential, pairVars
    <2>2. QED
      BY <2>1 DEF Auth!AuthorityNext
  <1>6. CASE Tick
    <2>1. Auth!Tick
      BY <1>6 DEF Tick, Auth!Tick, AsCredential, userVars, pairVars
    <2>2. QED
      BY <2>1 DEF Auth!AuthorityNext
  <1>7. CASE Sweep \/ UNCHANGED vars \/ \E e \in SessionExpiries : UpdateSettings(e)
    <2>1. Silent
      BY <1>7 DEF Silent, Sweep, UpdateSettings, vars, userVars, pairVars
    <2>2. QED
      BY <1>1, <2>1
  <1>8. QED
    BY <1>2, <1>3, <1>4, <1>5, <1>6, <1>7 DEF Next

\* The legacy pairs satisfy what Authority assumes of its legacy credentials.
LEMMA LegacyMaps ==
    ASSUME NEW t \in LegacyPairs
    PROVE  /\ LegacyCredential(t) \in Auth!Credential
           /\ LegacyCredential(t).session_version = Auth!NoVersion
           /\ LegacyCredential(t).iat = 0
           /\ LegacyCredential(t).exp <= LegacyCredential(t).session_exp
           /\ \A s \in LegacyPairs : LegacyCredential(s).user = LegacyCredential(t).user
  <1>1. /\ AnyUser \in Users /\ t \in Tokens
        /\ Lesser(AccessLifetime, LegacyDeadline) \in Nat
        /\ Lesser(AccessLifetime, LegacyDeadline) <= LegacyDeadline
        /\ LegacyDeadline \in Nat
    BY ConstantsAssumption DEF AnyUser, Lesser
  <1>2. QED
    BY <1>1 DEF LegacyCredential, Auth!Credential, Auth!NoVersion, NoVersion

\* The initial pairs are the legacy credentials of Authority.
LEMMA InitMaps == Init => Auth!AuthorityInit
  <1> SUFFICES ASSUME Init PROVE Auth!AuthorityInit
    OBVIOUS
  <1>1. \A t \in issued : AsCredential(t) = LegacyCredential(t)
    BY ConstantsAssumption DEF Init, AsCredential, LegacyCredential
  <1>2. {AsCredential(t) : t \in issued} = {LegacyCredential(t) : t \in LegacyPairs}
    BY <1>1 DEF Init
  <1>3. QED
    BY <1>2 DEF Init, Auth!AuthorityInit

\* The sessions are a session authority: read as credentials, the pairs of every
\* behaviour of Sessions are minted, renewed and revoked only as Authority
\* allows, whatever statements of whatever handlers interleave.
THEOREM SessionsImplementAuthority == Spec => ImplementsAuthority
  <1>1. Spec => []RefinementInv
    <2>1. Inv /\ Inv' /\ RefinementInv /\ [Next]_vars => RefinementInv'
      BY StepRefinement
    <2>2. QED
      BY <2>1, InitRefinement, Invariance, PTL DEF Spec
  <1>2. QED
    BY <1>1, StepMaps, InitMaps, Invariance, PTL
       DEF Spec, ImplementsAuthority, Auth!AuthoritySpec

=============================================================================
