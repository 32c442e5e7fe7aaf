------------------------------- MODULE Passkeys -------------------------------
(***************************************************************************)
(* WebAuthn ceremonies: handlers/passkeys.rs.  A start handler stores a     *)
(* challenge and names it in a cookie; the finish handler takes the         *)
(* challenge out of the table in a statement of its own, so that it is      *)
(* spent whatever becomes of the answer, and then registers the key or      *)
(* signs in inside one write transaction.                                   *)
(*                                                                          *)
(* The library that verifies answers (webauthn-rs) is external: an answer   *)
(* is one that verifies, made for the challenge of the browser's cookie.    *)
(***************************************************************************)
EXTENDS Authority, FiniteSets

CONSTANTS
    Keys,           \* credentials of authenticators, each drawn once
    Challenges,     \* ids of challenges, each drawn once
    NoChallenge,    \* no row, or no cookie
    NoKey,          \* a login made without a passkey
    Browsers,       \* user agents, one cookie of each kind
    Ceremonies,     \* HTTP requests in flight
    MaxPasskeys,    \* MAX_PASSKEYS
    ChallengeTtl    \* CHALLENGE_TTL

Kinds == {"register", "login"}

ASSUME PasskeysAssumption ==
    /\ NoChallenge \notin Challenges
    /\ NoKey \notin Keys \cup Users
    /\ {MaxPasskeys, ChallengeTtl} \subseteq Nat

VARIABLES
    owner,      \* the user an authenticator made a key for (NoKey: none yet)
    passkeys,   \* passkeys rows
    challenge,  \* passkey_challenges rows
    drawn,      \* ids of challenges given out so far
    cookie,     \* the challenge cookies of a browser
    ceremony,   \* requests in flight
    origin,     \* history: the key a login was made with
    answered    \* history: requests that took a challenge

passkeyVars == <<owner, passkeys, challenge, drawn, cookie, ceremony, origin, answered>>

Challenge == [kind : {"register"}, user : Users, token_version : Nat, expires_at : Nat]
             \cup [kind : {"login"}, expires_at : Nat]

AtRest == [pc |-> "rest"]
Starting == [pc : {"version", "save"}, browser : Browsers, user : Users, token_version : Nat]
Finishing == [pc : {"insert"}, browser : Browsers, login : Logins, user : Users,
              token_version : Nat]
             \cup [pc : {"signin"}, browser : Browsers, key : Keys]
             \cup [pc : {"delete"}, user : Users, key : Keys]
Ceremony == {AtRest} \cup Starting \cup Finishing

Continue(p, r) == ceremony' = [ceremony EXCEPT ![p] = r]

KeysOf(u) == {k \in passkeys : owner[k] = u}

\* AuthUser: credential c is accepted and belongs to u.
AuthUser(c, u) == c \in creds /\ c.user = u /\ VerifyAccess(c)

-----------------------------------------------------------------------------
(* Starting a ceremony *)

\* save_challenge: expired rows and the browser's previous challenge of the
\* kind go, the new one comes and its id goes into the cookie.
SaveChallenge(b, id, row) ==
    LET gone(x) == /\ challenge[x] # NoChallenge
                   /\ \/ challenge[x].expires_at <= now
                      \/ x = cookie[b][row.kind] /\ challenge[x].kind = row.kind
    IN  /\ id \in Challenges \ drawn
        /\ drawn' = drawn \cup {id}
        /\ challenge' = [x \in Challenges |-> IF x = id THEN row
                                              ELSE IF gone(x) THEN NoChallenge
                                              ELSE challenge[x]]
        /\ cookie' = [cookie EXCEPT ![b][row.kind] = id]

\* register_start up to the count of the user's passkeys.
StartRegistration(p, b, c) ==
    /\ ceremony[p] = AtRest
    /\ AuthUser(c, c.user)
    /\ Cardinality(KeysOf(c.user)) < MaxPasskeys
    /\ Continue(p, [pc |-> "version", browser |-> b, user |-> c.user, token_version |-> 0])
    /\ UNCHANGED <<authVars, owner, passkeys, challenge, drawn, cookie, origin, answered>>

\* register_start reads the version the challenge will carry.
ReadVersion(p) ==
    LET r == ceremony[p] IN
    /\ r.pc = "version"
    /\ Continue(p, IF active[r.user]
                   THEN [r EXCEPT !.pc = "save", !.token_version = token_version[r.user]]
                   ELSE AtRest)
    /\ UNCHANGED <<authVars, owner, passkeys, challenge, drawn, cookie, origin, answered>>

SaveRegistration(p, id) ==
    LET r == ceremony[p] IN
    /\ r.pc = "save"
    /\ SaveChallenge(r.browser, id,
                     [kind |-> "register", user |-> r.user, token_version |-> r.token_version,
                      expires_at |-> now + ChallengeTtl])
    /\ Continue(p, AtRest)
    /\ UNCHANGED <<authVars, owner, passkeys, origin, answered>>

\* login_start.
StartLogin(b, id) ==
    /\ SaveChallenge(b, id, [kind |-> "login", expires_at |-> now + ChallengeTtl])
    /\ UNCHANGED <<authVars, owner, passkeys, ceremony, origin, answered>>

-----------------------------------------------------------------------------
(* Finishing a ceremony *)

\* Mutant: the row is read, and left for the end of the request to delete.
LeaveChallenge(id) == UNCHANGED challenge

\* take_challenge: DELETE ... RETURNING.
TakeChallenge(id) == challenge' = [challenge EXCEPT ![id] = NoChallenge]

\* The challenge the cookie of browser b names can be taken.
Takes(b, kind) ==
    LET id == cookie[b][kind] IN
    /\ id # NoChallenge
    /\ challenge[id] # NoChallenge
    /\ challenge[id].expires_at > now
    /\ TakeChallenge(id)
    /\ answered' = [answered EXCEPT ![id] = @ + 1]

\* register_finish up to the transaction: session c takes its own challenge;
\* anybody else's is spent, and refused.
TakeRegistration(p, b, c) ==
    LET row == challenge[cookie[b]["register"]] IN
    /\ ceremony[p] = AtRest
    /\ AuthUser(c, c.user)
    /\ Takes(b, "register")
    /\ Continue(p, IF row.user = c.user
                   THEN [pc |-> "insert", browser |-> b, login |-> c.login, user |-> c.user,
                         token_version |-> row.token_version]
                   ELSE AtRest)
    /\ UNCHANGED <<authVars, owner, passkeys, drawn, cookie, origin>>

\* Mutant: the session was checked when the request came in.
SessionAsSeen(r) == TRUE

\* register_finish: the user is active and the version that of the challenge.
SessionUnchanged(r) == active[r.user] /\ token_version[r.user] = r.token_version

\* Mutant: register_start has counted.
RoomAsSeen(u) == TRUE

\* register_finish: COUNT(*) inside the transaction.
RoomForKey(u) == Cardinality(KeysOf(u)) < MaxPasskeys

\* The transaction of register_finish, for the new key k; the response clears
\* the cookie.
InsertPasskey(p, k) ==
    LET r == ceremony[p] IN
    /\ r.pc = "insert"
    /\ owner[k] = NoKey
    /\ IF SessionUnchanged(r) /\ RoomForKey(r.user)
       THEN /\ passkeys' = passkeys \cup {k}
            /\ owner' = [owner EXCEPT ![k] = r.user]
            /\ cookie' = [cookie EXCEPT ![r.browser]["register"] = NoChallenge]
       ELSE UNCHANGED <<passkeys, owner, cookie>>
    /\ Continue(p, AtRest)
    /\ UNCHANGED <<authVars, challenge, drawn, origin, answered>>

\* login_finish up to the transaction: the authenticator answers with key k,
\* whether or not the server still knows it.
TakeLogin(p, b, k) ==
    /\ ceremony[p] = AtRest
    /\ owner[k] # NoKey
    /\ Takes(b, "login")
    /\ Continue(p, [pc |-> "signin", browser |-> b, key |-> k])
    /\ UNCHANGED <<authVars, owner, passkeys, drawn, cookie, origin>>

\* Mutant: the key was looked up before the transaction began.
KeyAsSeen(k) == TRUE

\* login_finish: the key is stored and its user active.
KeyUsable(k) == k \in passkeys /\ active[owner[k]]

\* The transaction of login_finish: the session it issues, c, has the version of
\* the same snapshot.
PasskeySignIn(p, c) ==
    LET r == ceremony[p] IN
    /\ r.pc = "signin"
    /\ KeyUsable(r.key)
    /\ c.user = owner[r.key]
    /\ c.session_version = token_version[c.user]
    /\ SignIn(c)
    /\ origin' = [origin EXCEPT ![c.login] = r.key]
    /\ cookie' = [cookie EXCEPT ![r.browser]["login"] = NoChallenge]
    /\ Continue(p, AtRest)
    /\ UNCHANGED <<owner, passkeys, challenge, drawn, answered>>

RefuseSignIn(p) ==
    /\ ceremony[p].pc = "signin"
    /\ ~KeyUsable(ceremony[p].key)
    /\ Continue(p, AtRest)
    /\ UNCHANGED <<authVars, owner, passkeys, challenge, drawn, cookie, origin, answered>>

-----------------------------------------------------------------------------
\* delete up to its transaction.
AskDeletion(p, c, k) ==
    /\ ceremony[p] = AtRest
    /\ AuthUser(c, c.user)
    /\ Continue(p, [pc |-> "delete", user |-> c.user, key |-> k])
    /\ UNCHANGED <<authVars, owner, passkeys, challenge, drawn, cookie, origin, answered>>

\* The transaction: the key, every session of its user and the user's challenges.
DeletePasskey(p) ==
    LET r == ceremony[p]
        own(x) == /\ challenge[x] # NoChallenge
                  /\ challenge[x].kind = "register"
                  /\ challenge[x].user = r.user
    IN  /\ r.pc = "delete"
        /\ IF r.key \in KeysOf(r.user)
           THEN /\ passkeys' = passkeys \ {r.key}
                /\ Revoke(r.user)
                /\ challenge' = [x \in Challenges |->
                                    IF own(x) THEN NoChallenge ELSE challenge[x]]
           ELSE UNCHANGED <<authVars, passkeys, challenge>>
        /\ Continue(p, AtRest)
        /\ UNCHANGED <<owner, drawn, cookie, origin, answered>>

\* The handler's future is dropped, or the answer does not verify.
AbortCeremony(p) ==
    /\ ceremony[p] # AtRest
    /\ Continue(p, AtRest)
    /\ UNCHANGED <<authVars, owner, passkeys, challenge, drawn, cookie, origin, answered>>

-----------------------------------------------------------------------------
PasskeysInit ==
    /\ owner = [k \in Keys |-> NoKey]
    /\ passkeys = {}
    /\ challenge = [x \in Challenges |-> NoChallenge]
    /\ drawn = {}
    /\ cookie = [b \in Browsers |-> [kind \in Kinds |-> NoChallenge]]
    /\ ceremony = [p \in Ceremonies |-> AtRest]
    /\ origin = [n \in Logins |-> NoKey]
    /\ answered = [x \in Challenges |-> 0]

\* NewSession(n, u) is the credential that starts login n of user u.
PasskeySteps(NewSession(_, _)) ==
    \/ \E p \in Ceremonies :
          \/ \E b \in Browsers, c \in creds : StartRegistration(p, b, c) \/ TakeRegistration(p, b, c)
          \/ \E b \in Browsers, k \in Keys : TakeLogin(p, b, k)
          \/ \E id \in Challenges : SaveRegistration(p, id)
          \/ \E k \in Keys : InsertPasskey(p, k)
          \/ \E c \in creds, k \in Keys : AskDeletion(p, c, k)
          \/ \E n \in Logins, u \in Users : PasskeySignIn(p, NewSession(n, u))
          \/ ReadVersion(p) \/ RefuseSignIn(p) \/ DeletePasskey(p) \/ AbortCeremony(p)
    \/ \E b \in Browsers, id \in Challenges : StartLogin(b, id)

-----------------------------------------------------------------------------
PasskeysTypeOK ==
    /\ owner \in [Keys -> Users \cup {NoKey}]
    /\ passkeys \subseteq Keys
    /\ challenge \in [Challenges -> Challenge \cup {NoChallenge}]
    /\ drawn \subseteq Challenges
    /\ cookie \in [Browsers -> [Kinds -> Challenges \cup {NoChallenge}]]
    /\ ceremony \in [Ceremonies -> Ceremony]
    /\ origin \in [Logins -> Keys \cup {NoKey}]
    /\ answered \in [Challenges -> Nat]

=============================================================================
