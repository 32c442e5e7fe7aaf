----------------------------- MODULE ForwardAuth -----------------------------
(***************************************************************************)
(* Forward authentication: a reverse proxy asks verify_auth about every     *)
(* request to a protected site; a browser without a forward session is sent *)
(* over /.authere/start (a nonce in a cookie of the protected origin),      *)
(* /api/auth/forward-redirect (a handoff, on Authere's origin) and          *)
(* /.authere/callback (the handoff is redeemed for a forward session).      *)
(* handlers/auth.rs, user/auth/forward.rs, handlers/application.rs.         *)
(*                                                                          *)
(* The central sessions are those of Authority, the selection of the        *)
(* application that of Policy.  No handler here runs in a transaction: a    *)
(* request takes one step per statement that another one can get between.   *)
(***************************************************************************)
EXTENDS Authority, Policy

CONSTANTS
    AuthereHost,     \* host of AUTHERE_ORIGIN
    Browsers,        \* user agents
    Nonces,          \* well-formed states, the values of new_state()
    NoNonce,         \* no __Host-authere_forward_state cookie
    Handoffs,        \* jti of handoffs, each drawn once
    NoHandoff,       \* not issued
    Requests,        \* HTTP requests in flight
    Configurations,  \* what administrators set an application to
    Installations,   \* the rows of the applications table at the start
    Workloads,       \* what is used together: operations, browsers, ...
    AccessLifetime,  \* ACCESS_TOKEN_LIFETIME of the central session
    SessionExpiry,   \* session_expiry_seconds
    HandoffLifetime, \* the 60 seconds of issue_handoff
    MaxTime,         \* bound: the clock stops here
    MaxVersion,      \* bound: token_version stops here
    MaxCredentials   \* bound: central credentials in all

ASSUME ForwardAssumption ==
    /\ NoNonce \notin Nonces
    /\ NoApplication \notin ForwardApp
    /\ Configurations \subseteq ForwardApp
    /\ Workloads \subseteq [uses : SUBSET {"policies", "sessions"}, browsers : SUBSET Browsers,
                     apps : SUBSET Apps, requests : Nat, nonces : Nat, hosts : SUBSET Hosts,
                     paths : SUBSET Paths]
    /\ Installations \subseteq [Apps -> ForwardApp \cup {NoApplication}]
    /\ {AccessLifetime, SessionExpiry, HandoffLifetime, MaxTime, MaxVersion,
        MaxCredentials} \subseteq Nat

VARIABLES
    app,       \* applications rows of type forward_auth
    roles,     \* user_roles
    nonces,    \* nonces a browser was given, and on which host
    cookie,    \* its state cookie per protected host
    handoff,   \* claims of the handoffs signed so far
    stored,    \* rows of forward_handoffs
    sessions,  \* forward sessions delivered, and to which browser
    req,       \* requests in flight
    redeemed,  \* history: callbacks that consumed a handoff
    workload   \* what is in use, chosen at the start

forwardVars == <<app, roles, nonces, cookie, handoff, stored, sessions, req, redeemed,
                 workload>>
vars == <<authVars, forwardVars>>

\* A URL that is asked for; once it is parsed, its path is a parsed one.
Target == [host : Hosts, path : AllPaths]
Targets == [host : workload.hosts, path : workload.paths]

\* ForwardSession; `login' is the login of the session it derives from.
ForwardSession == [login : Logins, user : Users, application_id : Apps, aud : Hosts,
                   iat : Nat, exp : Nat, session_version : Nat \cup {NoVersion}]
Handoff == [session : ForwardSession, state : Nonces, redirect_path : AllPaths, exp : Nat]
ASSUME NoHandoffAssumption == NoHandoff \notin Handoff

Idle == [pc |-> "idle"]
Redirecting == [pc : {"verify", "insert"}, cred : Credential, target : Target,
                app : Apps, state : Nonces]
CallingBack == [pc : {"consume", "policy"}, browser : Browsers, id : Handoffs]
               \cup [pc : {"roles"}, browser : Browsers, id : Handoffs, row : ForwardApp]
Updating == [pc : {"update"}, app : Apps, row : ForwardApp]
Request == {Idle} \cup Redirecting \cup CallingBack \cup Updating

Goto(p, r) == req' = [req EXCEPT ![p] = r]

Lesser(a, b) == IF a <= b THEN a ELSE b

\* check_access_resolved: any one of the required roles.
CheckAccess(required, held) == required = {} \/ required \cap held # {}

\* session_exp.unwrap_or(exp): a legacy access token has no session deadline.
Deadline(c) == IF c.session_version = NoVersion THEN c.exp ELSE c.session_exp

Listing == SetToSeq(Apps)

\* ForwardTarget::parse, ensure_protected_origin and find_matching; the order
\* of the rows is irrelevant by MostSpecificPolicyDecides.
PolicyFor(t) ==
    LET path == PolicyPath[t.path] IN
    IF t.host = AuthereHost \/ path = Refused THEN NoApplication
    ELSE FindMatching(app, Listing, t.host, path)

\* ForwardTarget::from_proxy and from_callback, for a path that was sent alone.
LocalPolicyFor(t) == IF SafeLocalPath(t.path) THEN PolicyFor(t) ELSE NoApplication

-----------------------------------------------------------------------------
(* /api/auth/verify *)

\* forward::verify_session.
VerifySession(s, host) ==
    s.aud = host /\ s.exp > now /\ SessionOk(s.user, s.iat, s.session_version)

\* verify_auth answers 200 for forward session s on target t, its reads folded
\* into one.
Verified(s, t) ==
    LET a == LocalPolicyFor(t) IN
    /\ a # NoApplication
    /\ VerifySession(s, t.host)
    /\ CheckAccess(app[a].required_roles, roles[s.user])
    /\ s.application_id = a

-----------------------------------------------------------------------------
(* /.authere/start and /api/auth/forward-redirect *)

\* States some browser was given or some link carries: new_state() draws 256
\* random bits, none of these.
Seen ==
    {x[2] : x \in UNION {nonces[b] : b \in Browsers}}
    \cup {handoff[h].state : h \in {g \in Handoffs : handoff[g] # NoHandoff}}
    \cup {req[p].state : p \in {q \in Requests : req[q].pc \in {"verify", "insert"}}}

\* forward_auth_start: a fresh nonce replaces the cookie of this host.
Start(b, t, n) ==
    /\ LocalPolicyFor(t) # NoApplication
    /\ n \in Nonces \ Seen
    /\ nonces' = [nonces EXCEPT ![b] = @ \cup {<<t.host, n>>}]
    /\ cookie' = [cookie EXCEPT ![b][t.host] = n]
    /\ UNCHANGED <<authVars, app, roles, handoff, stored, sessions, req, redeemed, workload>>

\* forward_redirect up to the issue of the handoff, for the access cookie c of
\* whichever browser follows the link: of the state in the link only the form is
\* looked at.  A browser that holds only a refresh cookie renews first: Renewed.
Redirect(p, c, t, n) ==
    LET a == PolicyFor(t) IN
    /\ req[p] = Idle
    /\ a # NoApplication
    /\ c \in creds
    /\ VerifyAccess(c)
    /\ CheckAccess(app[a].required_roles, roles[c.user])
    /\ Goto(p, [pc |-> "verify", cred |-> c,
                target |-> [host |-> t.host, path |-> ParsedPath[t.path]], app |-> a, state |-> n])
    /\ UNCHANGED <<authVars, app, roles, nonces, cookie, handoff, stored, sessions, redeemed, workload>>

\* issue_handoff: the deadline and verify_user_session once more.
VerifyParent(p) ==
    LET c == req[p].cred IN
    /\ req[p].pc = "verify"
    /\ Goto(p, IF Deadline(c) > now /\ SessionOk(c.user, c.iat, c.session_version)
               THEN [req[p] EXCEPT !.pc = "insert"] ELSE Idle)
    /\ UNCHANGED <<authVars, app, roles, nonces, cookie, handoff, stored, sessions, redeemed, workload>>

\* Rows past their expiry, deleted by issue_handoff and by the sweep.
Expired(S) == {h \in S : handoff[h].exp <= now}

\* Mutant: the handoff gives the session its full time whatever the parent.
FullSessionExpiry(c) == now + SessionExpiry

\* issue_handoff: exp of the forward session.
SessionDeadline(c) == Deadline(c)

\* Mutant: the version current when the handoff is signed.
VersionAtIssue(c) == token_version[c.user]

\* issue_handoff: the version the parent was accepted with.
ParentVersion(c) == c.session_version

\* issue_handoff: the handoff is signed, expired rows go and its row comes.
InsertHandoff(p) ==
    LET r == req[p]
        c == r.cred
    IN  /\ r.pc = "insert"
        /\ \E h \in Handoffs :
              /\ handoff[h] = NoHandoff
              /\ handoff' = [handoff EXCEPT ![h] =
                   [session |-> [login |-> c.login, user |-> c.user, application_id |-> r.app,
                                 aud |-> r.target.host, iat |-> c.iat,
                                 exp |-> SessionDeadline(c),
                                 session_version |-> ParentVersion(c)],
                    state |-> r.state, redirect_path |-> r.target.path,
                    exp |-> Lesser(Deadline(c), now + HandoffLifetime)]]
              /\ stored' = (stored \ Expired(stored)) \cup {h}
        /\ Goto(p, Idle)
        /\ UNCHANGED <<authVars, app, roles, nonces, cookie, sessions, redeemed, workload>>

-----------------------------------------------------------------------------
(* /.authere/callback *)

\* Mutant: the state cookie is not compared.
StateIgnored(b, h) == TRUE

\* redeem_handoff: state_hash against the cookie of the protected origin.
StateMatches(b, h) == cookie[b][handoff[h].session.aud] = handoff[h].state

\* forward_auth_callback and redeem_handoff up to verify_user_session: browser b
\* opens the callback of handoff h on the host it was signed for.  The library
\* refuses exp < now only.
Callback(p, b, h) ==
    LET s == handoff[h].session IN
    /\ req[p] = Idle
    /\ handoff[h] # NoHandoff
    /\ handoff[h].exp >= now
    /\ StateMatches(b, h)
    /\ s.exp > now
    /\ SessionOk(s.user, s.iat, s.session_version)
    /\ Goto(p, [pc |-> "consume", browser |-> b, id |-> h])
    /\ UNCHANGED <<authVars, app, roles, nonces, cookie, handoff, stored, sessions, redeemed, workload>>

\* Mutant: rows_affected is not looked at.
ConsumableTwice(h) == handoff[h].exp > now

\* The row the DELETE of redeem_handoff matches.
Consumable(h) == h \in stored /\ handoff[h].exp > now

\* The DELETE: one callback wins the handoff.
ConsumeHandoff(p) ==
    LET h == req[p].id IN
    /\ req[p].pc = "consume"
    /\ IF Consumable(h)
       THEN /\ stored' = stored \ {h}
            /\ redeemed' = [redeemed EXCEPT ![h] = @ + 1]
            /\ Goto(p, [req[p] EXCEPT !.pc = "policy"])
       ELSE Goto(p, Idle) /\ UNCHANGED <<stored, redeemed>>
    /\ UNCHANGED <<authVars, app, roles, nonces, cookie, handoff, sessions, workload>>

\* find_matching of the path that is to be opened: still the same application.
CheckPolicy(p) ==
    LET r == req[p]
        h == handoff[r.id]
        a == LocalPolicyFor([host |-> h.session.aud, path |-> h.redirect_path])
    IN  /\ r.pc = "policy"
        /\ Goto(p, IF a = h.session.application_id
                   THEN [pc |-> "roles", browser |-> r.browser, id |-> r.id, row |-> app[a]]
                   ELSE Idle)
        /\ UNCHANGED <<authVars, app, roles, nonces, cookie, handoff, stored, sessions,
                       redeemed, workload>>

\* The roles, then the answer: the session cookie is set, the state cookie
\* cleared.  verify_auth judges the session itself whenever it is used.
Deliver(p) ==
    LET r == req[p]
        s == handoff[r.id].session
    IN  /\ r.pc = "roles"
        /\ IF CheckAccess(r.row.required_roles, roles[s.user])
           THEN /\ sessions' = sessions \cup {<<r.browser, s>>}
                /\ cookie' = [cookie EXCEPT ![r.browser][s.aud] = NoNonce]
           ELSE UNCHANGED <<sessions, cookie>>
        /\ Goto(p, Idle)
        /\ UNCHANGED <<authVars, app, roles, nonces, handoff, stored, redeemed, workload>>

\* sweep_expired_sessions, its last statement.
Sweep ==
    /\ stored' = stored \ Expired(stored)
    /\ UNCHANGED <<authVars, app, roles, nonces, cookie, handoff, sessions, req, redeemed, workload>>

-----------------------------------------------------------------------------
(* Administration *)

\* create_application: validate_input wants a host pattern.
CreateApplication(a) ==
    /\ app[a] = NoApplication
    /\ \E new \in Configurations : new.hosts # {} /\ app' = [app EXCEPT ![a] = new]
    /\ UNCHANGED <<authVars, roles, nonces, cookie, handoff, stored, sessions, req, redeemed, workload>>

\* update_application reads the row ...
ReadApplication(p, a) ==
    /\ req[p] = Idle
    /\ app[a] # NoApplication
    /\ Goto(p, [pc |-> "update", app |-> a, row |-> app[a]])
    /\ UNCHANGED <<authVars, app, roles, nonces, cookie, handoff, stored, sessions, redeemed, workload>>

\* ... and Application::update writes every column back, one of them as asked
\* for; nothing is validated.  A deleted row stays deleted.
WriteApplication(p) ==
    LET r == req[p] IN
    /\ r.pc = "update"
    /\ \E c \in Configurations :
       \E new \in {[r.row EXCEPT !.enabled = ~@],
                   [r.row EXCEPT !.required_roles = c.required_roles],
                   [r.row EXCEPT !.prefix = c.prefix],
                   [r.row EXCEPT !.hosts = c.hosts, !.literal = c.literal]} :
          app' = IF app[r.app] = NoApplication THEN app ELSE [app EXCEPT ![r.app] = new]
    /\ Goto(p, Idle)
    /\ UNCHANGED <<authVars, roles, nonces, cookie, handoff, stored, sessions, redeemed, workload>>

\* delete_application.
DeleteApplication(a) ==
    /\ app[a] # NoApplication
    /\ app' = [app EXCEPT ![a] = NoApplication]
    /\ UNCHANGED <<authVars, roles, nonces, cookie, handoff, stored, sessions, req, redeemed, workload>>

\* UserRole::assign and remove.  assign_role and remove_role revoke the user's
\* access in a second statement: Revoked.
ChangeRoles(u) ==
    /\ \E new \in SUBSET Roles : new # roles[u] /\ roles' = [roles EXCEPT ![u] = new]
    /\ UNCHANGED <<authVars, app, nonces, cookie, handoff, stored, sessions, req, redeemed, workload>>

-----------------------------------------------------------------------------
(* The central session, and the environment *)

SignedIn(n, u) ==
    /\ Cardinality(creds) < MaxCredentials
    /\ now + SessionExpiry <= MaxTime
    /\ \E v \in 0 .. token_version[u] :
          SignIn([login |-> n, user |-> u, iat |-> now,
                  exp |-> Lesser(now + AccessLifetime, now + SessionExpiry),
                  session_exp |-> now + SessionExpiry, session_version |-> v,
                  auth_time |-> now])
    /\ UNCHANGED forwardVars

Renewed(c) ==
    /\ Cardinality(creds) < MaxCredentials
    /\ Renew(c, [c EXCEPT !.iat = now, !.exp = Lesser(now + AccessLifetime, c.session_exp),
                          !.session_version = RenewedVersion(c)])
    /\ UNCHANGED forwardVars

Revoked(u) == token_version[u] < MaxVersion /\ Revoke(u) /\ UNCHANGED forwardVars

ActiveSet(u) == SetActive(u) /\ UNCHANGED forwardVars

\* The handler's future is dropped between two statements.
Abort(p) ==
    /\ req[p] # Idle
    /\ Goto(p, Idle)
    /\ UNCHANGED <<authVars, app, roles, nonces, cookie, handoff, stored, sessions, redeemed, workload>>

TimePasses == now < MaxTime /\ Tick /\ UNCHANGED forwardVars

-----------------------------------------------------------------------------
Init ==
    /\ AuthorityInit
    /\ app \in Installations
    /\ roles = [u \in Users |-> Roles]
    /\ nonces = [b \in Browsers |-> {}]
    /\ cookie = [b \in Browsers |-> [o \in Hosts |-> NoNonce]]
    /\ handoff = [h \in Handoffs |-> NoHandoff]
    /\ stored = {}
    /\ sessions = {}
    /\ req = [p \in Requests |-> Idle]
    /\ redeemed = [h \in Handoffs |-> 0]
    /\ workload \in Workloads

Busy == Cardinality({p \in Requests : req[p] # Idle})

\* Bound: so many states are about at a time.
States == IF Cardinality(Seen) < workload.nonces THEN Nonces ELSE Seen

RequestStart(p) ==
    \/ \E c \in creds, t \in Targets, n \in States : Redirect(p, c, t, n)
    \/ \E b \in Browsers, h \in Handoffs : Callback(p, b, h)
    \/ \E a \in workload.apps : ReadApplication(p, a)

RequestStep(p) ==
    \/ VerifyParent(p) \/ InsertHandoff(p) \/ ConsumeHandoff(p) \/ CheckPolicy(p)
    \/ Deliver(p) \/ WriteApplication(p) \/ Abort(p)

Next ==
    \/ \E p \in Requests : (Busy < workload.requests /\ RequestStart(p)) \/ RequestStep(p)
    \/ \E b \in workload.browsers, t \in Targets, n \in States : Start(b, t, n)
    \/ "sessions" \in workload.uses /\ \E c \in creds : Renewed(c)
    \/ \E a \in workload.apps : CreateApplication(a) \/ DeleteApplication(a)
    \/ \E u \in Users :
          \/ "policies" \in workload.uses /\ ChangeRoles(u)
          \/ "sessions" \in workload.uses /\ (Revoked(u) \/ ActiveSet(u))
          \/ "sessions" \in workload.uses /\ \E n \in Logins : SignedIn(n, u)
    \/ Sweep
    \/ "sessions" \in workload.uses /\ TimePasses

Spec == Init /\ [][Next]_vars

-----------------------------------------------------------------------------
(* Properties *)

TypeOK ==
    /\ now \in Nat
    /\ active \in [Users -> BOOLEAN]
    /\ token_version \in [Users -> Nat]
    /\ revoked_before \in [Users -> Int]
    /\ creds \subseteq Credential
    /\ dead \subseteq Logins
    /\ app \in [Apps -> ForwardApp \cup {NoApplication}]
    /\ roles \in [Users -> SUBSET Roles]
    /\ nonces \in [Browsers -> SUBSET (Hosts \X Nonces)]
    /\ cookie \in [Browsers -> [Hosts -> Nonces \cup {NoNonce}]]
    /\ handoff \in [Handoffs -> Handoff \cup {NoHandoff}]
    /\ stored \subseteq Handoffs
    /\ sessions \subseteq Browsers \X ForwardSession
    /\ req \in [Requests -> Request]
    /\ redeemed \in [Handoffs -> Nat]
    /\ workload \in Workloads

\* "Sign-in handoffs ... can be redeemed once": however many callbacks have
\* verified a handoff before one of them deletes its row, and whatever the sweep
\* and issue_handoff delete in between (redeem_handoff).
HandoffRedeemedOnce == \A h \in Handoffs : redeemed[h] <= 1

\* A revocation of the central session reaches the forward sessions derived from
\* it: verify_auth accepts none of a login that was revoked, not even one
\* delivered by a callback that had verified or consumed its handoff before.
RevocationReachesForward ==
    \A x \in sessions : x[2].login \in dead => \A t \in Targets : ~Verified(x[2], t)

\* Neither a handoff nor a forward session outlives the session it was derived
\* from (issue_handoff: the deadline is the parent's, not a new one).
ForwardWithinSession ==
    /\ \A x \in sessions : \E c \in creds :
          c.login = x[2].login /\ c.user = x[2].user /\ x[2].exp <= c.session_exp
    /\ \A h \in Handoffs : handoff[h] # NoHandoff => \E c \in creds :
          c.login = handoff[h].session.login /\ handoff[h].exp <= c.session_exp

\* A browser is only ever signed in to a protected site by a login it started
\* there itself: by redeeming a handoff with the state that forward_auth_start
\* gave this browser and no other on this host, whatever links it is made to
\* follow and whoever followed its start link ("so the callback can prove that
\* this browser initiated the login").
SessionsStartInTheirBrowser ==
    \A x \in sessions : \E h \in Handoffs :
        /\ redeemed[h] > 0
        /\ handoff[h].session = x[2]
        /\ \A b \in Browsers : <<x[2].aud, handoff[h].state>> \in nonces[b] <=> b = x[1]

\* The policy that decides about a request is the enabled one with the longest
\* prefix, a literal host preferred; a disabled or an equally specific second one
\* denies, and the order in which the rows are listed does not matter
\* (find_matching, README "Forward-auth security and upgrades").
MostSpecificPolicyDecides ==
    \A listing \in Listings, host \in Hosts :
        \A path \in {PolicyPath[p] : p \in workload.paths} \ {Refused}, a \in Apps :
            FindMatching(app, listing, host, path) = a <=> Decides(app, host, path, a)

\* What forward_redirect and the callback judge is the path itself.  For every
\* path that gets through, the URL parser has taken out the dot segments it sees
\* and normalize_policy_path those that decoding brings out, each as a reference
\* that matches them like brackets does; nothing is left to decode and no two
\* slashes meet; and the parsed path, which the callback judges, leads to the
\* same policy path as the one that was sent.
PolicyPathIsCanonical ==
    \A p \in Requests : req[p].pc \in {"verify", "insert"} =>
        LET path == req[p].target.path
            segs == Decoded(path)
        IN  /\ \A i \in DOMAIN path : path[i].depth <= DecodeRounds
            /\ \A i \in DOMAIN segs : segs[i] = "" => i = Len(segs)
            /\ \E kept \in Survivors(Names, {".."}, segs) :
                  PolicyPath[path] = Joined(kept) \o
                      (IF kept # <<>> /\ Last(segs) = "" THEN <<"/">> ELSE <<>>)
            /\ \A sent \in workload.paths : ParsedPath[sent] = path =>
                  /\ \E kept \in Survivors(Kept, DoubleDots, sent) :
                        path = kept \o FinalSlash(sent)
                  /\ PolicyPath[sent] = PolicyPath[path]

=============================================================================
