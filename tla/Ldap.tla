--------------------------------- MODULE Ldap ---------------------------------
(***************************************************************************)
(* The LDAP server (ldap/server.rs, ldap/handler.rs) with its settings,     *)
(* app passwords and bind limiter.  A connection is a task that loads the   *)
(* configuration for every message, one SELECT per setting, and then works  *)
(* statement by statement while admins and users change the settings and    *)
(* the accounts.  The directory the searches read is fixed (Accounts models *)
(* its changes); who is active, has TOTP or which password is not.          *)
(* `workload' selects who connects, what is sent and what changes.          *)
(***************************************************************************)
EXTENDS LdapSearch, Ber, RateLimiter, FiniteSets

CONSTANTS
    Conns,           \* sockets
    MaxConnections,  \* MAX_CONNECTIONS
    Workloads,       \* name -> [conns, messages, budget, bytes, changes, inputs, first,
                     \*          factors]; budget bounds the messages received
    MaxGeneration,   \* bound: service passwords
    Passwords,       \* primary passwords
    MaxApps,         \* bound: app passwords
    MaxChanges       \* bound: changes of settings and accounts

Uids == {p.uid : p \in Persons}
Modes == {"primary_and_app", "app_only", "primary_only"}

\* The base DNs that are configured at some time.
BaseDns ==
    {s.base_dn : s \in UNION {Workloads[w].first \cup Workloads[w].inputs : w \in DOMAIN Workloads}}

\* hash is the generation of the service password, 0 for none.
LdapConfig == [enabled : BOOLEAN, base_dn : BaseDns, hash : 0..MaxGeneration, mode : Modes]
SettingKeys == <<"enabled", "base_dn", "hash", "mode">>

ASSUME LdapAssumption ==
    /\ IsFiniteSet(Conns)
    /\ {MaxConnections, MaxGeneration, MaxApps, MaxChanges} \subseteq Nat
    /\ Passwords # {}
    /\ \A base_dn \in BaseDns : IsSequence(base_dn)
    /\ \A w \in DOMAIN Workloads :
          /\ Workloads[w].first \cup Workloads[w].inputs \subseteq LdapConfig
          /\ \A m \in Workloads[w].messages : m.op = "search" => SearchParses(m)
          /\ Workloads[w].factors \subseteq BOOLEAN /\ Workloads[w].bytes \subseteq 0..255

VARIABLES
    settings,   \* the settings table
    active, totp, primary,  \* per uid: users.active, an activated factor, the password
    apps,       \* app_passwords: <<number, uid>>
    issued,     \* app passwords generated so far
    creating,   \* create_my_app_password between the mode check and the INSERT
    listening,  \* the listener was started at boot
    conn,       \* connection tasks
    buf,        \* bytes of an incomplete frame
    held,       \* history: what held at some instant since the message came
    received, changes, workload

accountVars == <<active, totp, primary, apps, issued, creating>>
serverVars == <<conn, buf, received>>
vars == <<limiterVars, accountVars, serverVars, settings, listening, held, changes, workload>>

\* BindState
Anonymous == [as |-> "anonymous"]
Service == [as |-> "service"]
User(uid) == [as |-> "user", uid |-> uid]

Blank == [k \in {} |-> 0]
Closed == [pc |-> "closed", cfg |-> Blank, got |-> Blank, bind |-> Anonymous,
           under |-> Blank, msg |-> Blank, totp |-> FALSE, reply |-> Blank]

Loading == {"opening", "loading"}
Binding == {"user", "totp", "app", "primary"}
Searching == {"recheck", "scan"}
PCs == {"closed", "reading", "dispatch", "sending", "closing"} \cup Loading \cup Binding \cup Searching

Here == Workloads[workload]
Put(c, r) == conn' = [conn EXCEPT ![c] = r]
Step(c, r) == Put(c, r) /\ UNCHANGED <<buf, received>>

-----------------------------------------------------------------------------
(* The connection *)

OpenConns == {c \in Conns : conn[c].pc # "closed"}

\* Mutant: one connection too many.
PermitLeftByOne == Cardinality(OpenConns) <= MaxConnections

\* try_acquire_owned
PermitLeft == Cardinality(OpenConns) < MaxConnections

\* run: the accepted socket gets a permit or is dropped.
Accept(c) ==
    /\ listening /\ c \in Here.conns /\ conn[c].pc = "closed" /\ PermitLeft
    /\ Step(c, [Closed EXCEPT !.pc = "opening"])

\* framed.next() with a whole frame.
Receive(c, m) ==
    /\ conn[c].pc = "reading" /\ buf[c] = <<>> /\ received < Here.budget
    /\ Put(c, [conn[c] EXCEPT !.pc = "loading", !.msg = m])
    /\ received' = received + 1
    /\ UNCHANGED buf

\* framed.next() byte by byte: the codec is asked after each.
Arrive(c, b) ==
    /\ conn[c].pc = "reading" /\ received < Here.budget /\ Decode(buf[c]) = More
    /\ buf' = [buf EXCEPT ![c] = Append(@, b)]
    /\ UNCHANGED <<conn, received>>

\* The frame passes and the parser makes a message of it, or refuses it.
TakeFrame(c, m) ==
    /\ conn[c].pc = "reading" /\ Decode(buf[c]).is = "frame"
    /\ buf' = [buf EXCEPT ![c] = <<>>]
    /\ Put(c, [conn[c] EXCEPT !.pc = "loading", !.msg = m])
    /\ received' = received + 1

RefuseFrame(c) ==
    /\ conn[c].pc = "reading" /\ Decode(buf[c]).is \in {"bad", "frame"}
    /\ buf' = [buf EXCEPT ![c] = <<>>]
    /\ Put(c, [conn[c] EXCEPT !.pc = "closing"])
    /\ UNCHANGED received

\* Mutant: only an idle connection times out.
MayHangUpIdle(c) == conn[c].pc = "reading" /\ buf[c] = <<>>

\* The IO_TIMEOUT around framed.next() covers the wait for a whole message.
MayHangUp(c) == conn[c].pc = "reading"

\* The read timed out, or the client closed the socket.
Hangup(c) ==
    /\ MayHangUp(c)
    /\ buf' = [buf EXCEPT ![c] = <<>>]
    /\ Put(c, [conn[c] EXCEPT !.pc = "closing"])
    /\ UNCHANGED received

\* Mutant: a new service password leaves binds alone.
ModeOrBaseChanged(old, new) == new.mode # old.mode \/ new.base_dn # old.base_dn

\* What makes the connection forget its bind.
ConfigChanged(old, new) == new.hash # old.hash \/ new.mode # old.mode \/ new.base_dn # old.base_dn

\* The connection once load_ldap_config has returned cfg.
Configured(x, cfg) ==
    IF x.pc = "opening" THEN [x EXCEPT !.pc = "reading", !.cfg = cfg, !.got = Blank]
    ELSE IF ~cfg.enabled THEN [x EXCEPT !.pc = "closing", !.got = Blank]
    ELSE [x EXCEPT !.pc = "dispatch", !.got = Blank, !.cfg = cfg,
                   !.bind = IF ConfigChanged(x.cfg, cfg) THEN Anonymous ELSE @]

\* load_ldap_config reads the settings one by one, outside a transaction.
ReadSetting(c) ==
    LET x == conn[c]
        n == Cardinality(DOMAIN x.got) + 1
        got == [k \in DOMAIN x.got \cup {SettingKeys[n]} |->
                   IF k \in DOMAIN x.got THEN x.got[k] ELSE settings[k]]
    IN  /\ x.pc \in Loading
        /\ Step(c, IF n = Len(SettingKeys) THEN Configured(x, got) ELSE [x EXCEPT !.got = got])

Replying(x, code) == [x EXCEPT !.pc = "sending", !.reply = Done(code, {})]
Refused(x) == [Replying(x, "invalid_credentials") EXCEPT !.bind = Anonymous]
Failed(x) == [Replying(x, "operations") EXCEPT !.bind = Anonymous]
Bound(x, bind) == [Replying(x, "success") EXCEPT !.bind = bind, !.under = x.cfg]

\* Whom a bind DN names under the configuration.
NamesUser(dn, cfg) == DepthUnder(dn, PeopleDn(cfg.base_dn), 1) /\ Head(dn)[1] = "uid"

\* handle_service_bind, against the hash in the configuration that was loaded.
\* After a match no connection may be had to log it.
ServiceBind(x) ==
    IF x.cfg.hash # 0 /\ x.msg.pw = <<"service", x.cfg.hash>>
    THEN {Bound(x, Service), Failed(x)} ELSE {Refused(x)}

\* handle_bind up to the first read of the user.
DispatchBind(c) ==
    LET x == conn[c]
        dn == x.msg.dn
    IN  /\ x.pc = "dispatch" /\ x.msg.op = "bind"
        /\ IF dn = <<>> /\ x.msg.pw = <<"none", 0>>
           THEN /\ Step(c, [Replying(x, "success") EXCEPT !.bind = Anonymous])
                /\ UNCHANGED limiterVars
           ELSE \E a \in Addresses :
                /\ Check(a)
                /\ \E y \in IF ~Allowed(a) \/ dn = BadDn THEN {Refused(x)}
                             ELSE IF DnEquals(dn, ServiceDn(x.cfg.base_dn)) THEN ServiceBind(x)
                             ELSE IF NamesUser(dn, x.cfg) THEN {[x EXCEPT !.pc = "user"]}
                             ELSE {Refused(x)} :
                      Step(c, y)

Uid(x) == Head(x.msg.dn)[2]

\* User::get_by_username.
ReadUser(c) ==
    LET x == conn[c] IN
    /\ x.pc = "user"
    /\ Step(c, IF Uid(x) \in Uids /\ active[Uid(x)] THEN [x EXCEPT !.pc = "totp"] ELSE Refused(x))

\* user_has_totp, and the choice of what to try first.
ReadTotp(c) ==
    LET x == [conn[c] EXCEPT !.totp = totp[Uid(conn[c])]] IN
    /\ conn[c].pc = "totp"
    /\ Step(c, IF x.cfg.mode # "primary_only" THEN [x EXCEPT !.pc = "app"]
               ELSE IF x.totp THEN Refused(x) ELSE [x EXCEPT !.pc = "primary"])

\* Mutant: the second factor is forgotten.
TriesPrimaryAlways(x) == x.cfg.mode = "primary_and_app"

\* Whether the primary password is tried once no app password fits.
TriesPrimary(x) == x.cfg.mode = "primary_and_app" /\ ~x.totp

\* AppPassword::verify_for_user; last_used_at, which nothing reads, is left out.
VerifyForUser(uid, pw) == \E row \in apps : row[2] = uid /\ pw = <<"app", row[1]>>

\* try_password_login, for the user row that was read active.
TryPasswordLogin(uid, pw) == pw = <<"primary", primary[uid]>>

\* try_app_password
TryApp(c) ==
    LET x == conn[c] IN
    /\ x.pc = "app"
    /\ Step(c, IF VerifyForUser(Uid(x), x.msg.pw)
               THEN Bound(x, User(Uid(x)))
               ELSE IF TriesPrimary(x) THEN [x EXCEPT !.pc = "primary"] ELSE Refused(x))

\* try_primary
TryPrimary(c) ==
    LET x == conn[c] IN
    /\ x.pc = "primary"
    /\ Step(c, IF TryPasswordLogin(Uid(x), x.msg.pw) THEN Bound(x, User(Uid(x)))
               ELSE Refused(x))

\* handle_search up to the first statement.
DispatchSearch(c) ==
    LET x == conn[c]
        start == SearchStart(x.bind = Anonymous, x.cfg.base_dn, x.msg)
    IN  /\ x.pc = "dispatch" /\ x.msg.op = "search"
        /\ Step(c, IF start.code # "scan" THEN [x EXCEPT !.pc = "sending", !.reply = start]
                   ELSE [x EXCEPT !.pc = IF x.bind.as = "user" THEN "recheck" ELSE "scan"])

\* A user's search looks whether the user is still active.
Recheck(c) ==
    LET x == conn[c] IN
    /\ x.pc = "recheck"
    /\ Step(c, IF active[x.bind.uid] THEN [x EXCEPT !.pc = "scan"] ELSE Replying(x, "insufficient"))

\* The lists of users and roles, and the roles user by user: a lookup of roles
\* that fails is taken for an empty one, and the search goes on and succeeds.
Scan(c) ==
    LET x == conn[c]
        base_dn == x.cfg.base_dn
    IN  /\ x.pc = "scan"
        /\ \E lost \in MayLose(base_dn, x.msg) :
              Step(c, [x EXCEPT !.pc = "sending",
                                !.reply = Reply("success", SearchScan(base_dn, x.msg, lost), lost)])

\* Unbind, Whoami, Compare, and what is not supported: unsupported_response has
\* no answer to an extended request or an abandon.
DispatchOther(c) ==
    LET x == conn[c] IN
    /\ x.pc = "dispatch" /\ x.msg.op \notin {"bind", "search"}
    /\ Step(c, CASE x.msg.op = "unbind" -> [x EXCEPT !.pc = "closing"]
                 [] x.msg.op = "extended" -> [x EXCEPT !.pc = "reading", !.msg = Blank]
                 [] x.msg.op = "modify" -> Replying(x, "unwilling")
                 [] OTHER -> Replying(x, "success"))

\* The database fails a statement that is not one of the role lookups of Scan:
\* the operation ends in an error, which try_primary calls invalid credentials; a
\* load ends the connection.
DbFails(c) ==
    LET x == conn[c] IN
    \/ x.pc \in Loading /\ Step(c, Closed)
    \/ x.pc = "primary" /\ Step(c, Refused(x))
    \/ x.pc \in Binding \ {"primary"} /\ Step(c, Failed(x))
    \/ x.pc \in Searching /\ Step(c, Replying(x, "operations"))

\* The replies have gone out.
Send(c) ==
    /\ conn[c].pc = "sending"
    /\ Step(c, [conn[c] EXCEPT !.pc = "reading", !.msg = Blank, !.reply = Blank, !.totp = FALSE])

\* A reply could not be sent, or not in IO_TIMEOUT: a search returns at once, the
\* other operations say goodbye.
SendFails(c) ==
    /\ conn[c].pc = "sending"
    /\ Step(c, IF conn[c].msg.op = "search" THEN Closed ELSE [conn[c] EXCEPT !.pc = "closing"])

\* The notice is sent, fails or times out; the permit is released.
Goodbye(c) == conn[c].pc = "closing" /\ Step(c, Closed)

-----------------------------------------------------------------------------
(* Settings, accounts and the process *)

Changing(what) == what \in Here.changes /\ changes < MaxChanges /\ changes' = changes + 1

\* update_settings, in one transaction.
UpdateLdap ==
    /\ Changing("settings")
    /\ \E input \in Here.inputs : settings' = [input EXCEPT !.hash = settings.hash]
    /\ UNCHANGED accountVars

\* regenerate_ldap_bind_password
RegenerateBindPassword ==
    /\ Changing("settings") /\ settings.hash < MaxGeneration
    /\ settings' = [settings EXCEPT !.hash = @ + 1]
    /\ UNCHANGED accountVars

ChangePassword(u) ==
    /\ Changing("accounts") /\ \E p \in Passwords : primary' = [primary EXCEPT ![u] = p]
    /\ UNCHANGED <<settings, active, totp, apps, issued, creating>>

SetActive(u) ==
    /\ Changing("accounts") /\ active' = [active EXCEPT ![u] = ~@]
    /\ UNCHANGED <<settings, totp, primary, apps, issued, creating>>

\* A factor is activated or deleted (Totp).
ToggleTotp(u) ==
    /\ Changing("accounts") /\ totp' = [totp EXCEPT ![u] = ~@]
    /\ UNCHANGED <<settings, active, primary, apps, issued, creating>>

\* create_my_app_password: the mode is checked, and the row inserted in a later
\* statement.
AskAppPassword(u) ==
    /\ Changing("accounts") /\ settings.mode # "primary_only" /\ u \notin creating
    /\ creating' = creating \cup {u}
    /\ UNCHANGED <<settings, active, totp, primary, apps, issued>>

InsertAppPassword(u) ==
    /\ u \in creating /\ issued < MaxApps
    /\ creating' = creating \ {u}
    /\ issued' = issued + 1
    /\ apps' = apps \cup {<<issued', u>>}
    /\ UNCHANGED <<settings, active, totp, primary, changes>>

\* delete_my_app_password, admin_delete_app_password
DeleteAppPassword(row) ==
    /\ Changing("accounts") /\ row \in apps /\ apps' = apps \ {row}
    /\ UNCHANGED <<settings, active, totp, primary, issued, creating>>

\* restart_service or a crash: connections and the limiter are gone, and the
\* listener is started if LDAP is enabled now.
Restart ==
    /\ Changing("process")
    /\ conn' = [c \in Conns |-> Closed] /\ buf' = [c \in Conns |-> <<>>]
    /\ listening' = settings.enabled
    /\ creating' = {}
    /\ ClearLimiter
    /\ UNCHANGED <<settings, active, totp, primary, apps, issued, received>>

-----------------------------------------------------------------------------
(* The specification *)

\* What is the case, as pairs <<what, of what>>.
Facts ==
    {<<k, settings[k]>> : k \in DOMAIN settings}
    \cup {<<"active", u>> : u \in {v \in Uids : active[v]}}
    \cup {<<"no_totp", u>> : u \in {v \in Uids : ~totp[v]}}
    \cup {<<"primary", <<primary[u], u>>>> : u \in Uids}
    \cup {<<"app", row>> : row \in apps}

AtWork(x) == x.pc \in {"loading", "dispatch", "sending"} \cup Binding \cup Searching

\* The facts gathered since the message came.
Remember ==
    held' = [c \in Conns |->
                IF ~AtWork(conn'[c]) THEN {}
                ELSE IF AtWork(conn[c]) THEN held[c] \cup Facts' ELSE Facts']

Init ==
    /\ LimiterInit
    /\ workload \in DOMAIN Workloads
    /\ settings \in Here.first
    /\ active = [u \in Uids |-> TRUE]
    /\ totp \in [Uids -> Here.factors]
    /\ primary = [u \in Uids |-> CHOOSE p \in Passwords : TRUE]
    /\ apps = {} /\ issued = 0 /\ creating = {}
    /\ listening = settings.enabled
    /\ conn = [c \in Conns |-> Closed]
    /\ buf = [c \in Conns |-> <<>>]
    /\ held = [c \in Conns |-> {}]
    /\ received = 0 /\ changes = 0

\* What the server does for a connection by itself; a reply is sent or fails.
ServerStep(c) ==
    \/ DispatchBind(c)
    \/ /\ \/ ReadSetting(c) \/ ReadUser(c) \/ ReadTotp(c) \/ TryApp(c) \/ TryPrimary(c)
          \/ DispatchSearch(c) \/ Recheck(c) \/ Scan(c) \/ DispatchOther(c)
          \/ DbFails(c) \/ Send(c) \/ SendFails(c) \/ Goodbye(c)
       /\ UNCHANGED limiterVars

\* What comes from the socket.
ClientStep(c) ==
    \/ Accept(c)
    \/ \E m \in Here.messages : Receive(c, m)
    \/ \E m \in Here.messages : TakeFrame(c, m)
    \/ RefuseFrame(c)
    \/ \E b \in Here.bytes : Arrive(c, b)

World ==
    \/ UpdateLdap \/ RegenerateBindPassword
    \/ \E u \in Uids : \/ ChangePassword(u) \/ SetActive(u) \/ ToggleTotp(u)
                       \/ AskAppPassword(u) \/ InsertAppPassword(u)
    \/ \E row \in apps : DeleteAppPassword(row)

Others == <<settings, accountVars, listening, changes>>

ServerNext(c) == ServerStep(c) /\ UNCHANGED Others /\ Remember /\ UNCHANGED workload
HangupNext(c) == Hangup(c) /\ UNCHANGED <<Others, limiterVars, workload>> /\ Remember

Next ==
    \/ \E c \in Conns : ServerNext(c) \/ HangupNext(c)
    \/ /\ \/ (\E c \in Conns : ClientStep(c)) /\ UNCHANGED <<Others, limiterVars>>
          \/ World /\ UNCHANGED <<limiterVars, listening, serverVars>>
          \/ Restart
          \/ "process" \in Here.changes /\ (Passage \/ Cleanup) /\ UNCHANGED <<Others, serverVars>>
       /\ Remember
       /\ UNCHANGED workload

\* The tokio runtime runs every task that can go on, and IO_TIMEOUT ends every
\* read and every send.
Spec ==
    /\ Init /\ [][Next]_vars
    /\ \A c \in Conns : WF_vars(ServerNext(c)) /\ WF_vars(HangupNext(c))

-----------------------------------------------------------------------------
(* Properties *)

TypeOK ==
    /\ LimiterTypeOK
    /\ workload \in DOMAIN Workloads
    /\ settings \in LdapConfig
    /\ {active, totp} \subseteq [Uids -> BOOLEAN]
    /\ primary \in [Uids -> Passwords]
    /\ issued \in 0..MaxApps
    /\ apps \subseteq (1..issued) \X Uids /\ creating \subseteq Uids
    /\ \A c \in Conns : conn[c].pc \in PCs
    /\ Cardinality(OpenConns) <= MaxConnections
    /\ received \in Nat /\ changes \in 0..MaxChanges

\* What the connection sends is more than the Root DSE.
SendsEntries(x) ==
    /\ x.pc = "sending" /\ x.msg.op = "search"
    /\ ~(x.reply.entries \subseteq {RootDse(x.cfg.base_dn)})

\* The directory is only sent to a bind that is still good: the service password,
\* the mode and the base DN the bind was made under were in force, LDAP was
\* enabled and a bound user was active at some instant since the search came in
\* (password_rotation_revokes_bound_directory_access_and_rejects_old_password,
\* deactivation_revokes_search_on_an_existing_user_bind).
BoundSearchesAreCurrent ==
    \A c \in Conns :
        LET x == conn[c] IN
        SendsEntries(x) /\ x.bind # Anonymous =>
            /\ <<"enabled", TRUE>> \in held[c]
            /\ \A k \in {"hash", "mode", "base_dn"} : <<k, x.under[k]>> \in held[c]
            /\ x.bind.as = "user" => <<"active", x.bind.uid>> \in held[c]

\* A user is bound only when active and by a password that was valid at an instant
\* of the request: an app password where the mode allows them, the primary one
\* where the mode allows it and the user had no TOTP (LdapPasswordMode).
UserBindsAreJustified ==
    \A c \in Conns :
        LET x == conn[c]
            u == x.bind.uid
            pw == x.msg.pw
            allowed(modes) == \E m \in modes : <<"mode", m>> \in held[c]
        IN  x.pc = "sending" /\ x.msg.op = "bind" /\ x.bind.as = "user" =>
                /\ <<"active", u>> \in held[c]
                /\ <<pw[1], <<pw[2], u>>>> \in held[c]
                /\ \/ pw[1] = "app" /\ allowed({"primary_and_app", "app_only"})
                   \/ /\ pw[1] = "primary" /\ allowed({"primary_and_app", "primary_only"})
                      /\ <<"no_totp", u>> \in held[c]

\* A search that succeeds returns exactly the entries in its scope that satisfy its
\* filter: the units that are skipped hold none of them, and taking each part of a
\* substring filter at its first place loses none (handle_search,
\* substring_matches).  A role lookup that fails in between does not fail the search;
\* the answer is then that of a directory in which the user is in no role, and it
\* has the wrong entries only if the filter asks for memberOf or member.
SearchAnswersScope ==
    \A c \in Conns :
        LET x == conn[c]
            answer(lost) == Answer(x.cfg.base_dn, x.msg, lost)
        IN  x.pc = "sending" /\ x.msg.op = "search" /\ x.reply.code = "success"
            /\ ~(x.msg.base = <<>> /\ x.msg.scope = "base") =>
                /\ x.reply.entries = answer(x.reply.lost)
                /\ RoleBlind(x.msg.filter) => Names(x.reply.entries) = Names(answer(NoneLost))

\* The codec takes exactly the frames that are well nested and small enough, and
\* drops a connection exactly when what came can no longer become one, at
\* whatever byte that is known (BoundedLdapCodec, "before the upstream recursive
\* parser sees them").
FramesAreDecided ==
    \A c \in Conns :
        /\ Decode(buf[c]).is = "frame" <=> IsFrame(buf[c])
        /\ Decode(buf[c]).is = "bad" <=> IsHopeless(buf[c])

\* Without a bind only the Root DSE is sent: "Require a bind for anything but the
\* Root DSE" (handle_search).
AnonymousSeesRootDse == \A c \in Conns : SendsEntries(conn[c]) => conn[c].bind # Anonymous

\* Every connection ends and gives its permit back, wherever its client falls
\* silent, in the middle of a frame too (timeout(IO_TIMEOUT, ...)).
ConnectionsEnd == \A c \in Conns : conn[c].pc # "closed" ~> conn[c].pc = "closed"

=============================================================================
