------------------------------ MODULE LdapProofs ------------------------------
(***************************************************************************)
(* Proofs about the LDAP server and its bind limiter.                       *)
(***************************************************************************)
EXTENDS Ldap, LdapLemmas, FiniteSetTheorems, TLAPS

-----------------------------------------------------------------------------
(* The bind limiter *)

\* The entry e and the history s of one address at time t: the current window began
\* at w with the first of the last c attempts, those before came before w, and those
\* a whole quota back a Window or more before w.  An entry that cleanup removed, or
\* that was never there, has a window that ended.
RateOK(e, s, t, w, c) ==
    /\ \/ e = [count |-> c, window_start |-> w] /\ w >= 0
       \/ e = NoEntry /\ w + Window <= t
    /\ c <= Len(s) /\ w <= t /\ (c > 0 => s[Len(s) - c + 1] = w)
    /\ \A i \in 1..Len(s) :
          /\ i > Len(s) - c => w <= s[i] /\ s[i] < w + Window
          /\ i <= Len(s) - c => s[i] < w
          /\ i <= Len(s) - c - MaxRequests + 1 => s[i] + Window <= w
    /\ \A i, j \in 1..Len(s) : j = i + 2 * MaxRequests - 1 => s[j] - s[i] >= Window

\* check never leaves an entry that has let nobody in.
RateInv ==
    \A a \in Addresses : \E w \in Int, c \in 0..MaxRequests :
        RateOK(entries[a], admitted[a], clock, w, c) /\ (entries[a] = NoEntry \/ c > 0)

LimiterInv == LimiterTypeOK /\ RateInv

\* An empty limiter, at any time.
LEMMA EmptyLimiter ==
    ASSUME NEW t \in 0..MaxClock
    PROVE  \E w \in Int, c \in 0..MaxRequests : RateOK(NoEntry, <<>>, t, w, c)
<1>1. t - Window \in Int /\ 0 \in 0..MaxRequests
  BY LimiterAssumption
<1>2. RateOK(NoEntry, <<>>, t, t - Window, 0)
  BY LimiterAssumption DEF RateOK
<1> QED BY <1>1, <1>2

\* A window that starts at t once the last one ended.
LEMMA NewWindow ==
    ASSUME NEW e, NEW s \in Seq(0..MaxClock), NEW t \in 0..MaxClock, NEW w \in Int,
           NEW c \in 0..MaxRequests, RateOK(e, s, t, w, c), w + Window <= t
    PROVE  RateOK([count |-> 0, window_start |-> t], s, t, t, 0)
<1>1. /\ MaxRequests \in Nat \ {0} /\ Window \in Nat \ {0} /\ Len(s) \in Nat
      /\ \A i \in 1..Len(s) : s[i] \in 0..MaxClock
  BY LimiterAssumption
<1>2. ASSUME NEW i \in 1..Len(s)
      PROVE  /\ i > Len(s) - 0 => t <= s[i] /\ s[i] < t + Window
             /\ i <= Len(s) - 0 => s[i] < t
             /\ i <= Len(s) - 0 - MaxRequests + 1 => s[i] + Window <= t
  <2>1. s[i] \in Int
    BY <1>1, LimiterAssumption
  <2>2. i > Len(s) - c => w <= s[i] /\ s[i] < w + Window
    BY DEF RateOK
  <2>3. i <= Len(s) - c => s[i] < w
    BY DEF RateOK
  <2>4. ASSUME i <= Len(s) - MaxRequests + 1 PROVE s[i] <= w
    <3>1. CASE i <= Len(s) - c
      BY <2>1, <2>3, <3>1
    <3>2. CASE i > Len(s) - c
      <4>1. c > 0 /\ i = Len(s) - c + 1
        BY <1>1, <2>4, <3>2
      <4> QED BY <4>1 DEF RateOK
    <3> QED BY <1>1, <3>1, <3>2
  <2> QED BY <1>1, <2>1, <2>2, <2>3, <2>4
<1> QED BY <1>1, <1>2 DEF RateOK

\* An attempt that is let in during the window.
LEMMA LetIn ==
    ASSUME NEW s \in Seq(0..MaxClock), NEW t \in 0..MaxClock, NEW w \in Int,
           NEW c \in 0..MaxRequests, RateOK([count |-> c, window_start |-> w], s, t, w, c),
           w >= 0, t < w + Window, c < MaxRequests, c = 0 => t = w
    PROVE  RateOK([count |-> c + 1, window_start |-> w], Append(s, t), t, w, c + 1)
<1> DEFINE z == Append(s, t)
<1>1. /\ MaxRequests \in Nat \ {0} /\ Window \in Nat \ {0} /\ Len(s) \in Nat /\ c \in Nat
      /\ Len(z) = Len(s) + 1
      /\ \A i \in 1..Len(s) : z[i] = s[i] /\ s[i] \in Int
      /\ z[Len(s) + 1] = t
  BY LimiterAssumption
<1> HIDE DEF z
<1>2. ASSUME NEW i \in 1..Len(z)
      PROVE  /\ i > Len(z) - (c + 1) => w <= z[i] /\ z[i] < w + Window
             /\ i <= Len(z) - (c + 1) => z[i] < w
             /\ i <= Len(z) - (c + 1) - MaxRequests + 1 => z[i] + Window <= w
  <2>1. t \in Int /\ w <= t
    BY LimiterAssumption DEF RateOK
  <2>2. CASE i = Len(s) + 1
    BY <1>1, <2>1, <2>2
  <2>3. CASE i \in 1..Len(s)
    <3>1. /\ i > Len(s) - c => w <= s[i] /\ s[i] < w + Window
          /\ i <= Len(s) - c => s[i] < w
          /\ i <= Len(s) - c - MaxRequests + 1 => s[i] + Window <= w
      BY <2>3 DEF RateOK
    <3> QED BY <1>1, <2>3, <3>1
  <2> QED BY <1>1, <2>2, <2>3
<1>3. ASSUME NEW i \in 1..Len(z), NEW j \in 1..Len(z), j = i + 2 * MaxRequests - 1
      PROVE  z[j] - z[i] >= Window
  <2>1. CASE j <= Len(s)
    BY <1>1, <1>3, <2>1 DEF RateOK
  <2>2. CASE j = Len(s) + 1
    <3>1. i <= Len(z) - (c + 1) - MaxRequests + 1
      BY <1>1, <1>3, <2>2
    <3>2. z[i] + Window <= w /\ z[i] \in Int /\ t \in Int /\ w <= t
      <4>1. i \in 1..Len(s)
        BY <1>1, <1>3, <2>2
      <4> QED BY <1>1, <1>2, <3>1, <4>1, LimiterAssumption DEF RateOK
    <3>3. z[j] = t
      BY <1>1, <2>2
    <3> QED BY <1>1, <3>2, <3>3
  <2> QED BY <1>1, <2>1, <2>2
<1>4. c + 1 <= Len(z) /\ w <= t /\ z[Len(z) - (c + 1) + 1] = w
  <2>1. c <= Len(s) /\ w <= t /\ (c > 0 => s[Len(s) - c + 1] = w)
    BY DEF RateOK
  <2>2. CASE c = 0
    BY <1>1, <2>1, <2>2
  <2>3. CASE c > 0
    <3>1. Len(s) - c + 1 \in 1..Len(s) /\ Len(z) - (c + 1) + 1 = Len(s) - c + 1
      BY <1>1, <2>1, <2>3
    <3> QED BY <1>1, <2>1, <2>3, <3>1
  <2> QED BY <1>1, <2>2, <2>3
<1>5. RateOK([count |-> c + 1, window_start |-> w], z, t, w, c + 1)
  BY <1>2, <1>3, <1>4 DEF RateOK
<1> QED BY <1>5 DEF z

\* Time that goes by.
LEMMA LaterOK ==
    ASSUME NEW e, NEW s, NEW t \in Int, NEW w \in Int, NEW c, RateOK(e, s, t, w, c),
           NEW later \in Int, later >= t
    PROVE  RateOK(e, s, later, w, c)
BY LimiterAssumption DEF RateOK

\* check keeps the invariant, whether it lets the attempt in or not.
LEMMA CheckInv ==
    ASSUME LimiterInv, NEW a \in Addresses, Check(a)
    PROVE  LimiterInv'
<1> DEFINE e == entries[a]
           s == admitted[a]
           cur == Current(a)
<1>0. /\ clock \in 0..MaxClock /\ clock \in Int /\ e \in RateLimitEntry
      /\ s \in Seq(0..MaxClock) /\ MaxRequests \in Nat \ {0} /\ Window \in Nat \ {0}
      /\ clock' = clock
  BY LimiterAssumption DEF LimiterInv, LimiterTypeOK, Check
<1>1. PICK w \in Int, c \in 0..MaxRequests :
         RateOK(e, s, clock, w, c) /\ (e = NoEntry \/ c > 0)
  BY DEF LimiterInv, RateInv
<1>2. PICK v \in 0..MaxClock, d \in 0..MaxRequests :
         /\ RateOK(cur, s, clock, v, d)
         /\ cur = [count |-> d, window_start |-> v]
         /\ clock < v + Window
         /\ d = 0 => clock = v
  <2>1. CASE e = NoEntry \/ ~Fresh(e)
    <3>1. w + Window <= clock
      BY <1>0, <1>1, <2>1 DEF RateOK, Fresh, NoEntry
    <3>2. cur = [count |-> 0, window_start |-> clock]
      BY <2>1 DEF Current
    <3>3. RateOK([count |-> 0, window_start |-> clock], s, clock, clock, 0)
      BY <1>0, <1>1, <3>1, NewWindow
    <3> QED BY <1>0, <3>2, <3>3
  <2>2. CASE ~(e = NoEntry \/ ~Fresh(e))
    <3>1. cur = e /\ e = [count |-> c, window_start |-> w] /\ w >= 0
      BY <1>1, <2>2 DEF RateOK, Current
    <3>2. clock < w + Window
      BY <1>0, <2>2, <3>1 DEF Fresh
    <3>3. w \in 0..MaxClock
      BY <1>0, <3>1, LimiterAssumption DEF RateLimitEntry
    <3>4. c > 0 /\ c # 0
      BY <1>0, <1>1, <2>2
    <3> QED BY <1>1, <3>1, <3>2, <3>3, <3>4
  <2> QED BY <2>1, <2>2
<1>3. v \in Int /\ v >= 0 /\ v \in -1..MaxClock /\ d \in Nat
  BY LimiterAssumption
<1>a. ASSUME NEW n \in 0..MaxRequests, n > 0, NEW z,
             RateOK([count |-> n, window_start |-> v], z, clock, v, n),
             entries' = [entries EXCEPT ![a] = [count |-> n, window_start |-> v]],
             admitted' = [admitted EXCEPT ![a] = z]
      PROVE  RateInv'
  <2> SUFFICES ASSUME NEW b \in Addresses
               PROVE  \E x \in Int, y \in 0..MaxRequests :
                         RateOK(entries'[b], admitted'[b], clock', x, y)
                         /\ (entries'[b] = NoEntry \/ y > 0)
    BY DEF RateInv
  <2>1. CASE b = a
    <3>1. entries'[b] = [count |-> n, window_start |-> v] /\ admitted'[b] = z
      BY <1>a, <2>1 DEF LimiterInv, LimiterTypeOK
    <3> QED BY <1>0, <1>3, <1>a, <3>1
  <2>2. CASE b # a
    <3>1. entries'[b] = entries[b] /\ admitted'[b] = admitted[b]
      BY <1>a, <2>2 DEF LimiterInv, LimiterTypeOK
    <3> QED BY <1>0, <3>1 DEF LimiterInv, RateInv
  <2> QED BY <2>1, <2>2
<1>4. CASE Allowed(a)
  <2>1. d < MaxRequests /\ d + 1 \in 0..MaxRequests /\ d + 1 > 0
    BY <1>0, <1>2, <1>4 DEF Allowed
  <2>2. entries' = [entries EXCEPT ![a] = [count |-> d + 1, window_start |-> v]]
    <3>1. [cur EXCEPT !.count = @ + 1] = [count |-> d + 1, window_start |-> v]
      <4> HIDE DEF cur
      <4> QED BY <1>2
    <3> QED BY <1>4, <3>1 DEF Check
  <2>3. admitted' = [admitted EXCEPT ![a] = Append(s, clock)]
    BY <1>4 DEF Check
  <2>4. RateOK([count |-> d + 1, window_start |-> v], Append(s, clock), clock, v, d + 1)
    BY <1>0, <1>2, <1>3, <2>1, LetIn
  <2>5. LimiterTypeOK'
    BY <1>0, <1>3, <2>1, <2>2, <2>3 DEF LimiterInv, LimiterTypeOK, RateLimitEntry
  <2>6. RateInv'
    BY <1>3, <1>a, <2>1, <2>2, <2>3, <2>4
  <2> QED BY <2>5, <2>6 DEF LimiterInv
<1>5. CASE ~Allowed(a)
  <2>1. entries' = [entries EXCEPT ![a] = [count |-> d, window_start |-> v]] /\ admitted' = admitted
    BY <1>2, <1>5 DEF Check
  <2>2. LimiterTypeOK'
    BY <1>0, <1>3, <2>1 DEF LimiterInv, LimiterTypeOK, RateLimitEntry
  <2>3. RateInv'
    <3>1. d > 0 /\ cur.count = d
      BY <1>0, <1>2, <1>5 DEF Allowed
    <3>2. admitted' = [admitted EXCEPT ![a] = s]
      BY <2>1 DEF LimiterInv, LimiterTypeOK
    <3> QED BY <1>2, <1>a, <2>1, <3>1, <3>2
  <2> QED BY <2>2, <2>3 DEF LimiterInv
<1> QED BY <1>4, <1>5

\* cleanup removes only entries whose window ended.
LEMMA CleanupInv ==
    ASSUME LimiterInv, Cleanup
    PROVE  LimiterInv'
<1>1. LimiterTypeOK'
  BY LimiterAssumption DEF LimiterInv, LimiterTypeOK, Cleanup, RateLimitEntry, NoEntry
<1>2. ASSUME NEW a \in Addresses
      PROVE  \E w \in Int, c \in 0..MaxRequests :
                RateOK(entries'[a], admitted'[a], clock', w, c) /\ (entries'[a] = NoEntry \/ c > 0)
  <2>1. PICK w \in Int, c \in 0..MaxRequests :
           RateOK(entries[a], admitted[a], clock, w, c) /\ (entries[a] = NoEntry \/ c > 0)
    BY DEF LimiterInv, RateInv
  <2>2. CASE Retained(entries[a])
    BY <2>1, <2>2 DEF Cleanup
  <2>3. CASE ~Retained(entries[a])
    <3>1. w + Window <= clock
      BY <2>1, <2>3, LimiterAssumption
      DEF RateOK, Retained, Fresh, LimiterInv, LimiterTypeOK
    <3>2. entries'[a] = NoEntry /\ admitted'[a] = admitted[a] /\ clock' = clock
      BY <2>3 DEF Cleanup
    <3> QED BY <2>1, <3>1, <3>2 DEF RateOK
  <2> QED BY <2>2, <2>3
<1> QED BY <1>1, <1>2 DEF LimiterInv, RateInv

\* The limiter of a new process.
LEMMA ClearInv ==
    ASSUME LimiterInv, ClearLimiter
    PROVE  LimiterInv'
<1>1. LimiterTypeOK'
  BY LimiterAssumption DEF LimiterInv, LimiterTypeOK, ClearLimiter, RateLimitEntry, NoEntry
<1>2. RateInv'
  BY EmptyLimiter DEF LimiterInv, LimiterTypeOK, ClearLimiter, RateInv
<1> QED BY <1>1, <1>2 DEF LimiterInv

\* A tick.
LEMMA PassageInv ==
    ASSUME LimiterInv, Passage
    PROVE  LimiterInv'
<1>1. LimiterTypeOK'
  BY LimiterAssumption DEF LimiterInv, LimiterTypeOK, Passage
<1>2. RateInv'
  <2>1. clock \in Int /\ clock' \in Int /\ clock' >= clock
    BY LimiterAssumption DEF LimiterInv, LimiterTypeOK, Passage
  <2> QED BY <2>1, LaterOK DEF LimiterInv, RateInv, Passage
<1> QED BY <1>1, <1>2 DEF LimiterInv

\* The limiter begins empty.
LEMMA LimiterInitInv ==
    ASSUME LimiterInit
    PROVE  LimiterInv
<1>1. LimiterTypeOK
  BY LimiterAssumption DEF LimiterTypeOK, LimiterInit, RateLimitEntry, NoEntry
<1>2. RateInv
  BY EmptyLimiter, LimiterAssumption DEF LimiterInit, RateInv
<1> QED BY <1>1, <1>2 DEF LimiterInv

\* The invariant bounds the attempts of any Window.
LEMMA RateBound ==
    ASSUME LimiterInv
    PROVE  BindRateBounded
<1> SUFFICES ASSUME NEW a \in Addresses, NEW i \in DOMAIN admitted[a], NEW j \in DOMAIN admitted[a],
                    j = i + 2 * MaxRequests - 1
             PROVE  admitted[a][j] - admitted[a][i] >= Window
  BY DEF BindRateBounded
<1>1. DOMAIN admitted[a] = 1..Len(admitted[a])
  BY DEF LimiterInv, LimiterTypeOK
<1> QED BY <1>1 DEF LimiterInv, RateInv, RateOK

-----------------------------------------------------------------------------
(* A connection x and the facts h that held at some instant of its message *)

\* A connection task has the fields of a connection task.
IsConn(x) ==
    x = [pc |-> x.pc, cfg |-> x.cfg, got |-> x.got, bind |-> x.bind, under |-> x.under,
         msg |-> x.msg, totp |-> x.totp, reply |-> x.reply]

Binds == {Anonymous, Service} \cup {User(u) : u \in Uids}

\* The message is being answered under a configuration that was loaded for it.
Served == {"dispatch", "sending"} \cup Binding \cup Searching

\* What makes the connection forget its bind, and the settings read so far.
BindKeys == {"hash", "mode", "base_dn"}
ReadSoFar == {{}, {"enabled"}, {"enabled", "base_dn"}, {"enabled", "base_dn", "hash"}}

\* A bind made under the one configuration is kept under the other.
SameBind(under, cfg) == \A k \in BindKeys : under[k] = cfg[k]

\* load_ldap_config has read settings that held, one after the other.
LoadOK(x, h) ==
    /\ x.pc \notin Loading => x.got = Blank
    /\ x.pc \in Loading => DOMAIN x.got \in ReadSoFar
    /\ x.pc = "loading" =>
          /\ "enabled" \in DOMAIN x.got => x.got["enabled"] \in BOOLEAN
          /\ \A k \in DOMAIN x.got : <<k, x.got[k]>> \in h

\* The configuration held while the message was answered, with LDAP enabled, and a
\* bind that is kept was made under one with the same password, mode and base DN.
ConfigOK(x, h) ==
    /\ x.pc \in Served =>
          /\ <<"enabled", TRUE>> \in h
          /\ x.cfg.mode \in Modes
          /\ \A k \in BindKeys : <<k, x.cfg[k]>> \in h
    /\ x.pc = "opening" => x.bind = Anonymous
    /\ x.bind # Anonymous => SameBind(x.under, x.cfg)

\* The reply holds the Root DSE at most.
RootOnly(reply, base_dn) == reply.entries \subseteq {RootDse(base_dn)}

\* A user's search that goes through the directory has found the user active.
SearchOK(x, h) ==
    /\ x.pc \in Searching => x.msg.op = "search"
    /\ x.bind.as = "user" =>
          /\ x.pc = "scan" => <<"active", x.bind.uid>> \in h
          /\ x.pc = "sending" /\ x.msg.op = "search" =>
                \/ RootOnly(x.reply, x.cfg.base_dn)
                \/ <<"active", x.bind.uid>> \in h

\* What user u may bind with.
Justified(pw, u, h) ==
    /\ <<"active", u>> \in h
    /\ <<pw[1], <<pw[2], u>>>> \in h
    /\ \/ pw[1] = "app" /\ \E m \in {"primary_and_app", "app_only"} : <<"mode", m>> \in h
       \/ /\ pw[1] = "primary" /\ \E m \in {"primary_and_app", "primary_only"} : <<"mode", m>> \in h
          /\ <<"no_totp", u>> \in h

\* A user's bind has read what justifies it so far.
UserOK(x, h) ==
    /\ x.pc \in Binding => x.msg.op = "bind"
    /\ x.pc \in Binding \ {"user"} => Uid(x) \in Uids /\ <<"active", Uid(x)>> \in h
    /\ x.pc = "app" =>
          /\ x.cfg.mode # "primary_only"
          /\ ~x.totp => <<"no_totp", Uid(x)>> \in h
    /\ x.pc = "primary" => x.cfg.mode # "app_only" /\ <<"no_totp", Uid(x)>> \in h
    /\ x.pc = "sending" /\ x.msg.op = "bind" /\ x.bind.as = "user" =>
          Justified(x.msg.pw, x.bind.uid, h)

ConnOK(x, h) ==
    /\ IsConn(x) /\ x.pc \in PCs /\ x.bind \in Binds
    /\ LoadOK(x, h) /\ ConfigOK(x, h) /\ SearchOK(x, h) /\ UserOK(x, h)

\* Task y has these fields.
IsTask(y, p, c, f, b, u, m, t, r) ==
    /\ IsConn(y) /\ y.pc = p /\ y.cfg = c /\ y.got = f /\ y.bind = b
    /\ y.under = u /\ y.msg = m /\ y.totp = t /\ y.reply = r

\* The changes the handlers make to their task, field by field.
LEMMA Edits ==
    ASSUME NEW x, IsConn(x), NEW y, NEW p, NEW r, NEW b, NEW m, NEW f, NEW t
    PROVE  /\ y = [x EXCEPT !.pc = p] =>
                 IsTask(y, p, x.cfg, x.got, x.bind, x.under, x.msg, x.totp, x.reply)
           /\ y = [x EXCEPT !.got = f] =>
                 IsTask(y, x.pc, x.cfg, f, x.bind, x.under, x.msg, x.totp, x.reply)
           /\ y = [x EXCEPT !.totp = t] =>
                 IsTask(y, x.pc, x.cfg, x.got, x.bind, x.under, x.msg, t, x.reply)
           /\ y = [x EXCEPT !.pc = p, !.msg = m] =>
                 IsTask(y, p, x.cfg, x.got, x.bind, x.under, m, x.totp, x.reply)
           /\ y = [x EXCEPT !.pc = p, !.reply = r] =>
                 IsTask(y, p, x.cfg, x.got, x.bind, x.under, x.msg, x.totp, r)
           /\ y = [x EXCEPT !.pc = p, !.got = f] =>
                 IsTask(y, p, x.cfg, f, x.bind, x.under, x.msg, x.totp, x.reply)
           /\ y = [x EXCEPT !.pc = p, !.cfg = m, !.got = f] =>
                 IsTask(y, p, m, f, x.bind, x.under, x.msg, x.totp, x.reply)
           /\ y = [x EXCEPT !.pc = p, !.got = f, !.cfg = m, !.bind = b] =>
                 IsTask(y, p, m, f, b, x.under, x.msg, x.totp, x.reply)
           /\ y = [x EXCEPT !.pc = p, !.msg = m, !.reply = r, !.totp = t] =>
                 IsTask(y, p, x.cfg, x.got, x.bind, x.under, m, t, r)
<1>1. ASSUME y = [x EXCEPT !.pc = p]
      PROVE  IsTask(y, p, x.cfg, x.got, x.bind, x.under, x.msg, x.totp, x.reply)
  BY <1>1 DEF IsConn, IsTask
<1>2. ASSUME y = [x EXCEPT !.got = f]
      PROVE  IsTask(y, x.pc, x.cfg, f, x.bind, x.under, x.msg, x.totp, x.reply)
  BY <1>2 DEF IsConn, IsTask
<1>3. ASSUME y = [x EXCEPT !.totp = t]
      PROVE  IsTask(y, x.pc, x.cfg, x.got, x.bind, x.under, x.msg, t, x.reply)
  BY <1>3 DEF IsConn, IsTask
<1>4. ASSUME y = [x EXCEPT !.pc = p, !.msg = m]
      PROVE  IsTask(y, p, x.cfg, x.got, x.bind, x.under, m, x.totp, x.reply)
  BY <1>4 DEF IsConn, IsTask
<1>5. ASSUME y = [x EXCEPT !.pc = p, !.reply = r]
      PROVE  IsTask(y, p, x.cfg, x.got, x.bind, x.under, x.msg, x.totp, r)
  BY <1>5 DEF IsConn, IsTask
<1>6. ASSUME y = [x EXCEPT !.pc = p, !.got = f]
      PROVE  IsTask(y, p, x.cfg, f, x.bind, x.under, x.msg, x.totp, x.reply)
  BY <1>6 DEF IsConn, IsTask
<1>7. ASSUME y = [x EXCEPT !.pc = p, !.cfg = m, !.got = f]
      PROVE  IsTask(y, p, m, f, x.bind, x.under, x.msg, x.totp, x.reply)
  BY <1>7 DEF IsConn, IsTask
<1>8. ASSUME y = [x EXCEPT !.pc = p, !.got = f, !.cfg = m, !.bind = b]
      PROVE  IsTask(y, p, m, f, b, x.under, x.msg, x.totp, x.reply)
  BY <1>8 DEF IsConn, IsTask
<1>9. ASSUME y = [x EXCEPT !.pc = p, !.msg = m, !.reply = r, !.totp = t]
      PROVE  IsTask(y, p, x.cfg, x.got, x.bind, x.under, m, t, r)
  BY <1>9 DEF IsConn, IsTask
<1> QED BY <1>1, <1>2, <1>3, <1>4, <1>5, <1>6, <1>7, <1>8, <1>9

\* The ways an operation is answered.
LEMMA Replies ==
    ASSUME NEW x, IsConn(x), NEW y, NEW b, NEW code
    PROVE  /\ y = Replying(x, code) =>
                 IsTask(y, "sending", x.cfg, x.got, x.bind, x.under, x.msg, x.totp, Done(code, {}))
           /\ y = [Replying(x, code) EXCEPT !.bind = b] =>
                 IsTask(y, "sending", x.cfg, x.got, b, x.under, x.msg, x.totp, Done(code, {}))
           /\ y = Bound(x, b) =>
                 IsTask(y, "sending", x.cfg, x.got, b, x.cfg, x.msg, x.totp, Done("success", {}))
<1>1. ASSUME y = Replying(x, code)
      PROVE  IsTask(y, "sending", x.cfg, x.got, x.bind, x.under, x.msg, x.totp, Done(code, {}))
  BY <1>1, Edits DEF Replying
<1>2. ASSUME y = [Replying(x, code) EXCEPT !.bind = b]
      PROVE  IsTask(y, "sending", x.cfg, x.got, b, x.under, x.msg, x.totp, Done(code, {}))
  <2>1. PICK z : z = Replying(x, code)
    OBVIOUS
  <2>2. IsTask(z, "sending", x.cfg, x.got, x.bind, x.under, x.msg, x.totp, Done(code, {}))
    BY <2>1, Edits DEF Replying
  <2>3. y = [z EXCEPT !.bind = b]
    BY <1>2, <2>1
  <2> QED BY <2>2, <2>3 DEF IsTask, IsConn
<1>3. ASSUME y = Bound(x, b)
      PROVE  IsTask(y, "sending", x.cfg, x.got, b, x.cfg, x.msg, x.totp, Done("success", {}))
  <2>1. PICK z : z = Replying(x, "success")
    OBVIOUS
  <2>2. IsTask(z, "sending", x.cfg, x.got, x.bind, x.under, x.msg, x.totp, Done("success", {}))
    BY <2>1, Edits DEF Replying
  <2>3. y = [z EXCEPT !.bind = b, !.under = x.cfg]
    BY <1>3, <2>1 DEF Bound
  <2> QED BY <2>2, <2>3 DEF IsTask, IsConn
<1> QED BY <1>1, <1>2, <1>3

\* More facts justify no less.
LEMMA MoreFacts ==
    ASSUME NEW x, NEW h, ConnOK(x, h), NEW g, h \subseteq g
    PROVE  ConnOK(x, g)
<1>1. LoadOK(x, g)
  BY DEF ConnOK, LoadOK
<1>2. ConfigOK(x, g)
  BY DEF ConnOK, ConfigOK
<1>3. SearchOK(x, g)
  BY DEF ConnOK, SearchOK
<1>4. UserOK(x, g)
  BY DEF ConnOK, UserOK, Justified
<1> QED BY <1>1, <1>2, <1>3, <1>4 DEF ConnOK

\* A connection that answers nothing needs no facts.
LEMMA IdleConn ==
    ASSUME NEW x, NEW h, ConnOK(x, h), ~AtWork(x), NEW g
    PROVE  ConnOK(x, g)
<1>1. /\ x.pc \notin Served /\ x.pc \notin Searching /\ x.pc \notin Binding
      /\ x.pc # "loading" /\ x.pc # "sending" /\ x.pc # "scan" /\ x.pc # "app" /\ x.pc # "primary"
  BY DEF AtWork, Served, Searching, Binding
<1> QED BY <1>1 DEF ConnOK, LoadOK, ConfigOK, SearchOK, UserOK

\* A task that has just begun or ended.
LEMMA ClosedConn ==
    ASSUME NEW g
    PROVE  /\ ConnOK(Closed, g)
           /\ \A y : y = [Closed EXCEPT !.pc = "opening"] => ConnOK(y, g)
<1>1. DOMAIN Blank = {} /\ Anonymous.as = "anonymous"
  BY DEF Blank, Anonymous
<1>2. ASSUME NEW x, IsConn(x), x.pc \in {"closed", "opening"}, x.got = Blank, x.bind = Anonymous
      PROVE  ConnOK(x, g)
  BY <1>1, <1>2 DEF ConnOK, LoadOK, ConfigOK, SearchOK, UserOK, PCs, Loading, Binding, Searching,
                    Served, Binds, ReadSoFar
<1>3. IsConn(Closed) /\ Closed.pc = "closed" /\ Closed.got = Blank /\ Closed.bind = Anonymous
  BY DEF Closed, IsConn
<1>4. ASSUME NEW y, y = [Closed EXCEPT !.pc = "opening"] PROVE ConnOK(y, g)
  <2>1. PICK x : x = Closed
    OBVIOUS
  <2>2. y = [x EXCEPT !.pc = "opening"] /\ IsConn(x)
    BY <1>3, <1>4, <2>1
  <2>3. IsTask(y, "opening", x.cfg, x.got, x.bind, x.under, x.msg, x.totp, x.reply)
    BY <2>2, Edits
  <2> QED BY <1>2, <1>3, <2>1, <2>3 DEF IsTask
<1> QED BY <1>2, <1>3, <1>4

-----------------------------------------------------------------------------
(* The handlers, one task x at a time, with the facts g that held by now *)

AllKeys == {"enabled", "base_dn", "hash", "mode"}

\* What is the case is among the facts.
LEMMA NowFacts ==
    ASSUME settings \in LdapConfig
    PROVE  /\ DOMAIN settings = AllKeys
           /\ \A k \in AllKeys : <<k, settings[k]>> \in Facts
           /\ \A u \in Uids : active[u] => <<"active", u>> \in Facts
           /\ \A u \in Uids : ~totp[u] => <<"no_totp", u>> \in Facts
           /\ \A u \in Uids : <<"primary", <<primary[u], u>>>> \in Facts
           /\ \A row \in apps : <<"app", row>> \in Facts
<1>1. DOMAIN settings = AllKeys
  BY DEF LdapConfig, AllKeys
<1>2. ASSUME NEW k \in AllKeys PROVE <<k, settings[k]>> \in Facts
  BY <1>1 DEF Facts
<1>3. ASSUME NEW u \in Uids, active[u] PROVE <<"active", u>> \in Facts
  BY <1>3 DEF Facts
<1>4. ASSUME NEW u \in Uids, ~totp[u] PROVE <<"no_totp", u>> \in Facts
  BY <1>4 DEF Facts
<1>5. ASSUME NEW u \in Uids PROVE <<"primary", <<primary[u], u>>>> \in Facts
  BY DEF Facts
<1>6. ASSUME NEW row \in apps PROVE <<"app", row>> \in Facts
  BY DEF Facts
<1> QED BY <1>1, <1>2, <1>3, <1>4, <1>5, <1>6

\* The settings are read in the order of SettingKeys.
LEMMA NextKey ==
    ASSUME NEW K \in ReadSoFar
    PROVE  LET n == Cardinality(K) + 1
               all == K \cup {SettingKeys[n]}
           IN  /\ SettingKeys[n] \in AllKeys /\ SettingKeys[n] \notin K
               /\ n = Len(SettingKeys) => all = AllKeys
               /\ n # Len(SettingKeys) => all \in ReadSoFar
<1>0. /\ Len(SettingKeys) = 4 /\ SettingKeys[1] = "enabled" /\ SettingKeys[2] = "base_dn"
      /\ SettingKeys[3] = "hash" /\ SettingKeys[4] = "mode"
  BY DEF SettingKeys
<1>1. CASE K = {}
  <2>1. Cardinality(K) = 0
    BY <1>1, FS_EmptySet
  <2> QED BY <1>0, <1>1, <2>1 DEF ReadSoFar, AllKeys
<1>2. CASE K = {"enabled"}
  <2>1. Cardinality(K) = 1
    BY <1>2, FS_Singleton
  <2> QED BY <1>0, <1>2, <2>1 DEF ReadSoFar, AllKeys
<1>3. CASE K = {"enabled", "base_dn"}
  <2>1. IsFiniteSet({"enabled"}) /\ Cardinality({"enabled"}) = 1
    BY FS_Singleton
  <2>2. K = {"enabled"} \cup {"base_dn"} /\ "base_dn" \notin {"enabled"}
    BY <1>3
  <2>3. Cardinality(K) = 2
    BY <2>1, <2>2, FS_AddElement
  <2> QED BY <1>0, <1>3, <2>3 DEF ReadSoFar, AllKeys
<1>4. CASE K = {"enabled", "base_dn", "hash"}
  <2>1. IsFiniteSet({"enabled"}) /\ Cardinality({"enabled"}) = 1
    BY FS_Singleton
  <2>2. IsFiniteSet({"enabled"} \cup {"base_dn"}) /\ Cardinality({"enabled"} \cup {"base_dn"}) = 2
    <3>1. "base_dn" \notin {"enabled"}
      OBVIOUS
    <3> QED BY <2>1, <3>1, FS_AddElement
  <2>3. K = ({"enabled"} \cup {"base_dn"}) \cup {"hash"} /\ "hash" \notin ({"enabled"} \cup {"base_dn"})
    BY <1>4
  <2>4. Cardinality(K) = 3
    BY <2>2, <2>3, FS_AddElement
  <2> QED BY <1>0, <1>4, <2>4 DEF ReadSoFar, AllKeys
<1> QED BY <1>1, <1>2, <1>3, <1>4 DEF ReadSoFar

\* A task that is read, closed or refused with no facts at stake.
LEMMA QuietConn ==
    ASSUME NEW y, NEW g, y.pc \in {"reading", "closing"}, y.got = Blank,
           IsConn(y), y.bind \in Binds,
           y.bind # Anonymous => SameBind(y.under, y.cfg)
    PROVE  ConnOK(y, g)
BY DEF ConnOK, LoadOK, ConfigOK, SearchOK, UserOK, PCs, Loading, Binding, Searching, Served

\* load_ldap_config reads one more setting, and the last one configures the task.
LEMMA ReadSettingOK ==
    ASSUME settings \in LdapConfig, NEW x, NEW g, ConnOK(x, g), Facts \subseteq g,
           x.pc \in Loading, NEW got, NEW y,
           got = [k \in DOMAIN x.got \cup {SettingKeys[Cardinality(DOMAIN x.got) + 1]} |->
                     IF k \in DOMAIN x.got THEN x.got[k] ELSE settings[k]],
           y = IF Cardinality(DOMAIN x.got) + 1 = Len(SettingKeys) THEN Configured(x, got)
               ELSE [x EXCEPT !.got = got]
    PROVE  ConnOK(y, g)
<1> DEFINE K == DOMAIN x.got
           key == SettingKeys[Cardinality(K) + 1]
<1>1. IsConn(x) /\ x.bind \in Binds /\ K \in ReadSoFar /\ (x.pc = "opening" \/ x.pc = "loading")
  BY DEF ConnOK, LoadOK, Loading
<1>2. /\ key \in AllKeys /\ key \notin K
      /\ Cardinality(K) + 1 = Len(SettingKeys) => K \cup {key} = AllKeys
      /\ Cardinality(K) + 1 # Len(SettingKeys) => K \cup {key} \in ReadSoFar
  BY <1>1, NextKey
<1>3. DOMAIN got = K \cup {key}
  OBVIOUS
<1>4. x.pc = "loading" =>
        /\ "enabled" \in DOMAIN got => got["enabled"] \in BOOLEAN
        /\ \A k \in DOMAIN got : <<k, got[k]>> \in g
  <2> SUFFICES ASSUME x.pc = "loading"
               PROVE  /\ "enabled" \in DOMAIN got => got["enabled"] \in BOOLEAN
                      /\ \A k \in DOMAIN got : <<k, got[k]>> \in g
    OBVIOUS
  <2>1. /\ "enabled" \in K => x.got["enabled"] \in BOOLEAN
        /\ \A k \in K : <<k, x.got[k]>> \in g
    BY DEF ConnOK, LoadOK
  <2>2. settings["enabled"] \in BOOLEAN
    BY DEF LdapConfig
  <2>3. <<key, settings[key]>> \in g
    BY <1>2, NowFacts
  <2> HIDE DEF K, key
  <2>4. \A k \in K : got[k] = x.got[k]
    BY DEF K
  <2>5. got[key] = settings[key]
    BY <1>2 DEF K, key
  <2> QED BY <1>3, <2>1, <2>2, <2>3, <2>4, <2>5
<1>5. "mode" \in DOMAIN got => got["mode"] \in Modes
  <2>1. "mode" \notin K
    BY <1>1 DEF ReadSoFar
  <2>2. settings["mode"] \in Modes
    BY DEF LdapConfig
  <2> QED BY <2>1, <2>2
<1> HIDE DEF K, key
<1>6. CASE Cardinality(K) + 1 # Len(SettingKeys)
  <2>1. IsTask(y, x.pc, x.cfg, got, x.bind, x.under, x.msg, x.totp, x.reply)
    BY <1>1, <1>6, Edits DEF K
  <2> QED BY <1>1, <1>2, <1>3, <1>4, <1>6, <2>1
          DEF IsTask, ConnOK, LoadOK, ConfigOK, SearchOK, UserOK, Loading, Served, Binding, Searching
<1>7. CASE Cardinality(K) + 1 = Len(SettingKeys)
  <2>0. y = Configured(x, got) /\ DOMAIN got = AllKeys
    BY <1>2, <1>3, <1>7 DEF K
  <2>1. CASE x.pc = "opening"
    <3>1. y = [x EXCEPT !.pc = "reading", !.cfg = got, !.got = Blank]
      BY <2>0, <2>1 DEF Configured
    <3>2. IsTask(y, "reading", got, Blank, x.bind, x.under, x.msg, x.totp, x.reply)
      BY <1>1, <3>1, Edits
    <3>3. x.bind = Anonymous
      BY <2>1 DEF ConnOK, ConfigOK
    <3> QED BY <1>1, <3>2, <3>3, QuietConn DEF IsTask
  <2>2. CASE x.pc = "loading" /\ ~got.enabled
    <3>1. y = [x EXCEPT !.pc = "closing", !.got = Blank]
      BY <2>0, <2>2 DEF Configured
    <3>2. IsTask(y, "closing", x.cfg, Blank, x.bind, x.under, x.msg, x.totp, x.reply)
      BY <1>1, <3>1, Edits
    <3>3. x.bind # Anonymous => SameBind(x.under, x.cfg)
      BY DEF ConnOK, ConfigOK
    <3> QED BY <1>1, <3>2, <3>3, QuietConn DEF IsTask
  <2>3. CASE x.pc = "loading" /\ got.enabled
    <3> DEFINE b == IF ConfigChanged(x.cfg, got) THEN Anonymous ELSE x.bind
    <3>1. y = [x EXCEPT !.pc = "dispatch", !.got = Blank, !.cfg = got, !.bind = b]
      BY <2>0, <2>3 DEF Configured
    <3> HIDE DEF b
    <3>2. IsTask(y, "dispatch", got, Blank, b, x.under, x.msg, x.totp, x.reply)
      BY <1>1, <3>1, Edits
    <3>3. b \in Binds
      BY <1>1 DEF b, Binds
    <3>4. b # Anonymous => SameBind(x.under, got)
      BY DEF b, ConnOK, ConfigOK, ConfigChanged, BindKeys, SameBind
    <3>5. <<"enabled", TRUE>> \in g /\ \A k \in BindKeys : <<k, got[k]>> \in g
      <4>1. \A k \in AllKeys : <<k, got[k]>> \in g
        BY <1>4, <2>0, <2>3
      <4>2. got["enabled"] = TRUE
        BY <1>4, <2>0, <2>3 DEF AllKeys
      <4> QED BY <4>1, <4>2 DEF AllKeys, BindKeys
    <3>6. got.mode \in Modes
      BY <1>5, <2>0 DEF AllKeys
    <3> QED BY <3>2, <3>3, <3>4, <3>5, <3>6
            DEF IsTask, ConnOK, LoadOK, ConfigOK, SearchOK, UserOK, PCs, Loading, Binding, Searching
  <2> QED BY <1>1, <2>1, <2>2, <2>3
<1> QED BY <1>6, <1>7

\* An operation is answered by a task that is bound as b, of a message that is
\* neither a search nor a user's bind, or without entries.
LEMMA AnsweredConn ==
    ASSUME NEW x, NEW g, ConnOK(x, g), x.pc \in Served, NEW y, NEW b, NEW u, NEW reply,
           IsTask(y, "sending", x.cfg, x.got, b, u, x.msg, x.totp, reply),
           b \in Binds,
           b # Anonymous => SameBind(u, x.cfg),
           b.as = "user" /\ x.msg.op = "search" =>
              \/ RootOnly(reply, x.cfg.base_dn)
              \/ <<"active", b.uid>> \in g,
           b.as = "user" /\ x.msg.op = "bind" => Justified(x.msg.pw, b.uid, g)
    PROVE  ConnOK(y, g)
<1>1. x.got = Blank
  BY DEF ConnOK, LoadOK, Served, Loading, Binding, Searching
<1>2. IsConn(y) /\ y.pc \in PCs /\ y.bind \in Binds /\ LoadOK(y, g)
  BY <1>1 DEF IsTask, LoadOK, PCs, Loading
<1>3. ConfigOK(y, g)
  BY DEF IsTask, ConnOK, ConfigOK, Served
<1>4. SearchOK(y, g)
  BY DEF IsTask, SearchOK, Searching
<1>5. UserOK(y, g)
  BY DEF IsTask, UserOK, Binding
<1> QED BY <1>2, <1>3, <1>4, <1>5 DEF ConnOK

\* A refusal or a failure.
LEMMA RefusedOK ==
    ASSUME NEW x, NEW g, ConnOK(x, g), x.pc \in Served, NEW y,
           y \in {Refused(x), Failed(x)} \/ y = [Replying(x, "success") EXCEPT !.bind = Anonymous]
    PROVE  ConnOK(y, g)
<1>1. PICK code : y = [Replying(x, code) EXCEPT !.bind = Anonymous]
  BY DEF Refused, Failed
<1>2. IsTask(y, "sending", x.cfg, x.got, Anonymous, x.under, x.msg, x.totp, Done(code, {}))
  BY <1>1, Replies DEF ConnOK
<1>3. Anonymous \in Binds /\ Anonymous.as # "user"
  BY DEF Anonymous, Binds
<1> QED BY <1>2, <1>3, AnsweredConn

\* A bind as the service account.
LEMMA ServiceBoundOK ==
    ASSUME NEW x, NEW g, ConnOK(x, g), x.pc \in Served, NEW y, y = Bound(x, Service)
    PROVE  ConnOK(y, g)
<1>1. IsTask(y, "sending", x.cfg, x.got, Service, x.cfg, x.msg, x.totp, Done("success", {}))
  BY Replies DEF ConnOK
<1>2. Service \in Binds /\ Service.as # "user"
  BY DEF Service, Binds
<1>3. SameBind(x.cfg, x.cfg)
  BY DEF SameBind
<1> QED BY <1>1, <1>2, <1>3, AnsweredConn

\* An answer without entries to what is not a bind.
LEMMA RepliedOK ==
    ASSUME NEW x, NEW g, ConnOK(x, g), x.pc \in Served, x.msg.op # "bind", NEW code, NEW y,
           y = Replying(x, code)
    PROVE  ConnOK(y, g)
<1>1. PICK b, u, r : b = x.bind /\ u = x.under /\ r = Done(code, {})
  OBVIOUS
<1>2. IsTask(y, "sending", x.cfg, x.got, b, u, x.msg, x.totp, r)
  BY <1>1, Replies DEF ConnOK
<1>3. RootOnly(r, x.cfg.base_dn)
  BY <1>1 DEF Done, Reply, RootOnly
<1>4. b \in Binds /\ (b # Anonymous => SameBind(u, x.cfg))
  BY <1>1 DEF ConnOK, ConfigOK
<1>5. /\ b.as = "user" /\ x.msg.op = "search" =>
             \/ RootOnly(r, x.cfg.base_dn)
             \/ <<"active", b.uid>> \in g
      /\ b.as = "user" /\ x.msg.op = "bind" => Justified(x.msg.pw, b.uid, g)
  BY <1>3
<1> QED BY <1>2, <1>4, <1>5, AnsweredConn

\* A user is bound.
LEMMA UserBoundOK ==
    ASSUME NEW x, NEW g, ConnOK(x, g), x.pc \in Binding, NEW y, y = Bound(x, User(Uid(x))),
           Uid(x) \in Uids, Justified(x.msg.pw, Uid(x), g)
    PROVE  ConnOK(y, g)
<1>1. IsTask(y, "sending", x.cfg, x.got, User(Uid(x)), x.cfg, x.msg, x.totp, Done("success", {}))
  BY Replies DEF ConnOK
<1>2. User(Uid(x)) \in Binds /\ User(Uid(x)).uid = Uid(x)
  BY DEF User, Binds
<1>3. x.msg.op = "bind" /\ x.pc \in Served
  BY DEF ConnOK, UserOK, Served
<1>4. SameBind(x.cfg, x.cfg)
  BY DEF SameBind
<1> QED BY <1>1, <1>2, <1>3, <1>4, AnsweredConn

\* The task goes on to its next statement; what that needs is among the facts.
LEMMA GoesOnOK ==
    ASSUME NEW x, NEW g, ConnOK(x, g), x.pc \in Served, NEW y, NEW p \in Binding \cup Searching, NEW t,
           IsTask(y, p, x.cfg, x.got, x.bind, x.under, x.msg, t, x.reply),
           SearchOK(y, g), UserOK(y, g)
    PROVE  ConnOK(y, g)
<1>1. x.got = Blank
  BY DEF ConnOK, LoadOK, Served, Loading, Binding, Searching
<1>2. y.pc \in PCs /\ LoadOK(y, g)
  BY <1>1 DEF IsTask, LoadOK, PCs, Loading, Binding, Searching
<1>3. ConfigOK(y, g)
  BY DEF IsTask, ConnOK, ConfigOK, Served, Binding, Searching
<1> QED BY <1>2, <1>3 DEF ConnOK, IsTask

-----------------------------------------------------------------------------
(* The steps of the server *)

ConnFun == conn = [d \in Conns |-> conn[d]]

AccountsOK ==
    /\ settings \in LdapConfig
    /\ active \in [Uids -> BOOLEAN] /\ totp \in [Uids -> BOOLEAN]
    /\ issued \in Nat /\ apps \subseteq (1..issued) \X Uids

\* User::get_by_username
LEMMA ReadUserOK ==
    ASSUME AccountsOK, ConnFun, NEW c \in Conns, NEW g, ConnOK(conn[c], g), Facts \subseteq g, ReadUser(c)
    PROVE  ConnOK(conn'[c], g)
<1>1. PICK x, y : x = conn[c] /\ y = conn'[c]
  OBVIOUS
<1>2. /\ ConnOK(x, g) /\ x.pc = "user" /\ x.pc \in Served
      /\ y = IF Uid(x) \in Uids /\ active[Uid(x)] THEN [x EXCEPT !.pc = "totp"] ELSE Refused(x)
  BY <1>1 DEF ReadUser, Step, Put, ConnFun, Served, Binding
<1>3. CASE Uid(x) \in Uids /\ active[Uid(x)]
  <2>1. IsTask(y, "totp", x.cfg, x.got, x.bind, x.under, x.msg, x.totp, x.reply)
    BY <1>2, <1>3, Edits DEF ConnOK
  <2>2. <<"active", Uid(x)>> \in g
    BY <1>3, NowFacts DEF AccountsOK
  <2>3. SearchOK(y, g)
    BY <2>1 DEF IsTask, SearchOK, Searching
  <2>4. UserOK(y, g)
    BY <1>2, <1>3, <2>1, <2>2 DEF IsTask, UserOK, ConnOK, Binding, Uid
  <2> QED BY <1>1, <1>2, <2>1, <2>3, <2>4, GoesOnOK DEF Binding
<1>4. CASE ~(Uid(x) \in Uids /\ active[Uid(x)])
  BY <1>1, <1>2, <1>4, RefusedOK
<1> QED BY <1>3, <1>4

\* user_has_totp
LEMMA ReadTotpOK ==
    ASSUME AccountsOK, ConnFun, NEW c \in Conns, NEW g, ConnOK(conn[c], g), Facts \subseteq g, ReadTotp(c)
    PROVE  ConnOK(conn'[c], g)
<1>1. PICK w, x, y : w = conn[c] /\ y = conn'[c] /\ x = [w EXCEPT !.totp = totp[Uid(w)]]
  OBVIOUS
<1>2. /\ ConnOK(w, g) /\ IsConn(w) /\ w.pc = "totp" /\ w.pc \in Served
      /\ y = IF x.cfg.mode # "primary_only" THEN [x EXCEPT !.pc = "app"]
             ELSE IF x.totp THEN Refused(x) ELSE [x EXCEPT !.pc = "primary"]
  BY <1>1 DEF ReadTotp, Step, Put, ConnFun, Served, Binding, ConnOK
<1>3. IsTask(x, w.pc, w.cfg, w.got, w.bind, w.under, w.msg, totp[Uid(w)], w.reply)
  BY <1>1, <1>2, Edits
<1>4. Uid(x) = Uid(w) /\ Uid(w) \in Uids /\ <<"active", Uid(w)>> \in g /\ w.msg.op = "bind"
  BY <1>2, <1>3 DEF IsTask, Uid, ConnOK, UserOK, Binding
<1>5. ~x.totp => <<"no_totp", Uid(w)>> \in g
  BY <1>3, <1>4, NowFacts DEF AccountsOK, IsTask
<1>6. ConnOK(x, g) /\ x.pc \in Served
  BY <1>2, <1>3, <1>4 DEF ConnOK, IsTask, LoadOK, ConfigOK, SearchOK, UserOK, Loading, Searching, Binding
<1>7. ASSUME NEW p \in {"app", "primary"}, y = [x EXCEPT !.pc = p],
             p = "app" => x.cfg.mode # "primary_only",
             p = "primary" => x.cfg.mode = "primary_only" /\ ~x.totp
      PROVE  ConnOK(y, g)
  <2>1. IsTask(y, p, x.cfg, x.got, x.bind, x.under, x.msg, x.totp, x.reply)
    BY <1>6, <1>7, Edits DEF ConnOK
  <2>2. SearchOK(y, g)
    BY <2>1 DEF IsTask, SearchOK, Searching
  <2>3. Uid(y) = Uid(w)
    BY <1>4, <2>1 DEF IsTask, Uid
  <2>4. UserOK(y, g)
    BY <1>3, <1>4, <1>5, <1>7, <2>1, <2>3 DEF IsTask, UserOK, Binding
  <2> QED BY <1>6, <2>1, <2>2, <2>4, GoesOnOK DEF Binding
<1>8. CASE x.cfg.mode # "primary_only"
  BY <1>1, <1>2, <1>7, <1>8
<1>9. CASE x.cfg.mode = "primary_only" /\ ~x.totp
  BY <1>1, <1>2, <1>7, <1>9
<1>10. CASE x.cfg.mode = "primary_only" /\ x.totp
  BY <1>1, <1>2, <1>6, <1>10, RefusedOK
<1> QED BY <1>8, <1>9, <1>10

\* try_app_password
LEMMA TryAppOK ==
    ASSUME AccountsOK, ConnFun, NEW c \in Conns, NEW g, ConnOK(conn[c], g), Facts \subseteq g, TryApp(c)
    PROVE  ConnOK(conn'[c], g)
<1>1. PICK x, y : x = conn[c] /\ y = conn'[c]
  OBVIOUS
<1>2. /\ ConnOK(x, g) /\ x.pc = "app" /\ x.pc \in Served /\ x.pc \in Binding
      /\ y = IF VerifyForUser(Uid(x), x.msg.pw) THEN Bound(x, User(Uid(x)))
             ELSE IF TriesPrimary(x) THEN [x EXCEPT !.pc = "primary"] ELSE Refused(x)
  BY <1>1 DEF TryApp, Step, Put, ConnFun, Served, Binding
<1>3. /\ Uid(x) \in Uids /\ <<"active", Uid(x)>> \in g /\ x.msg.op = "bind"
      /\ x.cfg.mode # "primary_only" /\ (~x.totp => <<"no_totp", Uid(x)>> \in g)
  BY <1>2 DEF ConnOK, UserOK, Binding
<1>4. x.cfg.mode \in Modes /\ <<"mode", x.cfg.mode>> \in g
  BY <1>2 DEF ConnOK, ConfigOK, BindKeys
<1>5. CASE VerifyForUser(Uid(x), x.msg.pw)
  <2>1. PICK row \in apps : row[2] = Uid(x) /\ x.msg.pw = <<"app", row[1]>>
    BY <1>5 DEF VerifyForUser
  <2>2. row = <<row[1], row[2]>> /\ <<"app", row>> \in g
    BY NowFacts DEF AccountsOK
  <2>3. x.msg.pw[1] = "app" /\ x.msg.pw[2] = row[1]
    BY <2>1
  <2>4. Justified(x.msg.pw, Uid(x), g)
    BY <1>3, <1>4, <2>1, <2>2, <2>3 DEF Justified, Modes
  <2> QED BY <1>1, <1>2, <1>3, <1>5, <2>4, UserBoundOK
<1>6. CASE ~VerifyForUser(Uid(x), x.msg.pw) /\ TriesPrimary(x)
  <2>1. IsTask(y, "primary", x.cfg, x.got, x.bind, x.under, x.msg, x.totp, x.reply)
    BY <1>2, <1>6, Edits DEF ConnOK
  <2>2. SearchOK(y, g)
    BY <2>1 DEF IsTask, SearchOK, Searching
  <2>3. Uid(y) = Uid(x)
    BY <2>1 DEF IsTask, Uid
  <2>4. UserOK(y, g)
    BY <1>3, <1>6, <2>1, <2>3 DEF IsTask, UserOK, Binding, TriesPrimary
  <2> QED BY <1>1, <1>2, <2>1, <2>2, <2>4, GoesOnOK DEF Binding
<1>7. CASE ~VerifyForUser(Uid(x), x.msg.pw) /\ ~TriesPrimary(x)
  BY <1>1, <1>2, <1>7, RefusedOK
<1> QED BY <1>5, <1>6, <1>7

\* try_primary
LEMMA TryPrimaryOK ==
    ASSUME AccountsOK, ConnFun, NEW c \in Conns, NEW g, ConnOK(conn[c], g), Facts \subseteq g, TryPrimary(c)
    PROVE  ConnOK(conn'[c], g)
<1>1. PICK x, y : x = conn[c] /\ y = conn'[c]
  OBVIOUS
<1>2. /\ ConnOK(x, g) /\ x.pc = "primary" /\ x.pc \in Served /\ x.pc \in Binding
      /\ y = IF TryPasswordLogin(Uid(x), x.msg.pw) THEN Bound(x, User(Uid(x))) ELSE Refused(x)
  BY <1>1 DEF TryPrimary, Step, Put, ConnFun, Served, Binding
<1>3. /\ Uid(x) \in Uids /\ <<"active", Uid(x)>> \in g
      /\ x.cfg.mode # "app_only" /\ <<"no_totp", Uid(x)>> \in g
  BY <1>2 DEF ConnOK, UserOK, Binding
<1>4. x.cfg.mode \in Modes /\ <<"mode", x.cfg.mode>> \in g
  BY <1>2 DEF ConnOK, ConfigOK, BindKeys
<1>5. CASE TryPasswordLogin(Uid(x), x.msg.pw)
  <2>1. x.msg.pw[1] = "primary" /\ x.msg.pw[2] = primary[Uid(x)]
    BY <1>5 DEF TryPasswordLogin
  <2>2. <<"primary", <<primary[Uid(x)], Uid(x)>>>> \in g
    BY <1>3, NowFacts DEF AccountsOK
  <2>3. Justified(x.msg.pw, Uid(x), g)
    BY <1>3, <1>4, <2>1, <2>2 DEF Justified, Modes
  <2> QED BY <1>1, <1>2, <1>3, <1>5, <2>3, UserBoundOK
<1>6. CASE ~TryPasswordLogin(Uid(x), x.msg.pw)
  BY <1>1, <1>2, <1>6, RefusedOK
<1> QED BY <1>5, <1>6

\* handle_bind up to the first read of the user.
LEMMA DispatchBindOK ==
    ASSUME ConnFun, NEW c \in Conns, NEW g, ConnOK(conn[c], g), DispatchBind(c)
    PROVE  ConnOK(conn'[c], g)
<1>1. PICK x, y : x = conn[c] /\ y = conn'[c]
  OBVIOUS
<1>2. /\ ConnOK(x, g) /\ x.pc = "dispatch" /\ x.pc \in Served /\ x.msg.op = "bind"
      /\ \/ y = [Replying(x, "success") EXCEPT !.bind = Anonymous]
         \/ y \in ServiceBind(x) \/ y = Refused(x) \/ y = [x EXCEPT !.pc = "user"]
  BY <1>1 DEF DispatchBind, Step, Put, ConnFun, Served
<1>3. CASE y = [Replying(x, "success") EXCEPT !.bind = Anonymous] \/ y = Refused(x)
  BY <1>1, <1>2, <1>3, RefusedOK
<1>4. CASE y \in ServiceBind(x)
  <2>1. y = Bound(x, Service) \/ y = Failed(x) \/ y = Refused(x)
    BY <1>4 DEF ServiceBind
  <2> QED BY <1>1, <1>2, <2>1, RefusedOK, ServiceBoundOK
<1>5. CASE y = [x EXCEPT !.pc = "user"]
  <2>1. IsTask(y, "user", x.cfg, x.got, x.bind, x.under, x.msg, x.totp, x.reply)
    BY <1>2, <1>5, Edits DEF ConnOK
  <2>2. SearchOK(y, g) /\ UserOK(y, g)
    BY <1>2, <2>1 DEF IsTask, SearchOK, UserOK, Searching, Binding
  <2> QED BY <1>1, <1>2, <2>1, <2>2, GoesOnOK DEF Binding
<1> QED BY <1>2, <1>3, <1>4, <1>5

\* Before it opens the database, a search returns the Root DSE or nothing.
LEMMA StartEntries ==
    ASSUME NEW anonymous \in BOOLEAN, NEW base_dn, NEW m
    PROVE  SearchStart(anonymous, base_dn, m).entries \subseteq {RootDse(base_dn)}
BY DEF SearchStart, Done, Reply

\* handle_search up to the first statement.
LEMMA DispatchSearchOK ==
    ASSUME ConnFun, NEW c \in Conns, NEW g, ConnOK(conn[c], g), DispatchSearch(c)
    PROVE  ConnOK(conn'[c], g)
<1>1. PICK x, y, start :
         x = conn[c] /\ y = conn'[c]
         /\ start = SearchStart(x.bind = Anonymous, x.cfg.base_dn, x.msg)
  OBVIOUS
<1>2. /\ ConnOK(x, g) /\ x.pc = "dispatch" /\ x.pc \in Served /\ x.msg.op = "search"
      /\ y = IF start.code # "scan" THEN [x EXCEPT !.pc = "sending", !.reply = start]
             ELSE [x EXCEPT !.pc = IF x.bind.as = "user" THEN "recheck" ELSE "scan"]
  BY <1>1 DEF DispatchSearch, Step, Put, ConnFun, Served
<1>3. RootOnly(start, x.cfg.base_dn)
  BY <1>1, StartEntries DEF RootOnly
<1>4. CASE start.code # "scan"
  <2>1. IsTask(y, "sending", x.cfg, x.got, x.bind, x.under, x.msg, x.totp, start)
    BY <1>2, <1>4, Edits DEF ConnOK
  <2>2. PICK b, u : b = x.bind /\ u = x.under
    OBVIOUS
  <2>3. b \in Binds /\ (b # Anonymous => SameBind(u, x.cfg))
    BY <1>2, <2>2 DEF ConnOK, ConfigOK
  <2>4. /\ b.as = "user" /\ x.msg.op = "search" =>
               \/ RootOnly(start, x.cfg.base_dn)
               \/ <<"active", b.uid>> \in g
        /\ b.as = "user" /\ x.msg.op = "bind" => Justified(x.msg.pw, b.uid, g)
    BY <1>2, <1>3
  <2>5. ConnOK(y, g)
    BY <1>2, <2>1, <2>2, <2>3, <2>4, AnsweredConn
  <2> QED BY <1>1, <2>5
<1>5. CASE start.code = "scan"
  <2>1. PICK p : p = IF x.bind.as = "user" THEN "recheck" ELSE "scan"
    OBVIOUS
  <2>2. IsTask(y, p, x.cfg, x.got, x.bind, x.under, x.msg, x.totp, x.reply)
    BY <1>2, <1>5, <2>1, Edits DEF ConnOK
  <2>3. SearchOK(y, g) /\ UserOK(y, g)
    BY <1>2, <2>1, <2>2 DEF IsTask, SearchOK, UserOK, Searching, Binding
  <2> QED BY <1>1, <1>2, <2>1, <2>2, <2>3, GoesOnOK DEF Searching
<1> QED BY <1>4, <1>5

\* A bound user's uid is one of the directory.
LEMMA BoundUid ==
    ASSUME NEW b \in Binds, b.as = "user"
    PROVE  b.uid \in Uids
BY DEF Binds, Anonymous, Service, User

\* A user's search looks whether the user is still active.
LEMMA RecheckOK ==
    ASSUME AccountsOK, ConnFun, NEW c \in Conns, NEW g, ConnOK(conn[c], g), Facts \subseteq g, Recheck(c)
    PROVE  ConnOK(conn'[c], g)
<1>1. PICK x, y : x = conn[c] /\ y = conn'[c]
  OBVIOUS
<1>2. /\ ConnOK(x, g) /\ x.pc = "recheck" /\ x.pc \in Served
      /\ y = IF active[x.bind.uid] THEN [x EXCEPT !.pc = "scan"] ELSE Replying(x, "insufficient")
  BY <1>1 DEF Recheck, Step, Put, ConnFun, Served, Searching
<1>3. x.msg.op = "search" /\ x.bind \in Binds
  BY <1>2 DEF ConnOK, SearchOK, Searching
<1>4. CASE active[x.bind.uid]
  <2>1. IsTask(y, "scan", x.cfg, x.got, x.bind, x.under, x.msg, x.totp, x.reply)
    BY <1>2, <1>4, Edits DEF ConnOK
  <2>2. x.bind.as = "user" => <<"active", x.bind.uid>> \in g
    BY <1>3, <1>4, BoundUid, NowFacts DEF AccountsOK
  <2>3. SearchOK(y, g) /\ UserOK(y, g)
    BY <1>2, <1>3, <2>1, <2>2 DEF IsTask, SearchOK, UserOK, Searching, Binding
  <2> QED BY <1>1, <1>2, <2>1, <2>3, GoesOnOK DEF Searching
<1>5. CASE ~active[x.bind.uid]
  BY <1>1, <1>2, <1>3, <1>5, RepliedOK
<1> QED BY <1>4, <1>5

\* The directory is read.
LEMMA ScanOK ==
    ASSUME ConnFun, NEW c \in Conns, NEW g, ConnOK(conn[c], g), Scan(c)
    PROVE  ConnOK(conn'[c], g)
<1>1. PICK x, y : x = conn[c] /\ y = conn'[c]
  OBVIOUS
<1>2. PICK r : /\ ConnOK(x, g) /\ x.pc = "scan" /\ x.pc \in Served
               /\ y = [x EXCEPT !.pc = "sending", !.reply = r]
  BY <1>1 DEF Scan, Step, Put, ConnFun, Served, Searching
<1>3. IsTask(y, "sending", x.cfg, x.got, x.bind, x.under, x.msg, x.totp, r)
  BY <1>2, Edits DEF ConnOK
<1>4. PICK b, u : b = x.bind /\ u = x.under
  OBVIOUS
<1>5. b \in Binds /\ (b # Anonymous => SameBind(u, x.cfg))
  BY <1>2, <1>4 DEF ConnOK, ConfigOK
<1>6. x.msg.op = "search" /\ (b.as = "user" => <<"active", b.uid>> \in g)
  BY <1>2, <1>4 DEF ConnOK, SearchOK, Searching
<1>7. /\ b.as = "user" /\ x.msg.op = "search" =>
             \/ RootOnly(r, x.cfg.base_dn)
             \/ <<"active", b.uid>> \in g
      /\ b.as = "user" /\ x.msg.op = "bind" => Justified(x.msg.pw, b.uid, g)
  BY <1>6
<1>8. ConnOK(y, g)
  BY <1>2, <1>3, <1>4, <1>5, <1>7, AnsweredConn
<1> QED BY <1>1, <1>8

\* A task that stops what it was doing.
LEMMA PausedOK ==
    ASSUME NEW x, NEW g, ConnOK(x, g), x.pc \notin Loading, NEW y, NEW p \in {"reading", "closing"},
           NEW m, NEW t, NEW r, IsTask(y, p, x.cfg, x.got, x.bind, x.under, m, t, r)
    PROVE  ConnOK(y, g)
<1>1. y.got = Blank
  BY DEF ConnOK, LoadOK, IsTask
<1>2. y.bind \in Binds /\ (y.bind # Anonymous => SameBind(y.under, y.cfg))
  BY DEF ConnOK, ConfigOK, IsTask
<1> QED BY <1>1, <1>2, QuietConn DEF IsTask

\* Unbind, Whoami, Compare, and what is not supported.
LEMMA DispatchOtherOK ==
    ASSUME ConnFun, NEW c \in Conns, NEW g, ConnOK(conn[c], g), DispatchOther(c)
    PROVE  ConnOK(conn'[c], g)
<1>1. PICK x, y : x = conn[c] /\ y = conn'[c]
  OBVIOUS
<1>2. /\ ConnOK(x, g) /\ x.pc = "dispatch" /\ x.pc \in Served /\ x.pc \notin Loading
      /\ x.msg.op # "bind"
      /\ \/ y = [x EXCEPT !.pc = "closing"]
         \/ y = [x EXCEPT !.pc = "reading", !.msg = Blank]
         \/ y = Replying(x, "unwilling") \/ y = Replying(x, "success")
  BY <1>1 DEF DispatchOther, Step, Put, ConnFun, Served, Loading
<1>3. CASE y = [x EXCEPT !.pc = "closing"]
  <2>1. IsTask(y, "closing", x.cfg, x.got, x.bind, x.under, x.msg, x.totp, x.reply)
    BY <1>2, <1>3, Edits DEF ConnOK
  <2> QED BY <1>1, <1>2, <2>1, PausedOK
<1>4. CASE y = [x EXCEPT !.pc = "reading", !.msg = Blank]
  <2>1. IsTask(y, "reading", x.cfg, x.got, x.bind, x.under, Blank, x.totp, x.reply)
    BY <1>2, <1>4, Edits DEF ConnOK
  <2> QED BY <1>1, <1>2, <2>1, PausedOK
<1>5. CASE y = Replying(x, "unwilling") \/ y = Replying(x, "success")
  BY <1>1, <1>2, <1>5, RepliedOK
<1> QED BY <1>2, <1>3, <1>4, <1>5

\* A statement fails.
LEMMA DbFailsOK ==
    ASSUME ConnFun, NEW c \in Conns, NEW g, ConnOK(conn[c], g), DbFails(c)
    PROVE  ConnOK(conn'[c], g)
<1>1. PICK x, y : x = conn[c] /\ y = conn'[c]
  OBVIOUS
<1>2. /\ ConnOK(x, g)
      /\ \/ x.pc \in Loading /\ y = Closed
         \/ x.pc \in Binding /\ y \in {Refused(x), Failed(x)}
         \/ x.pc \in Searching /\ y = Replying(x, "operations")
  BY <1>1 DEF DbFails, Step, Put, ConnFun, Binding
<1>3. CASE y = Closed
  BY <1>1, <1>3, ClosedConn
<1>4. CASE x.pc \in Binding /\ y \in {Refused(x), Failed(x)}
  BY <1>1, <1>2, <1>4, RefusedOK DEF Served
<1>5. CASE x.pc \in Searching /\ y = Replying(x, "operations")
  <2>1. x.msg.op = "search" /\ x.pc \in Served
    BY <1>2, <1>5 DEF ConnOK, SearchOK, Served
  <2> QED BY <1>1, <1>2, <1>5, <2>1, RepliedOK
<1> QED BY <1>2, <1>3, <1>4, <1>5

\* The replies go out, or not.
LEMMA SendOK ==
    ASSUME ConnFun, NEW c \in Conns, NEW g, ConnOK(conn[c], g), Send(c) \/ SendFails(c) \/ Goodbye(c)
    PROVE  ConnOK(conn'[c], g)
<1>1. PICK x, y : x = conn[c] /\ y = conn'[c]
  OBVIOUS
<1>2. /\ ConnOK(x, g) /\ x.pc \notin Loading
      /\ \/ y = [x EXCEPT !.pc = "reading", !.msg = Blank, !.reply = Blank, !.totp = FALSE]
         \/ y = Closed
         \/ y = [x EXCEPT !.pc = "closing"]
  BY <1>1 DEF Send, SendFails, Goodbye, Step, Put, ConnFun, Loading
<1>3. CASE y = [x EXCEPT !.pc = "reading", !.msg = Blank, !.reply = Blank, !.totp = FALSE]
  <2>1. PICK p, m, r, t : p = "reading" /\ m = Blank /\ r = Blank /\ t = FALSE
    OBVIOUS
  <2>2. y = [x EXCEPT !.pc = p, !.msg = m, !.reply = r, !.totp = t]
    BY <1>3, <2>1
  <2>3. IsTask(y, p, x.cfg, x.got, x.bind, x.under, m, t, r)
    BY <1>2, <2>2, Edits DEF ConnOK
  <2> QED BY <1>1, <1>2, <2>1, <2>3, PausedOK
<1>4. CASE y = Closed
  BY <1>1, <1>4, ClosedConn
<1>5. CASE y = [x EXCEPT !.pc = "closing"]
  <2>1. IsTask(y, "closing", x.cfg, x.got, x.bind, x.under, x.msg, x.totp, x.reply)
    BY <1>2, <1>5, Edits DEF ConnOK
  <2> QED BY <1>1, <1>2, <2>1, PausedOK
<1> QED BY <1>2, <1>3, <1>4, <1>5

\* The socket.
LEMMA SocketOK ==
    ASSUME ConnFun, NEW c \in Conns, NEW g, ConnOK(conn[c], g),
           \/ Accept(c) \/ RefuseFrame(c) \/ Hangup(c)
           \/ \E m : Receive(c, m) \/ TakeFrame(c, m)
    PROVE  ConnOK(conn'[c], g)
<1>1. PICK x, y : x = conn[c] /\ y = conn'[c]
  OBVIOUS
<1>2. /\ ConnOK(x, g)
      /\ \/ y = [Closed EXCEPT !.pc = "opening"]
         \/ x.pc = "reading" /\ y = [x EXCEPT !.pc = "closing"]
         \/ x.pc = "reading" /\ \E m : y = [x EXCEPT !.pc = "loading", !.msg = m]
  BY <1>1 DEF Accept, RefuseFrame, Hangup, MayHangUp, Receive, TakeFrame, Step, Put, ConnFun
<1>3. CASE y = [Closed EXCEPT !.pc = "opening"]
  BY <1>1, <1>3, ClosedConn
<1>4. CASE x.pc = "reading" /\ y = [x EXCEPT !.pc = "closing"]
  <2>1. IsTask(y, "closing", x.cfg, x.got, x.bind, x.under, x.msg, x.totp, x.reply)
    BY <1>2, <1>4, Edits DEF ConnOK
  <2> QED BY <1>1, <1>2, <1>4, <2>1, PausedOK DEF Loading
<1>5. ASSUME NEW m, x.pc = "reading", y = [x EXCEPT !.pc = "loading", !.msg = m]
      PROVE  ConnOK(y, g)
  <2>1. IsTask(y, "loading", x.cfg, x.got, x.bind, x.under, m, x.totp, x.reply)
    BY <1>2, <1>5, Edits DEF ConnOK
  <2>2. x.got = Blank /\ DOMAIN Blank = {}
    BY <1>2, <1>5 DEF ConnOK, LoadOK, Loading, Blank
  <2>3. LoadOK(y, g) /\ y.pc \in PCs
    BY <2>1, <2>2 DEF IsTask, LoadOK, Loading, ReadSoFar, PCs
  <2>4. ConfigOK(y, g)
    BY <1>2, <2>1 DEF IsTask, ConnOK, ConfigOK, Served, Binding, Searching
  <2>5. SearchOK(y, g) /\ UserOK(y, g)
    BY <2>1 DEF IsTask, SearchOK, UserOK, Searching, Binding
  <2> QED BY <1>2, <2>1, <2>3, <2>4, <2>5 DEF ConnOK, IsTask
<1> QED BY <1>1, <1>2, <1>3, <1>4, <1>5

-----------------------------------------------------------------------------
(* The inductive invariant *)

ConnsOK == ConnFun /\ \A d \in Conns : ConnOK(conn[d], held[d])
PermitsOK == Cardinality(OpenConns) <= MaxConnections

StateOK ==
    /\ workload \in DOMAIN Workloads
    /\ AccountsOK
    /\ primary \in [Uids -> Passwords]
    /\ issued \in 0..MaxApps /\ creating \subseteq Uids
    /\ received \in Nat /\ changes \in 0..MaxChanges

Inv == LimiterInv /\ StateOK /\ ConnsOK /\ PermitsOK

\* The facts of connection c once what is the case now is added.
ByNow(c) == IF AtWork(conn[c]) THEN held[c] \cup Facts ELSE Facts

\* Facts that are added harm no connection.
LEMMA ByNowOK ==
    ASSUME ConnsOK, NEW c \in Conns
    PROVE  ConnOK(conn[c], ByNow(c)) /\ Facts \subseteq ByNow(c)
<1>1. CASE AtWork(conn[c])
  <2>1. held[c] \subseteq ByNow(c) /\ Facts \subseteq ByNow(c)
    BY <1>1 DEF ByNow
  <2> QED BY <2>1, MoreFacts DEF ConnsOK
<1>2. CASE ~AtWork(conn[c])
  <2>1. Facts \subseteq ByNow(c)
    BY <1>2 DEF ByNow
  <2> QED BY <1>2, <2>1, IdleConn DEF ConnsOK
<1> QED BY <1>1, <1>2

\* What a connection does not do itself leaves it in order.
LEMMA Bystander ==
    ASSUME ConnsOK, Remember, NEW d \in Conns, conn'[d] = conn[d]
    PROVE  ConnOK(conn'[d], held'[d])
<1>1. CASE AtWork(conn[d])
  <2>1. held[d] \subseteq held'[d]
    BY <1>1 DEF Remember
  <2> QED BY <2>1, MoreFacts DEF ConnsOK
<1>2. CASE ~AtWork(conn[d])
  BY <1>2, IdleConn DEF ConnsOK
<1> QED BY <1>1, <1>2

\* A step of connection c.
LEMMA ConnStep ==
    ASSUME ConnsOK, Remember, Facts' = Facts, NEW c \in Conns, NEW r, Put(c, r),
           ConnOK(conn'[c], ByNow(c))
    PROVE  ConnsOK'
<1>1. /\ ConnFun'
      /\ \A d \in Conns \ {c} : conn'[d] = conn[d]
  BY DEF ConnsOK, ConnFun, Put
<1>2. ConnOK(conn'[c], held'[c])
  <2>1. CASE AtWork(conn'[c])
    <3>1. held'[c] = ByNow(c)
      BY <2>1 DEF Remember, ByNow
    <3> QED BY <3>1
  <2>2. CASE ~AtWork(conn'[c])
    BY <2>2, IdleConn
  <2> QED BY <2>1, <2>2
<1>3. \A d \in Conns \ {c} : ConnOK(conn'[d], held'[d])
  BY <1>1, Bystander
<1> QED BY <1>1, <1>2, <1>3 DEF ConnsOK

\* A step in which no connection does anything.
LEMMA ConnsStay ==
    ASSUME ConnsOK, Remember, UNCHANGED conn
    PROVE  ConnsOK'
<1>1. \A d \in Conns : ConnOK(conn'[d], held'[d])
  BY Bystander
<1> QED BY <1>1 DEF ConnsOK, ConnFun

\* Open connections are finitely many.
LEMMA OpenFinite == IsFiniteSet(OpenConns) /\ Cardinality(OpenConns) \in Nat
<1>1. OpenConns \subseteq Conns
  BY DEF OpenConns
<1> QED BY <1>1, FS_Subset, FS_CardinalityType, LdapAssumption

\* A step of a connection that is open takes no permit.
LEMMA PermitStays ==
    ASSUME ConnFun, PermitsOK, NEW c \in Conns, NEW r, Put(c, r), conn[c].pc # "closed"
    PROVE  PermitsOK'
<1>1. OpenConns' \subseteq OpenConns
  BY DEF OpenConns, Put, ConnFun
<1>2. Cardinality(OpenConns') <= Cardinality(OpenConns)
  BY <1>1, OpenFinite, FS_Subset
<1>3. Cardinality(OpenConns') \in Nat
  BY <1>1, OpenFinite, FS_Subset, FS_CardinalityType
<1> QED BY <1>2, <1>3, OpenFinite, LdapAssumption DEF PermitsOK

\* run takes a permit only when one is left.
LEMMA PermitTaken ==
    ASSUME ConnFun, PermitsOK, NEW c \in Conns, Accept(c)
    PROVE  PermitsOK'
<1>1. c \notin OpenConns /\ OpenConns' \subseteq OpenConns \cup {c}
  BY DEF Accept, Step, OpenConns, Put, ConnFun
<1>2. /\ IsFiniteSet(OpenConns \cup {c})
      /\ Cardinality(OpenConns \cup {c}) = Cardinality(OpenConns) + 1
  BY <1>1, OpenFinite, FS_AddElement
<1>3. /\ Cardinality(OpenConns') <= Cardinality(OpenConns \cup {c})
      /\ Cardinality(OpenConns') \in Nat
  BY <1>1, <1>2, FS_Subset, FS_CardinalityType
<1>4. Cardinality(OpenConns) < MaxConnections
  BY DEF Accept, PermitLeft
<1> QED BY <1>2, <1>3, <1>4, OpenFinite, LdapAssumption DEF PermitsOK

\* Every handler moves its own task, an open one, and keeps it in order.
LEMMA ServerStepOK ==
    ASSUME AccountsOK, ConnsOK, NEW c \in Conns, ServerStep(c)
    PROVE  /\ \E r : Step(c, r)
           /\ conn[c].pc # "closed"
           /\ ConnOK(conn'[c], ByNow(c))
<1>0. ConnFun /\ ConnOK(conn[c], ByNow(c)) /\ Facts \subseteq ByNow(c)
  BY ByNowOK DEF ConnsOK
<1>1. CASE DispatchBind(c)
  <2>1. (\E r : Step(c, r)) /\ conn[c].pc # "closed"
    BY <1>1 DEF DispatchBind
  <2> QED BY <1>0, <1>1, <2>1, DispatchBindOK
<1>2. CASE ReadSetting(c)
  <2>1. PICK x, got :
           /\ x = conn[c]
           /\ got = [k \in DOMAIN x.got \cup {SettingKeys[Cardinality(DOMAIN x.got) + 1]} |->
                        IF k \in DOMAIN x.got THEN x.got[k] ELSE settings[k]]
    OBVIOUS
  <2>2. PICK y : y = IF Cardinality(DOMAIN x.got) + 1 = Len(SettingKeys) THEN Configured(x, got)
                     ELSE [x EXCEPT !.got = got]
    OBVIOUS
  <2>3. x.pc \in Loading /\ Step(c, y)
    BY <1>2, <2>1, <2>2, Zenon DEF ReadSetting
  <2>4. ConnOK(y, ByNow(c))
    BY <1>0, <2>1, <2>2, <2>3, ReadSettingOK DEF AccountsOK
  <2>5. conn'[c] = y
    BY <1>0, <2>3 DEF Step, Put, ConnFun
  <2> QED BY <2>1, <2>3, <2>4, <2>5 DEF Loading
<1>3. CASE ReadUser(c)
  BY <1>0, <1>3, ReadUserOK DEF ReadUser
<1>4. CASE ReadTotp(c)
  BY <1>0, <1>4, ReadTotpOK DEF ReadTotp
<1>5. CASE TryApp(c)
  BY <1>0, <1>5, TryAppOK DEF TryApp
<1>6. CASE TryPrimary(c)
  BY <1>0, <1>6, TryPrimaryOK DEF TryPrimary
<1>7. CASE DispatchSearch(c)
  BY <1>0, <1>7, DispatchSearchOK DEF DispatchSearch
<1>8. CASE Recheck(c)
  BY <1>0, <1>8, RecheckOK DEF Recheck
<1>9. CASE Scan(c)
  BY <1>0, <1>9, ScanOK DEF Scan
<1>10. CASE DispatchOther(c)
  BY <1>0, <1>10, DispatchOtherOK DEF DispatchOther
<1>11. CASE DbFails(c)
  BY <1>0, <1>11, DbFailsOK DEF DbFails, Loading, Binding, Searching
<1>12. CASE Send(c) \/ SendFails(c) \/ Goodbye(c)
  BY <1>0, <1>12, SendOK DEF Send, SendFails, Goodbye
<1> QED BY <1>1, <1>2, <1>3, <1>4, <1>5, <1>6, <1>7, <1>8, <1>9, <1>10, <1>11, <1>12 DEF ServerStep

\* Facts are about the settings and the accounts.
LEMMA SameFacts ==
    ASSUME UNCHANGED Others
    PROVE  Facts' = Facts
BY DEF Others, accountVars, Facts

\* The limiter is only touched by a bind.
LEMMA ServerLimiter ==
    ASSUME LimiterInv, NEW c \in Conns, ServerStep(c)
    PROVE  LimiterInv'
<1>1. ASSUME UNCHANGED limiterVars PROVE LimiterInv'
  BY <1>1 DEF limiterVars, LimiterInv, LimiterTypeOK, RateInv
<1>2. CASE DispatchBind(c)
  <2>1. (UNCHANGED limiterVars) \/ \E a \in Addresses : Check(a)
    BY <1>2 DEF DispatchBind
  <2> QED BY <1>1, <2>1, CheckInv
<1> QED BY <1>1, <1>2 DEF ServerStep

\* A step of the server.
LEMMA ServerNextInv ==
    ASSUME Inv, NEW c \in Conns, ServerNext(c)
    PROVE  Inv'
<1>1. LimiterInv'
  BY ServerLimiter DEF Inv, ServerNext
<1>2. Facts' = Facts /\ Remember
  BY SameFacts DEF ServerNext
<1>3. /\ \E r : Step(c, r)
      /\ conn[c].pc # "closed"
      /\ ConnOK(conn'[c], ByNow(c))
  BY ServerStepOK DEF Inv, StateOK, ServerNext
<1>4. ConnsOK'
  BY <1>2, <1>3, ConnStep DEF Inv, Step
<1>5. PermitsOK'
  BY <1>3, PermitStays DEF Inv, Step, ConnsOK
<1>6. StateOK'
  BY <1>3 DEF Inv, StateOK, AccountsOK, ServerNext, Others, accountVars, Step
<1> QED BY <1>1, <1>4, <1>5, <1>6 DEF Inv

\* A step that leaves the settings, the accounts and the limiter alone.
LEMMA QuietState ==
    ASSUME Inv, UNCHANGED <<Others, limiterVars, workload>>, received' \in Nat
    PROVE  LimiterInv' /\ StateOK'
<1>1. LimiterInv'
  BY DEF Inv, limiterVars, LimiterInv, LimiterTypeOK, RateInv
<1>2. StateOK'
  BY DEF Inv, StateOK, AccountsOK, Others, accountVars
<1> QED BY <1>1, <1>2

\* The read timed out, or the client closed the socket.
LEMMA HangupInv ==
    ASSUME Inv, NEW c \in Conns, HangupNext(c)
    PROVE  Inv'
<1>1. LimiterInv' /\ StateOK'
  BY QuietState DEF HangupNext, Hangup, Inv, StateOK
<1>2. Facts' = Facts /\ Remember
  BY SameFacts DEF HangupNext
<1>3. (\E r : Put(c, r)) /\ conn[c].pc # "closed"
  BY DEF HangupNext, Hangup, MayHangUp
<1>4. ConnOK(conn'[c], ByNow(c))
  BY ByNowOK, SocketOK DEF HangupNext, Inv, ConnsOK
<1>5. ConnsOK'
  BY <1>2, <1>3, <1>4, ConnStep DEF Inv
<1>6. PermitsOK'
  BY <1>3, PermitStays DEF Inv, ConnsOK
<1> QED BY <1>1, <1>5, <1>6 DEF Inv

\* What comes from the socket.
LEMMA ClientInv ==
    ASSUME Inv, NEW c \in Conns, ClientStep(c), UNCHANGED <<Others, limiterVars, workload>>, Remember
    PROVE  Inv'
<1>1. LimiterInv' /\ StateOK'
  <2>1. received' \in Nat
    <3>1. received \in Nat
      BY DEF Inv, StateOK
    <3>2. received' \in {received, received + 1}
      <4>1. ASSUME NEW m, Receive(c, m) \/ TakeFrame(c, m) PROVE received' = received + 1
        BY <4>1 DEF Receive, TakeFrame
      <4>2. ASSUME NEW b, Arrive(c, b) PROVE received' = received
        BY <4>2 DEF Arrive
      <4>3. ASSUME Accept(c) \/ RefuseFrame(c) PROVE received' = received
        BY <4>3 DEF Accept, RefuseFrame, Step
      <4> QED BY <4>1, <4>2, <4>3 DEF ClientStep
    <3> QED BY <3>1, <3>2
  <2> QED BY <2>1, QuietState
<1>2. Facts' = Facts
  BY SameFacts
<1>3. CASE Accept(c)
  <2>1. ConnsOK'
    <3>1. ConnOK(conn'[c], ByNow(c))
      BY <1>3, ByNowOK, SocketOK DEF Inv, ConnsOK
    <3> QED BY <1>2, <1>3, <3>1, ConnStep DEF Inv, Accept, Step
  <2>2. PermitsOK'
    BY <1>3, PermitTaken DEF Inv, ConnsOK
  <2> QED BY <1>1, <2>1, <2>2 DEF Inv
<1>4. CASE RefuseFrame(c) \/ \E m : Receive(c, m) \/ TakeFrame(c, m)
  <2>1. (\E r : Put(c, r)) /\ conn[c].pc # "closed"
    BY <1>4 DEF RefuseFrame, Receive, TakeFrame
  <2>2. ConnOK(conn'[c], ByNow(c))
    BY <1>4, ByNowOK, SocketOK DEF Inv, ConnsOK
  <2>3. ConnsOK'
    BY <1>2, <2>1, <2>2, ConnStep DEF Inv
  <2>4. PermitsOK'
    BY <2>1, PermitStays DEF Inv, ConnsOK
  <2> QED BY <1>1, <2>3, <2>4 DEF Inv
<1>5. ASSUME NEW b, Arrive(c, b) PROVE Inv'
  <2>1. UNCHANGED conn
    BY <1>5 DEF Arrive
  <2>2. ConnsOK' /\ PermitsOK'
    BY <2>1, ConnsStay DEF Inv, PermitsOK, OpenConns
  <2> QED BY <1>1, <2>2 DEF Inv
<1> QED BY <1>3, <1>4, <1>5 DEF ClientStep

\* The settings and the accounts change.
LEMMA WorldInv ==
    ASSUME Inv, World, UNCHANGED <<limiterVars, listening, serverVars, workload>>, Remember
    PROVE  Inv'
<1>1. LimiterInv'
  BY DEF Inv, limiterVars, LimiterInv, LimiterTypeOK, RateInv
<1>2. ConnsOK' /\ PermitsOK'
  BY ConnsStay DEF Inv, PermitsOK, OpenConns, serverVars
<1>3. workload' \in DOMAIN Workloads /\ received' \in Nat
  BY DEF Inv, StateOK, serverVars
<1>4. ASSUME NEW what, Changing(what) PROVE changes' \in 0..MaxChanges
  BY <1>4, LdapAssumption DEF Inv, StateOK, Changing
<1>5. ASSUME UpdateLdap PROVE StateOK'
  <2>1. PICK input \in Here.inputs : settings' = [input EXCEPT !.hash = settings.hash]
    BY <1>5 DEF UpdateLdap
  <2>2. input \in LdapConfig /\ settings \in LdapConfig
    BY LdapAssumption DEF Inv, StateOK, AccountsOK, Here
  <2>3. settings' \in LdapConfig
    BY <2>1, <2>2 DEF LdapConfig
  <2> QED BY <1>3, <1>4, <1>5, <2>3 DEF Inv, StateOK, AccountsOK, UpdateLdap, accountVars
<1>6. ASSUME RegenerateBindPassword PROVE StateOK'
  <2>1. settings \in LdapConfig /\ settings.hash \in Nat /\ settings.hash < MaxGeneration
    BY <1>6, LdapAssumption DEF Inv, StateOK, AccountsOK, LdapConfig, RegenerateBindPassword
  <2>2. settings' = [settings EXCEPT !.hash = settings.hash + 1] /\ settings.hash + 1 \in 0..MaxGeneration
    BY <1>6, <2>1, LdapAssumption DEF RegenerateBindPassword
  <2>3. settings' \in LdapConfig
    BY <2>1, <2>2 DEF LdapConfig
  <2> QED BY <1>3, <1>4, <1>6, <2>3 DEF Inv, StateOK, AccountsOK, RegenerateBindPassword, accountVars
<1>7. ASSUME NEW u \in Uids, ChangePassword(u) PROVE StateOK'
  BY <1>3, <1>4, <1>7 DEF Inv, StateOK, AccountsOK, ChangePassword
<1>8. ASSUME NEW u \in Uids, SetActive(u) PROVE StateOK'
  <2>1. active' \in [Uids -> BOOLEAN]
    BY <1>8, Zenon DEF Inv, StateOK, AccountsOK, SetActive
  <2> QED BY <1>3, <1>4, <1>8, <2>1 DEF Inv, StateOK, AccountsOK, SetActive
<1>9. ASSUME NEW u \in Uids, ToggleTotp(u) PROVE StateOK'
  <2>1. totp' \in [Uids -> BOOLEAN]
    BY <1>9, Zenon DEF Inv, StateOK, AccountsOK, ToggleTotp
  <2> QED BY <1>3, <1>4, <1>9, <2>1 DEF Inv, StateOK, AccountsOK, ToggleTotp
<1>10. ASSUME NEW u \in Uids, AskAppPassword(u) PROVE StateOK'
  BY <1>3, <1>4, <1>10 DEF Inv, StateOK, AccountsOK, AskAppPassword
<1>11. ASSUME NEW u \in Uids, InsertAppPassword(u) PROVE StateOK'
  <2>1. issued' = issued + 1 /\ issued' \in 0..MaxApps /\ issued' \in Nat
    BY <1>11, LdapAssumption DEF Inv, StateOK, AccountsOK, InsertAppPassword
  <2>2. apps' \subseteq (1..issued') \X Uids
    BY <1>11, <2>1 DEF Inv, StateOK, AccountsOK, InsertAppPassword
  <2> QED BY <1>3, <1>11, <2>1, <2>2 DEF Inv, StateOK, AccountsOK, InsertAppPassword
<1>12. ASSUME NEW row \in apps, DeleteAppPassword(row) PROVE StateOK'
  BY <1>3, <1>4, <1>12 DEF Inv, StateOK, AccountsOK, DeleteAppPassword
<1>13. StateOK'
  BY <1>5, <1>6, <1>7, <1>8, <1>9, <1>10, <1>11, <1>12 DEF World
<1> QED BY <1>1, <1>2, <1>13 DEF Inv

\* The process starts anew.
LEMMA RestartInv ==
    ASSUME Inv, Restart, Remember, UNCHANGED workload
    PROVE  Inv'
<1>1. LimiterInv'
  BY ClearInv DEF Inv, Restart
<1>2. StateOK'
  BY LdapAssumption DEF Inv, StateOK, AccountsOK, Restart, Changing
<1>3. ConnsOK'
  <2>1. conn' = [d \in Conns |-> Closed]
    BY DEF Restart
  <2>2. \A d \in Conns : ConnOK(conn'[d], held'[d])
    BY <2>1, ClosedConn
  <2> QED BY <2>1, <2>2 DEF ConnsOK, ConnFun
<1>4. PermitsOK'
  <2>1. OpenConns' = {}
    BY DEF OpenConns, Restart, Closed
  <2> QED BY <2>1, FS_EmptySet, LdapAssumption DEF PermitsOK
<1> QED BY <1>1, <1>2, <1>3, <1>4 DEF Inv

\* Time goes by and the limiter is swept.
LEMMA TimeInv ==
    ASSUME Inv, Passage \/ Cleanup, UNCHANGED <<Others, serverVars, workload>>, Remember
    PROVE  Inv'
<1>1. LimiterInv'
  BY PassageInv, CleanupInv DEF Inv
<1>2. StateOK'
  BY DEF Inv, StateOK, AccountsOK, Others, accountVars, serverVars
<1>3. ConnsOK' /\ PermitsOK'
  BY ConnsStay DEF Inv, PermitsOK, OpenConns, serverVars
<1> QED BY <1>1, <1>2, <1>3 DEF Inv

\* The invariant holds at the start.
LEMMA InitInv ==
    ASSUME Init
    PROVE  Inv
<1>1. LimiterInv
  BY LimiterInitInv DEF Init
<1>2. StateOK
  <2>1. workload \in DOMAIN Workloads /\ settings \in LdapConfig
    BY LdapAssumption DEF Init, Here
  <2>2. totp \in [Uids -> BOOLEAN]
    <3>1. Here.factors \subseteq BOOLEAN
      BY <2>1, LdapAssumption DEF Here
    <3> QED BY <3>1 DEF Init
  <2>3. primary \in [Uids -> Passwords]
    BY LdapAssumption DEF Init
  <2> QED BY <2>1, <2>2, <2>3, LdapAssumption DEF Init, StateOK, AccountsOK
<1>3. ConnsOK
  BY ClosedConn DEF Init, ConnsOK, ConnFun
<1>4. PermitsOK
  <2>1. OpenConns = {}
    BY DEF OpenConns, Init, Closed
  <2> QED BY <2>1, FS_EmptySet, LdapAssumption DEF PermitsOK
<1> QED BY <1>1, <1>2, <1>3, <1>4 DEF Inv

\* Every step keeps the invariant.
LEMMA StepInv ==
    ASSUME Inv, [Next]_vars
    PROVE  Inv'
<1>1. CASE UNCHANGED vars
  <2>1. LimiterInv' /\ StateOK'
    BY <1>1, QuietState DEF vars, Others, accountVars, serverVars, Inv, StateOK
  <2>2. ConnsOK' /\ PermitsOK'
    BY <1>1 DEF vars, serverVars, Inv, ConnsOK, ConnFun, PermitsOK, OpenConns
  <2> QED BY <2>1, <2>2 DEF Inv
<1>2. ASSUME NEW c \in Conns, ServerNext(c) \/ HangupNext(c) PROVE Inv'
  BY <1>2, ServerNextInv, HangupInv
<1>3. ASSUME NEW c \in Conns, ClientStep(c), UNCHANGED <<Others, limiterVars>>, Remember, UNCHANGED workload
      PROVE  Inv'
  BY <1>3, ClientInv
<1>4. ASSUME World, UNCHANGED <<limiterVars, listening, serverVars>>, Remember, UNCHANGED workload
      PROVE  Inv'
  BY <1>4, WorldInv
<1>5. ASSUME Restart, Remember, UNCHANGED workload PROVE Inv'
  BY <1>5, RestartInv
<1>6. ASSUME Passage \/ Cleanup, UNCHANGED <<Others, serverVars>>, Remember, UNCHANGED workload PROVE Inv'
  BY <1>6, TimeInv
<1> QED BY <1>1, <1>2, <1>3, <1>4, <1>5, <1>6 DEF Next

-----------------------------------------------------------------------------
(* What a search answers *)

\* The search and the configuration it is answered under are as the parser and the
\* settings made them, a search that goes through the directory has a DN that
\* parses, and what is sent with success is the answer after the role lookups that
\* failed, or the Root DSE.
AnswerOK(x) ==
    /\ x.pc \in {"loading"} \cup Served /\ x.msg.op = "search" => SearchParses(x.msg)
    /\ "base_dn" \in DOMAIN x.got => x.got["base_dn"] \in BaseDns
    /\ x.pc \in Served => x.cfg.base_dn \in BaseDns
    /\ x.pc \in Searching => x.msg.base # BadDn
    /\ x.pc = "sending" /\ x.msg.op = "search" /\ x.reply.code = "success"
       /\ ~(x.msg.base = <<>> /\ x.msg.scope = "base")
          => x.reply.entries = Answer(x.cfg.base_dn, x.msg, x.reply.lost)

AnswersInv == \A c \in Conns : AnswerOK(conn[c])

\* A task that answers nothing and has read no setting.
LEMMA SilentAnswers ==
    ASSUME NEW y, y.pc \in {"reading", "closing", "closed", "opening"}, y.got = Blank
    PROVE  AnswerOK(y)
<1>1. DOMAIN Blank = {}
  BY DEF Blank
<1> QED BY <1>1 DEF AnswerOK, Served, Binding, Searching

\* A task that has begun or ended.
LEMMA ClosedAnswers ==
    /\ AnswerOK(Closed)
    /\ \A y : y = [Closed EXCEPT !.pc = "opening"] => AnswerOK(y)
<1>1. Closed.pc = "closed" /\ Closed.got = Blank
  BY DEF Closed
<1>2. ASSUME NEW y, y = [Closed EXCEPT !.pc = "opening"] PROVE AnswerOK(y)
  <2>1. y.pc = "opening" /\ y.got = Blank
    BY <1>2 DEF Closed
  <2> QED BY <2>1, SilentAnswers
<1> QED BY <1>1, <1>2, SilentAnswers

\* An operation that is no search goes on or is answered.
LEMMA OtherAnswers ==
    ASSUME NEW x, NEW g, ConnOK(x, g), AnswerOK(x), x.pc \in Served, x.msg.op # "search",
           NEW y, NEW p \in Binding \cup {"sending"}, NEW b, NEW u, NEW t, NEW r,
           IsTask(y, p, x.cfg, x.got, b, u, x.msg, t, r)
    PROVE  AnswerOK(y)
<1>1. x.got = Blank /\ DOMAIN Blank = {}
  BY DEF ConnOK, LoadOK, Served, Loading, Binding, Searching, Blank
<1>2. y.pc \in Served /\ y.pc \notin Searching
  BY DEF IsTask, Served, Binding, Searching
<1> QED BY <1>1, <1>2 DEF AnswerOK, IsTask

\* The replies to a bind, and to what is not supported.
LEMMA RepliedAnswers ==
    ASSUME NEW x, NEW g, ConnOK(x, g), AnswerOK(x), x.pc \in Served, x.msg.op # "search",
           NEW y, NEW code, NEW b,
           \/ y = Replying(x, code) \/ y = [Replying(x, code) EXCEPT !.bind = b]
           \/ y = Bound(x, b) \/ y = Refused(x) \/ y = Failed(x)
    PROVE  AnswerOK(y)
<1>1. IsConn(x)
  BY DEF ConnOK
<1>2. ASSUME NEW k, y = Replying(x, k) PROVE AnswerOK(y)
  BY <1>1, <1>2, Replies, OtherAnswers
<1>3. ASSUME NEW k, NEW d, y = [Replying(x, k) EXCEPT !.bind = d] PROVE AnswerOK(y)
  <2>1. IsTask(y, "sending", x.cfg, x.got, d, x.under, x.msg, x.totp, Done(k, {}))
    BY <1>1, <1>3, Replies
  <2> QED BY <2>1, OtherAnswers
<1>4. ASSUME y = Bound(x, b) PROVE AnswerOK(y)
  BY <1>1, <1>4, Replies, OtherAnswers
<1> QED BY <1>2, <1>3, <1>4 DEF Refused, Failed

\* A task that stops what it was doing.
LEMMA PausedAnswers ==
    ASSUME NEW x, NEW g, ConnOK(x, g), x.pc \notin Loading, NEW y, NEW p \in {"reading", "closing"},
           NEW m, NEW t, NEW r, IsTask(y, p, x.cfg, x.got, x.bind, x.under, m, t, r)
    PROVE  AnswerOK(y)
<1>1. y.got = Blank /\ y.pc = p
  BY DEF ConnOK, LoadOK, IsTask
<1> QED BY <1>1, SilentAnswers

\* load_ldap_config: the base DN is one that was configured.
LEMMA ReadSettingAnswers ==
    ASSUME settings \in LdapConfig, NEW x, NEW g, ConnOK(x, g), AnswerOK(x),
           x.pc \in Loading, NEW got, NEW y,
           got = [k \in DOMAIN x.got \cup {SettingKeys[Cardinality(DOMAIN x.got) + 1]} |->
                     IF k \in DOMAIN x.got THEN x.got[k] ELSE settings[k]],
           y = IF Cardinality(DOMAIN x.got) + 1 = Len(SettingKeys) THEN Configured(x, got)
               ELSE [x EXCEPT !.got = got]
    PROVE  AnswerOK(y)
<1> DEFINE K == DOMAIN x.got
           key == SettingKeys[Cardinality(K) + 1]
<1>0. DOMAIN Blank = {}
  BY DEF Blank
<1>1. IsConn(x) /\ K \in ReadSoFar /\ (x.pc = "opening" \/ x.pc = "loading")
  BY DEF ConnOK, LoadOK, Loading
<1>2. Cardinality(K) + 1 = Len(SettingKeys) => K \cup {key} = AllKeys
  BY <1>1, NextKey
<1>3. DOMAIN got = K \cup {key}
  OBVIOUS
<1>4. "base_dn" \in DOMAIN got => got["base_dn"] \in BaseDns
  <2>1. settings["base_dn"] \in BaseDns
    BY DEF LdapConfig
  <2>2. "base_dn" \in K => x.got["base_dn"] \in BaseDns
    BY DEF AnswerOK
  <2> QED BY <2>1, <2>2
<1> HIDE DEF K, key
<1>5. CASE Cardinality(K) + 1 # Len(SettingKeys)
  <2>1. IsTask(y, x.pc, x.cfg, got, x.bind, x.under, x.msg, x.totp, x.reply)
    BY <1>1, <1>5, Edits DEF K
  <2> QED BY <1>1, <1>4, <2>1 DEF IsTask, AnswerOK, Served, Binding, Searching
<1>6. CASE Cardinality(K) + 1 = Len(SettingKeys)
  <2>0. y = Configured(x, got) /\ DOMAIN got = AllKeys
    BY <1>2, <1>3, <1>6 DEF K
  <2>1. CASE x.pc = "opening"
    <3>1. y = [x EXCEPT !.pc = "reading", !.cfg = got, !.got = Blank]
      BY <2>0, <2>1 DEF Configured
    <3>2. IsTask(y, "reading", got, Blank, x.bind, x.under, x.msg, x.totp, x.reply)
      BY <1>1, <3>1, Edits
    <3> QED BY <1>0, <3>2 DEF IsTask, AnswerOK, Served, Binding, Searching
  <2>2. CASE x.pc = "loading" /\ ~got.enabled
    <3>1. y = [x EXCEPT !.pc = "closing", !.got = Blank]
      BY <2>0, <2>2 DEF Configured
    <3>2. IsTask(y, "closing", x.cfg, Blank, x.bind, x.under, x.msg, x.totp, x.reply)
      BY <1>1, <3>1, Edits
    <3> QED BY <1>0, <3>2 DEF IsTask, AnswerOK, Served, Binding, Searching
  <2>3. CASE x.pc = "loading" /\ got.enabled
    <3> DEFINE b == IF ConfigChanged(x.cfg, got) THEN Anonymous ELSE x.bind
    <3>1. y = [x EXCEPT !.pc = "dispatch", !.got = Blank, !.cfg = got, !.bind = b]
      BY <2>0, <2>3 DEF Configured
    <3> HIDE DEF b
    <3>2. IsTask(y, "dispatch", got, Blank, b, x.under, x.msg, x.totp, x.reply)
      BY <1>1, <3>1, Edits
    <3>3. got.base_dn \in BaseDns /\ DOMAIN Blank = {}
      BY <1>4, <2>0 DEF AllKeys, Blank
    <3> QED BY <2>3, <3>2, <3>3 DEF IsTask, AnswerOK, Searching
  <2> QED BY <1>1, <2>1, <2>2, <2>3
<1> QED BY <1>5, <1>6

Starting(start, base_dn, s) ==
    /\ start.code = "scan" => s.base # BadDn
    /\ start.code = "success" /\ ~(s.base = <<>> /\ s.scope = "base")
          => start.entries = Answer(base_dn, s, start.lost)

\* handle_search before it opens the database: what it answers at once is the
\* answer, and what it scans for has a DN that parses.
LEMMA StartAnswers ==
    ASSUME NEW anonymous \in BOOLEAN, NEW base_dn, IsSequence(base_dn), NEW s, SearchParses(s)
    PROVE  Starting(SearchStart(anonymous, base_dn, s), base_dn, s)
<1> DEFINE includes == \/ Includes(PeopleDn(base_dn), s.base, s.scope)
                       \/ Includes(GroupsDn(base_dn), s.base, s.scope)
<1>1. PICK start : start = SearchStart(anonymous, base_dn, s)
  OBVIOUS
<1>2. \/ start = Done("insufficient", {}) \/ start = Done("no_such_object", {})
      \/ start = Done("invalid_dn", {})
      \/ (s.base = <<>> /\ s.scope = "base") /\ start = Done("success", {RootDse(base_dn)})
      \/ s.base # BadDn /\ start = Done("scan", {})
      \/ s.base # BadDn /\ ~includes /\ start = Done("success", {})
  BY <1>1 DEF SearchStart
<1>3. ASSUME s.base # BadDn, ~includes PROVE \A lost : Answer(base_dn, s, lost) = {}
  BY <1>3, NowhereIsAnswer
<1> HIDE DEF includes
<1>4. \A code, found : Done(code, found).code = code /\ Done(code, found).entries = found
  BY DEF Done, Reply
<1>5. Starting(start, base_dn, s)
  <2>1. CASE s.base # BadDn /\ ~includes /\ start = Done("success", {})
    BY <1>3, <1>4, <2>1 DEF Starting
  <2>2. CASE start = Done("success", {RootDse(base_dn)}) /\ s.base = <<>> /\ s.scope = "base"
    BY <1>4, <2>2 DEF Starting
  <2>3. CASE s.base # BadDn /\ start = Done("scan", {})
    BY <1>4, <2>3 DEF Starting
  <2>4. CASE \/ start = Done("insufficient", {}) \/ start = Done("no_such_object", {})
             \/ start = Done("invalid_dn", {})
    BY <1>4, <2>4 DEF Starting
  <2> QED BY <1>2, <2>1, <2>2, <2>3, <2>4
<1> QED BY <1>1, <1>5

\* handle_search up to the first statement.
LEMMA DispatchSearchAnswers ==
    ASSUME ConnFun, NEW c \in Conns, NEW g, ConnOK(conn[c], g), AnswerOK(conn[c]), DispatchSearch(c)
    PROVE  AnswerOK(conn'[c])
<1>1. PICK x, y, start :
         x = conn[c] /\ y = conn'[c]
         /\ start = SearchStart(x.bind = Anonymous, x.cfg.base_dn, x.msg)
  OBVIOUS
<1>2. /\ ConnOK(x, g) /\ AnswerOK(x) /\ x.pc = "dispatch" /\ x.pc \in Served /\ x.msg.op = "search"
      /\ y = IF start.code # "scan" THEN [x EXCEPT !.pc = "sending", !.reply = start]
             ELSE [x EXCEPT !.pc = IF x.bind.as = "user" THEN "recheck" ELSE "scan"]
  BY <1>1 DEF DispatchSearch, Step, Put, ConnFun, Served
<1>3. /\ x.cfg.base_dn \in BaseDns /\ SearchParses(x.msg) /\ x.got = Blank /\ DOMAIN Blank = {}
      /\ IsConn(x)
  BY <1>2 DEF AnswerOK, ConnOK, LoadOK, Loading, Blank
<1>4. IsSequence(x.cfg.base_dn)
  BY <1>3, LdapAssumption
<1>5. /\ start.code = "scan" => x.msg.base # BadDn
      /\ start.code = "success" /\ ~(x.msg.base = <<>> /\ x.msg.scope = "base")
            => start.entries = Answer(x.cfg.base_dn, x.msg, start.lost)
  <2>1. Starting(start, x.cfg.base_dn, x.msg)
    <3>1. (x.bind = Anonymous) \in BOOLEAN
      OBVIOUS
    <3> QED BY <1>1, <1>3, <1>4, <3>1, StartAnswers
  <2> QED BY <2>1 DEF Starting
<1>6. CASE start.code # "scan"
  <2>1. IsTask(y, "sending", x.cfg, x.got, x.bind, x.under, x.msg, x.totp, start)
    BY <1>2, <1>3, <1>6, Edits
  <2> QED BY <1>1, <1>3, <1>5, <2>1 DEF IsTask, AnswerOK, Searching
<1>7. CASE start.code = "scan"
  <2>1. PICK p : p = IF x.bind.as = "user" THEN "recheck" ELSE "scan"
    OBVIOUS
  <2>2. IsTask(y, p, x.cfg, x.got, x.bind, x.under, x.msg, x.totp, x.reply)
    BY <1>2, <1>3, <1>7, <2>1, Edits
  <2> QED BY <1>1, <1>3, <1>5, <1>7, <2>1, <2>2 DEF IsTask, AnswerOK
<1> QED BY <1>6, <1>7

\* The user is looked up again, and the directory is read.
LEMMA SearchingAnswers ==
    ASSUME ConnFun, NEW c \in Conns, NEW g, ConnOK(conn[c], g), AnswerOK(conn[c]),
           conn[c].pc \in Searching, Recheck(c) \/ Scan(c) \/ DbFails(c)
    PROVE  AnswerOK(conn'[c])
<1>1. PICK x, y : x = conn[c] /\ y = conn'[c]
  OBVIOUS
<1>2. /\ ConnOK(x, g) /\ AnswerOK(x) /\ x.pc \in Searching /\ x.pc \in Served
      /\ \/ y = [x EXCEPT !.pc = "scan"]
         \/ y = Replying(x, "insufficient") \/ y = Replying(x, "operations")
         \/ \E lost : y = [x EXCEPT !.pc = "sending",
                     !.reply = Reply("success", SearchScan(x.cfg.base_dn, x.msg, lost), lost)]
  BY <1>1 DEF Recheck, Scan, DbFails, Step, Put, ConnFun, Served, Searching, Loading, Binding
<1>3. /\ x.cfg.base_dn \in BaseDns /\ x.msg.op = "search" /\ SearchParses(x.msg)
      /\ x.msg.base # BadDn /\ IsConn(x)
  BY <1>2 DEF AnswerOK, ConnOK, SearchOK
<1>4. x.got = Blank /\ DOMAIN Blank = {}
  BY <1>2 DEF ConnOK, LoadOK, Loading, Searching, Blank
<1>5. CASE y = [x EXCEPT !.pc = "scan"]
  <2>1. IsTask(y, "scan", x.cfg, x.got, x.bind, x.under, x.msg, x.totp, x.reply)
    BY <1>3, <1>5, Edits
  <2> QED BY <1>1, <1>3, <1>4, <2>1 DEF IsTask, AnswerOK
<1>6. ASSUME NEW code \in {"insufficient", "operations"}, y = Replying(x, code) PROVE AnswerOK(y)
  <2>1. IsTask(y, "sending", x.cfg, x.got, x.bind, x.under, x.msg, x.totp, Done(code, {}))
    BY <1>3, <1>6, Replies
  <2>2. y.reply.code # "success"
    BY <2>1 DEF IsTask, Done, Reply
  <2> QED BY <1>3, <1>4, <2>1, <2>2 DEF IsTask, AnswerOK, Searching
<1>7. ASSUME NEW lost, NEW r,
             r = Reply("success", SearchScan(x.cfg.base_dn, x.msg, lost), lost),
             y = [x EXCEPT !.pc = "sending", !.reply = r]
      PROVE  AnswerOK(y)
  <2>1. IsTask(y, "sending", x.cfg, x.got, x.bind, x.under, x.msg, x.totp, r)
    BY <1>3, <1>7, Edits
  <2>2. r.entries = Answer(x.cfg.base_dn, x.msg, r.lost)
    <3>1. SearchScan(x.cfg.base_dn, x.msg, lost) = Answer(x.cfg.base_dn, x.msg, lost)
      BY <1>3, ScanIsAnswer, LdapAssumption
    <3> QED BY <1>7, <3>1 DEF Reply
  <2> QED BY <1>1, <1>3, <1>4, <2>1, <2>2 DEF IsTask, AnswerOK, Searching
<1> QED BY <1>1, <1>2, <1>5, <1>6, <1>7

\* A bind, one statement at a time, and what is neither a bind nor a search.
LEMMA BindingAnswers ==
    ASSUME ConnFun, NEW c \in Conns, NEW g, ConnOK(conn[c], g), AnswerOK(conn[c]),
           \/ DispatchBind(c) \/ ReadUser(c) \/ ReadTotp(c) \/ TryApp(c) \/ TryPrimary(c)
           \/ DispatchOther(c)
           \/ conn[c].pc \in Binding /\ DbFails(c)
    PROVE  AnswerOK(conn'[c])
<1>1. PICK x, y, w :
         x = conn[c] /\ y = conn'[c] /\ w = [x EXCEPT !.totp = totp[Uid(x)]]
  OBVIOUS
<1>2. /\ ConnOK(x, g) /\ AnswerOK(x) /\ x.pc \in {"dispatch"} \cup Binding
      /\ x.pc = "dispatch" => x.msg.op # "search"
  BY <1>1 DEF DispatchBind, ReadUser, ReadTotp, TryApp, TryPrimary, DispatchOther, Binding
<1>3. IsConn(x) /\ x.pc \in Served /\ x.pc \notin Loading /\ x.msg.op # "search"
  BY <1>2 DEF ConnOK, UserOK, Served, Loading, Binding
<1>4. IsTask(w, x.pc, x.cfg, x.got, x.bind, x.under, x.msg, totp[Uid(x)], x.reply)
  BY <1>1, <1>3, Edits
<1>5. \/ \E b : y = Bound(x, b)
      \/ y = Refused(x) \/ y = Failed(x) \/ y = Refused(w)
      \/ y = [Replying(x, "success") EXCEPT !.bind = Anonymous]
      \/ \E code : y = Replying(x, code)
      \/ \E p \in Binding : y = [x EXCEPT !.pc = p] \/ y = [w EXCEPT !.pc = p]
      \/ y = [x EXCEPT !.pc = "closing"]
      \/ y = [x EXCEPT !.pc = "reading", !.msg = Blank]
  <2>1. CASE DispatchBind(c)
    BY <1>1, <2>1 DEF DispatchBind, ServiceBind, Step, Put, ConnFun, Binding
  <2>2. CASE ReadUser(c)
    BY <1>1, <2>2 DEF ReadUser, Step, Put, ConnFun, Binding
  <2>3. CASE ReadTotp(c)
    BY <1>1, <2>3 DEF ReadTotp, Step, Put, ConnFun, Binding
  <2>4. CASE TryApp(c)
    BY <1>1, <2>4 DEF TryApp, Step, Put, ConnFun, Binding
  <2>5. CASE TryPrimary(c)
    BY <1>1, <2>5 DEF TryPrimary, Step, Put, ConnFun
  <2>6. CASE DispatchOther(c)
    BY <1>1, <2>6 DEF DispatchOther, Step, Put, ConnFun
  <2>7. CASE conn[c].pc \in Binding /\ DbFails(c)
    BY <1>1, <2>7 DEF DbFails, Step, Put, ConnFun, Binding, Loading, Searching
  <2> QED BY <2>1, <2>2, <2>3, <2>4, <2>5, <2>6, <2>7
<1>6. ASSUME NEW v, v = x \/ v = w PROVE /\ IsConn(v) /\ v.cfg = x.cfg /\ v.got = x.got /\ v.msg = x.msg
  BY <1>3, <1>4, <1>6 DEF IsTask
<1>7. ASSUME NEW v, v = x \/ v = w, NEW p \in Binding, y = [v EXCEPT !.pc = p] PROVE AnswerOK(y)
  <2>1. IsTask(y, p, x.cfg, x.got, v.bind, v.under, x.msg, v.totp, v.reply)
    BY <1>6, <1>7, Edits
  <2> QED BY <1>2, <1>3, <2>1, OtherAnswers
<1>8. ASSUME y = Refused(w) PROVE AnswerOK(y)
  <2>1. IsTask(y, "sending", w.cfg, w.got, Anonymous, w.under, w.msg, w.totp,
               Done("invalid_credentials", {}))
    BY <1>6, <1>8, Replies DEF Refused
  <2>2. IsTask(y, "sending", x.cfg, x.got, Anonymous, w.under, x.msg, w.totp,
               Done("invalid_credentials", {}))
    BY <1>6, <2>1
  <2> QED BY <1>2, <1>3, <2>2, OtherAnswers
<1>9. ASSUME y = [x EXCEPT !.pc = "closing"] PROVE AnswerOK(y)
  <2>1. IsTask(y, "closing", x.cfg, x.got, x.bind, x.under, x.msg, x.totp, x.reply)
    BY <1>3, <1>9, Edits
  <2> QED BY <1>2, <1>3, <2>1, PausedAnswers
<1>10. ASSUME y = [x EXCEPT !.pc = "reading", !.msg = Blank] PROVE AnswerOK(y)
  <2>1. IsTask(y, "reading", x.cfg, x.got, x.bind, x.under, Blank, x.totp, x.reply)
    BY <1>3, <1>10, Edits
  <2> QED BY <1>2, <1>3, <2>1, PausedAnswers
<1>11. ASSUME NEW code, NEW b,
              \/ y = Replying(x, code) \/ y = [Replying(x, code) EXCEPT !.bind = b]
              \/ y = Bound(x, b) \/ y = Refused(x) \/ y = Failed(x)
       PROVE  AnswerOK(y)
  BY <1>2, <1>3, <1>11, RepliedAnswers
<1>12. AnswerOK(y)
  BY <1>5, <1>7, <1>8, <1>9, <1>10, <1>11, Zenon
<1> QED BY <1>1, <1>12

\* Every handler.
LEMMA ServerAnswers ==
    ASSUME AccountsOK, ConnFun, NEW c \in Conns, NEW g, ConnOK(conn[c], g), AnswerOK(conn[c]),
           ServerStep(c)
    PROVE  AnswerOK(conn'[c])
<1>1. CASE ReadSetting(c)
  <2>1. PICK x, got :
           /\ x = conn[c]
           /\ got = [k \in DOMAIN x.got \cup {SettingKeys[Cardinality(DOMAIN x.got) + 1]} |->
                        IF k \in DOMAIN x.got THEN x.got[k] ELSE settings[k]]
    OBVIOUS
  <2>2. PICK y : y = IF Cardinality(DOMAIN x.got) + 1 = Len(SettingKeys) THEN Configured(x, got)
                     ELSE [x EXCEPT !.got = got]
    OBVIOUS
  <2>3. x.pc \in Loading /\ Step(c, y)
    BY <1>1, <2>1, <2>2, Zenon DEF ReadSetting
  <2>4. AnswerOK(y)
    BY <2>1, <2>2, <2>3, ReadSettingAnswers DEF AccountsOK
  <2>5. conn'[c] = y
    BY <2>3 DEF Step, Put, ConnFun
  <2> QED BY <2>4, <2>5
<1>2. CASE DispatchSearch(c)
  BY <1>2, DispatchSearchAnswers
<1>3. CASE Recheck(c) \/ Scan(c) \/ (conn[c].pc \in Searching /\ DbFails(c))
  <2>1. conn[c].pc \in Searching
    BY <1>3 DEF Recheck, Scan, Searching
  <2> QED BY <1>3, <2>1, SearchingAnswers
<1>4. CASE \/ DispatchBind(c) \/ ReadUser(c) \/ ReadTotp(c) \/ TryApp(c) \/ TryPrimary(c)
           \/ DispatchOther(c) \/ (conn[c].pc \in Binding /\ DbFails(c))
  BY <1>4, BindingAnswers
<1>5. CASE Send(c) \/ SendFails(c) \/ Goodbye(c) \/ (conn[c].pc \in Loading /\ DbFails(c))
  <2>1. PICK x, y : x = conn[c] /\ y = conn'[c]
    OBVIOUS
  <2>2. \/ y = Closed
        \/ /\ ConnOK(x, g) /\ x.pc \notin Loading
           /\ \/ y = [x EXCEPT !.pc = "reading", !.msg = Blank, !.reply = Blank, !.totp = FALSE]
              \/ y = [x EXCEPT !.pc = "closing"]
    BY <1>5, <2>1 DEF Send, SendFails, Goodbye, DbFails, Step, Put, ConnFun, Loading, Binding, Searching
  <2>3. CASE y = [x EXCEPT !.pc = "reading", !.msg = Blank, !.reply = Blank, !.totp = FALSE]
             /\ ConnOK(x, g) /\ x.pc \notin Loading
    <3>1. PICK p, m, r, t : p = "reading" /\ m = Blank /\ r = Blank /\ t = FALSE
      OBVIOUS
    <3>2. y = [x EXCEPT !.pc = p, !.msg = m, !.reply = r, !.totp = t]
      BY <2>3, <3>1
    <3>3. IsTask(y, p, x.cfg, x.got, x.bind, x.under, m, t, r)
      BY <2>3, <3>2, Edits DEF ConnOK
    <3> QED BY <2>1, <2>3, <3>1, <3>3, PausedAnswers
  <2>4. CASE y = [x EXCEPT !.pc = "closing"] /\ ConnOK(x, g) /\ x.pc \notin Loading
    <3>1. IsTask(y, "closing", x.cfg, x.got, x.bind, x.under, x.msg, x.totp, x.reply)
      BY <2>4, Edits DEF ConnOK
    <3> QED BY <2>1, <2>4, <3>1, PausedAnswers
  <2> QED BY <2>1, <2>2, <2>3, <2>4, ClosedAnswers
<1>6. CASE DbFails(c)
  <2>1. conn[c].pc \in Loading \cup Binding \cup Searching
    BY <1>6 DEF DbFails, Binding
  <2> QED BY <1>3, <1>4, <1>5, <1>6, <2>1
<1> QED BY <1>1, <1>2, <1>3, <1>4, <1>5, <1>6 DEF ServerStep

\* The socket: a message is one the parser makes.
LEMMA SocketAnswers ==
    ASSUME ConnFun, workload \in DOMAIN Workloads, NEW c \in Conns, NEW g, ConnOK(conn[c], g),
           AnswerOK(conn[c]), ClientStep(c) \/ Hangup(c)
    PROVE  AnswerOK(conn'[c])
<1>1. PICK x, y : x = conn[c] /\ y = conn'[c]
  OBVIOUS
<1>2. /\ ConnOK(x, g) /\ AnswerOK(x)
      /\ \/ y = [Closed EXCEPT !.pc = "opening"] \/ y = x
         \/ x.pc = "reading" /\ y = [x EXCEPT !.pc = "closing"]
         \/ x.pc = "reading" /\ \E m \in Here.messages : y = [x EXCEPT !.pc = "loading", !.msg = m]
  BY <1>1 DEF ClientStep, Accept, RefuseFrame, Hangup, MayHangUp, Receive, TakeFrame, Arrive, Step,
              Put, ConnFun
<1>3. CASE x.pc = "reading" /\ y = [x EXCEPT !.pc = "closing"]
  <2>1. IsTask(y, "closing", x.cfg, x.got, x.bind, x.under, x.msg, x.totp, x.reply)
    BY <1>2, <1>3, Edits DEF ConnOK
  <2> QED BY <1>1, <1>2, <1>3, <2>1, PausedAnswers DEF Loading
<1>4. ASSUME NEW m \in Here.messages, x.pc = "reading", y = [x EXCEPT !.pc = "loading", !.msg = m]
      PROVE  AnswerOK(y)
  <2>1. IsTask(y, "loading", x.cfg, x.got, x.bind, x.under, m, x.totp, x.reply)
    BY <1>2, <1>4, Edits DEF ConnOK
  <2>2. x.got = Blank /\ DOMAIN Blank = {}
    BY <1>2, <1>4 DEF ConnOK, LoadOK, Loading, Blank
  <2>3. m.op = "search" => SearchParses(m)
    BY LdapAssumption DEF Here
  <2> QED BY <2>1, <2>2, <2>3 DEF IsTask, AnswerOK, Served, Binding, Searching
<1> QED BY <1>1, <1>2, <1>3, <1>4, ClosedAnswers

\* A step of connection c touches no other.
LEMMA OthersStay ==
    ASSUME ConnFun, NEW c \in Conns, ServerStep(c) \/ ClientStep(c) \/ Hangup(c)
    PROVE  \A d \in Conns \ {c} : conn'[d] = conn[d]
<1>1. (\E r : Put(c, r)) \/ conn' = conn
  <2>1. CASE ServerStep(c)
    <3>1. CASE DispatchBind(c)
      BY <3>1 DEF DispatchBind, Step
    <3>2. CASE ~DispatchBind(c)
      <4>1. \E r : Step(c, r)
        BY <2>1, <3>2 DEF ServerStep, ReadSetting, ReadUser, ReadTotp, TryApp, TryPrimary,
             DispatchSearch, Recheck, Scan, DispatchOther, DbFails, Send, SendFails, Goodbye
      <4> QED BY <4>1 DEF Step
    <3> QED BY <3>1, <3>2
  <2>2. CASE ClientStep(c) \/ Hangup(c)
    BY <2>2 DEF ClientStep, Accept, Receive, TakeFrame, RefuseFrame, Arrive, Hangup, Step
  <2> QED BY <2>1, <2>2
<1> QED BY <1>1 DEF Put, ConnFun

\* Every step keeps the answers right.
LEMMA StepAnswers ==
    ASSUME Inv, AnswersInv, [Next]_vars
    PROVE  AnswersInv'
<1>1. ASSUME NEW c \in Conns, ServerStep(c) \/ ClientStep(c) \/ Hangup(c) PROVE AnswersInv'
  <2>1. ConnFun /\ ConnOK(conn[c], held[c]) /\ AnswerOK(conn[c]) /\ AccountsOK
        /\ workload \in DOMAIN Workloads
    BY DEF Inv, ConnsOK, StateOK, AnswersInv
  <2>2. AnswerOK(conn'[c])
    BY <1>1, <2>1, ServerAnswers, SocketAnswers
  <2>3. \A d \in Conns \ {c} : conn'[d] = conn[d]
    BY <1>1, <2>1, OthersStay
  <2> QED BY <2>2, <2>3 DEF AnswersInv
<1>2. CASE conn' = conn
  BY <1>2 DEF AnswersInv
<1>3. CASE Restart
  <2>1. \A d \in Conns : conn'[d] = Closed
    BY <1>3 DEF Restart
  <2> QED BY <2>1, ClosedAnswers DEF AnswersInv
<1> QED BY <1>1, <1>2, <1>3 DEF Next, ServerNext, HangupNext, serverVars, vars

-----------------------------------------------------------------------------
(* What the codec decides *)

\* What is buffered are bytes.
BufsInv == buf \in [Conns -> Seq(Byte)]

\* Every step keeps the buffers.
LEMMA StepBufs ==
    ASSUME Inv, BufsInv, [Next]_vars
    PROVE  BufsInv'
<1>1. CASE UNCHANGED buf
  BY <1>1 DEF BufsInv
<1>2. CASE \E c \in Conns : buf' = [buf EXCEPT ![c] = <<>>]
  <2>1. <<>> \in Seq(Byte)
    OBVIOUS
  <2> QED BY <1>2, <2>1 DEF BufsInv
<1>3. ASSUME NEW c \in Conns, NEW b \in Here.bytes, Arrive(c, b) PROVE BufsInv'
  <2>1. b \in Byte
    BY LdapAssumption DEF Inv, StateOK, Here, Byte
  <2>2. Append(buf[c], b) \in Seq(Byte)
    BY <2>1, AppendProperties DEF BufsInv
  <2> QED BY <1>3, <2>2 DEF Arrive, BufsInv
<1>4. CASE Restart
  BY <1>4 DEF Restart, BufsInv
<1>5. ASSUME NEW c \in Conns, ServerStep(c) PROVE UNCHANGED buf
  <2>1. CASE DispatchBind(c)
    BY <2>1 DEF DispatchBind, Step
  <2>2. CASE ~DispatchBind(c)
    <3>1. \E r : Step(c, r)
      BY <1>5, <2>2 DEF ServerStep, ReadSetting, ReadUser, ReadTotp, TryApp, TryPrimary,
           DispatchSearch, Recheck, Scan, DispatchOther, DbFails, Send, SendFails, Goodbye
    <3> QED BY <3>1 DEF Step
  <2> QED BY <2>1, <2>2
<1>6. ASSUME NEW c \in Conns, ClientStep(c) PROVE BufsInv'
  <2>1. CASE Accept(c) \/ \E m \in Here.messages : Receive(c, m)
    BY <1>1, <2>1 DEF Accept, Receive, Step
  <2>2. CASE RefuseFrame(c) \/ \E m \in Here.messages : TakeFrame(c, m)
    BY <1>2, <2>2 DEF RefuseFrame, TakeFrame
  <2> QED BY <1>3, <1>6, <2>1, <2>2 DEF ClientStep
<1>7. ASSUME NEW c \in Conns, Hangup(c) PROVE BufsInv'
  BY <1>2, <1>7 DEF Hangup
<1> QED BY <1>1, <1>4, <1>5, <1>6, <1>7 DEF Next, ServerNext, HangupNext, serverVars, vars

-----------------------------------------------------------------------------
(* The theorems *)

\* The invariant of the LDAP server holds in every state.
THEOREM Invariance == Spec => []Inv
<1>1. Init => Inv
  BY InitInv
<1>2. Inv /\ [Next]_vars => Inv'
  BY StepInv
<1> QED BY <1>1, <1>2, PTL DEF Spec

\* Types, and with them that run never gives out more than MAX_CONNECTIONS permits.
THEOREM TypeCorrect == Spec => []TypeOK
<1>1. Inv => TypeOK
  <2> SUFFICES ASSUME Inv PROVE TypeOK
    OBVIOUS
  <2>1. \A c \in Conns : conn[c].pc \in PCs
    BY DEF Inv, ConnsOK, ConnOK
  <2> QED BY <2>1 DEF Inv, LimiterInv, StateOK, AccountsOK, PermitsOK, TypeOK
<1> QED BY <1>1, Invariance, PTL

\* handle_search sends the directory only to a bind that was good at some instant
\* since the search came in: password, mode, base DN and the user's account.
THEOREM SearchesUnderCurrentBinds == Spec => []BoundSearchesAreCurrent
<1>1. ASSUME Inv PROVE BoundSearchesAreCurrent
  <2> SUFFICES ASSUME NEW c \in Conns, SendsEntries(conn[c]), conn[c].bind # Anonymous
               PROVE  /\ <<"enabled", TRUE>> \in held[c]
                      /\ \A k \in {"hash", "mode", "base_dn"} : <<k, conn[c].under[k]>> \in held[c]
                      /\ conn[c].bind.as = "user" => <<"active", conn[c].bind.uid>> \in held[c]
    BY DEF BoundSearchesAreCurrent
  <2>1. PICK x : x = conn[c]
    OBVIOUS
  <2>2. /\ ConfigOK(x, held[c]) /\ SearchOK(x, held[c])
        /\ x.pc = "sending" /\ x.msg.op = "search" /\ ~RootOnly(x.reply, x.cfg.base_dn)
        /\ x.bind # Anonymous
    BY <1>1, <2>1 DEF Inv, ConnsOK, ConnOK, SendsEntries, RootOnly
  <2>3. <<"enabled", TRUE>> \in held[c] /\ \A k \in BindKeys : <<k, x.under[k]>> \in held[c]
    BY <2>2 DEF ConfigOK, SameBind, Served
  <2>4. x.bind.as = "user" => <<"active", x.bind.uid>> \in held[c]
    BY <2>2 DEF SearchOK
  <2> QED BY <2>1, <2>3, <2>4 DEF BindKeys
<1> QED BY <1>1, Invariance, PTL

\* handle_bind binds a user only by a password the mode allows, valid and of an
\* active user at an instant of the request.
THEOREM BindsAreJustified == Spec => []UserBindsAreJustified
<1>1. ASSUME Inv PROVE UserBindsAreJustified
  <2>1. ASSUME NEW c \in Conns, conn[c].pc = "sending", conn[c].msg.op = "bind",
               conn[c].bind.as = "user"
        PROVE  Justified(conn[c].msg.pw, conn[c].bind.uid, held[c])
    BY <1>1, <2>1 DEF Inv, ConnsOK, ConnOK, UserOK
  <2> QED BY <2>1 DEF UserBindsAreJustified, Justified
<1> QED BY <1>1, Invariance, PTL

\* RateLimiter::check lets an address in fewer than twice MaxRequests times in any
\* Window, wherever the windows it counts in begin.
THEOREM BindRateIsBounded == Spec => []BindRateBounded
<1>1. Inv => BindRateBounded
  BY RateBound DEF Inv
<1> QED BY <1>1, Invariance, PTL

\* handle_search answers a search with exactly the entries in its scope that satisfy
\* its filter, whatever is configured, asked and stored.  Where role lookups failed,
\* that is the answer of a directory in which those users are in no role; it has the
\* same entries' names as the true one when the filter does not ask for roles.
THEOREM SearchesAnswerTheirScope == Spec => []SearchAnswersScope
<1>1. Init => AnswersInv
  BY ClosedAnswers DEF Init, AnswersInv
<1>2. Inv /\ AnswersInv /\ [Next]_vars => AnswersInv'
  BY StepAnswers
<1>3. AnswersInv => SearchAnswersScope
  <2> SUFFICES ASSUME AnswersInv, NEW c \in Conns, NEW x, x = conn[c],
                      x.pc = "sending", x.msg.op = "search", x.reply.code = "success",
                      ~(x.msg.base = <<>> /\ x.msg.scope = "base")
               PROVE  /\ x.reply.entries = Answer(x.cfg.base_dn, x.msg, x.reply.lost)
                      /\ RoleBlind(x.msg.filter) =>
                            Names(x.reply.entries) = Names(Answer(x.cfg.base_dn, x.msg, NoneLost))
    BY DEF SearchAnswersScope
  <2>1. /\ x.reply.entries = Answer(x.cfg.base_dn, x.msg, x.reply.lost)
        /\ SearchParses(x.msg)
    BY DEF AnswersInv, AnswerOK, Served
  <2>2. ASSUME RoleBlind(x.msg.filter)
        PROVE  Names(x.reply.entries) = Names(Answer(x.cfg.base_dn, x.msg, NoneLost))
    <3>1. \A lost, kept : Names(Answer(x.cfg.base_dn, x.msg, lost))
                             \subseteq Names(Answer(x.cfg.base_dn, x.msg, kept))
      BY <2>1, <2>2, RoleBlindAnswers
    <3>2. /\ Names(x.reply.entries) \subseteq Names(Answer(x.cfg.base_dn, x.msg, NoneLost))
          /\ Names(Answer(x.cfg.base_dn, x.msg, NoneLost)) \subseteq Names(x.reply.entries)
      BY <2>1, <3>1
    <3> QED BY <3>2, Zenon
  <2> QED BY <2>1, <2>2
<1> QED BY <1>1, <1>2, <1>3, Invariance, PTL DEF Spec

\* BoundedLdapCodec takes exactly the frames that are well nested and small enough,
\* and gives up exactly when what came can no longer become one, whatever came.
THEOREM CodecDecidesFrames == Spec => []FramesAreDecided
<1>1. Init => BufsInv
  BY DEF Init, BufsInv
<1>2. Inv /\ BufsInv /\ [Next]_vars => BufsInv'
  BY StepBufs
<1>3. BufsInv => FramesAreDecided
  BY DecodeDecides DEF BufsInv, FramesAreDecided
<1> QED BY <1>1, <1>2, <1>3, Invariance, PTL DEF Spec

=============================================================================
