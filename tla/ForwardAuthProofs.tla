-------------------------- MODULE ForwardAuthProofs --------------------------
(***************************************************************************)
(* Proofs about ForwardAuth and Policy, for every set of applications,      *)
(* browsers, handoffs and requests.                                         *)
(*                                                                          *)
(* find_matching is a loop over the rows: what it returns is proved by      *)
(* induction on the rounds, and so is what the two loops over a path leave. *)
(* For the protocol, the invariant says from which credential a handoff and *)
(* a session were derived, and of a callback and a session also that its    *)
(* browser was given the nonce of the handoff.                              *)
(***************************************************************************)
EXTENDS ForwardAuth, AuthorityProofs, FiniteSetTheorems

\* Session s was derived from credential c, and does not outlive it.
DerivedFrom(s, c) ==
    /\ s.login = c.login
    /\ s.user = c.user
    /\ s.iat = c.iat
    /\ s.session_version = c.session_version
    /\ s.exp <= c.session_exp

SessionIn(s, cs) == \E c \in cs : DerivedFrom(s, c)
HandoffIn(g, cs) == \E c \in cs : DerivedFrom(g.session, c) /\ g.exp <= c.session_exp

\* A nonce was given to one browser, and a state cookie holds a nonce given to it
\* on its host.
NoncesOK ==
    /\ \A b, d \in Browsers : \A x \in nonces[b], y \in nonces[d] : x[2] = y[2] => b = d
    /\ \A b \in Browsers, o \in Hosts :
          cookie[b][o] # NoNonce => <<o, cookie[b][o]>> \in nonces[b]

\* Browser b was given the nonce of handoff g on the host g is for.
Began(b, g) == <<g.session.aud, g.state>> \in nonces[b]

HandoffsOK == \A h \in Handoffs : handoff[h] # NoHandoff => HandoffIn(handoff[h], creds)

\* A request that is about to sign a handoff has a credential and a parsed path
\* that was not refused; a callback that was let in runs in the browser that
\* began, and once it has consumed the handoff that is recorded.
RequestOK(r) ==
    /\ r.pc \in {"verify", "insert"} =>
          /\ r.cred \in creds
          /\ r.target.path \in {UrlPath(sent) : sent \in Paths}
          /\ NormalizePolicyPath(r.target.path) # Refused
    /\ r.pc \in {"consume", "policy", "roles"} =>
          handoff[r.id] # NoHandoff /\ Began(r.browser, handoff[r.id])
    /\ r.pc \in {"policy", "roles"} => redeemed[r.id] > 0

RequestsOK == \A p \in Requests : RequestOK(req[p])

\* A session was derived from a credential, and delivered for a handoff that was
\* redeemed in the browser that began.
Delivered(x) ==
    \E h \in Handoffs : /\ handoff[h] # NoHandoff /\ handoff[h].session = x[2]
                        /\ redeemed[h] > 0 /\ Began(x[1], handoff[h])
SessionsOK == \A x \in sessions : SessionIn(x[2], creds) /\ Delivered(x)

\* A handoff whose row is there, or that was not signed yet, was not redeemed.
RedemptionsOK ==
    \A h \in Handoffs :
        /\ redeemed[h] <= 1
        /\ h \in stored => handoff[h] # NoHandoff /\ redeemed[h] = 0
        /\ handoff[h] = NoHandoff => redeemed[h] = 0

Inv == TypeOK /\ CredentialsOK /\ NoncesOK /\ HandoffsOK /\ RequestsOK /\ SessionsOK
       /\ RedemptionsOK

-----------------------------------------------------------------------------
(* Induction *)

\* Every set of natural numbers that is not empty has a least element.
LEMMA NatMin ==
    ASSUME NEW T \in SUBSET Nat, T # {}
    PROVE  \E n \in T : \A m \in T : n <= m
<1> DEFINE R == OpToRel(<, Nat)
<1>1. IsWellFoundedOn(R, Nat)
  BY NatLessThanWellFounded
<1>2. \A x, y \in Nat : <<y, x>> \in R <=> y < x
  BY DEF OpToRel
<1> HIDE DEF R
<1>3. PICK x \in T : \A y \in T : ~ (<<y, x>> \in R)
  BY <1>1, WFMin
<1>4. \A y \in T : y \in Nat /\ x \in Nat /\ ~(y < x)
  BY <1>2, <1>3
<1>5. \A y \in T : x <= y
  BY <1>4
<1> QED BY <1>5

\* A set of numbers that holds 0 and with every number the next one is Nat.
LEMMA NatInd ==
    ASSUME NEW S \in SUBSET Nat, 0 \in S, \A n \in S : n + 1 \in S
    PROVE  S = Nat
<1> SUFFICES ASSUME S # Nat PROVE FALSE
  OBVIOUS
<1> DEFINE T == Nat \ S
<1>1. T # {} /\ T \in SUBSET Nat
  OBVIOUS
<1> HIDE DEF T
<1>2. PICK n \in T : \A m \in T : n <= m
  BY <1>1, NatMin
<1>3. n \in Nat /\ n # 0
  BY <1>1, <1>2 DEF T
<1>4. n - 1 \in Nat /\ ~(n <= n - 1) /\ (n - 1) + 1 = n
  BY <1>3
<1>5. n - 1 \in S
  BY <1>4, <1>2 DEF T
<1> QED BY <1>5, <1>4, <1>2 DEF T

\* What Max chooses.
LEMMA MaxIs ==
    ASSUME NEW S \in SUBSET Int, NEW m \in S, \A y \in S : m >= y
    PROVE  Max(S) = m
<1> DEFINE P(x) == x \in S /\ \A y \in S : x >= y
<1>1. P(m)
  OBVIOUS
<1>2. \A x : P(x) => x = m
  <2> SUFFICES ASSUME NEW x, P(x) PROVE x = m
    OBVIOUS
  <2>1. x \in Int /\ m \in Int /\ x >= m /\ m >= x
    OBVIOUS
  <2> QED BY <2>1
<1>3. Max(S) = CHOOSE x : P(x)
  BY DEF Max
<1> HIDE DEF P
<1> QED BY <1>1, <1>2, <1>3

-----------------------------------------------------------------------------
(* find_matching *)

NoneYet == [id |-> NoApplication, ambiguous |-> FALSE]

\* best is what the loop of find_matching holds after each of the first n rows.
Rounds(best, rows, listing, host, path, n) ==
    /\ best[0] = NoneYet
    /\ \A k \in 1 .. n : best[k] = Visit(rows, host, path, best[k - 1], listing[k])

\* What find_matching answers when its loop has ended with b.
Selected(rows, b) ==
    IF b.id = NoApplication \/ b.ambiguous \/ ~rows[b.id].enabled THEN NoApplication ELSE b.id

\* find_matching answers from what its loop holds in the end.
LEMMA LoopOfFindMatching ==
    ASSUME NEW rows, NEW host, NEW path, NEW n \in Nat, NEW listing, DOMAIN listing = 1 .. n
    PROVE  \E best : /\ Rounds(best, rows, listing, host, path, n)
                     /\ FindMatching(rows, listing, host, path) = Selected(rows, best[n])
<1> DEFINE V(b, i) == Visit(rows, host, path, b, listing[i])
           Def(g, s) == IF s = {} THEN NoneYet ELSE V(g[s \ {Max(s)}], Max(s))
           Solves(g, k) == g = [s \in SUBSET (1 .. k) |-> Def(g, s)]
           Solvable == {k \in Nat : \E g : Solves(g, k)}
<1> HIDE DEF V
<1>1. 0 \in Solvable
  <2> DEFINE g == [s \in SUBSET (1 .. 0) |-> NoneYet]
  <2>1. \A s \in SUBSET (1 .. 0) : s = {}
    OBVIOUS
  <2>2. g = [s \in SUBSET (1 .. 0) |-> Def(g, s)]
    BY <2>1
  <2> QED BY <2>2
<1>2. ASSUME NEW k \in Solvable PROVE k + 1 \in Solvable
  <2>1. PICK g : Solves(g, k)
    OBVIOUS
  <2> DEFINE h == [s \in SUBSET (1 .. k + 1) |->
                     IF k + 1 \in s THEN V(g[s \ {k + 1}], k + 1) ELSE g[s]]
  <2>2. ASSUME NEW s \in SUBSET (1 .. k + 1) PROVE h[s] = Def(h, s)
    <3>1. CASE k + 1 \in s
      <4>1. \A y \in s : k + 1 >= y
        OBVIOUS
      <4>2. Max(s) = k + 1
        BY <3>1, <4>1, MaxIs
      <4>3. s \ {k + 1} \in SUBSET (1 .. k + 1) /\ k + 1 \notin s \ {k + 1}
        OBVIOUS
      <4>4. h[s \ {k + 1}] = g[s \ {k + 1}]
        BY <4>3
      <4> QED BY <3>1, <4>2, <4>4
    <3>2. CASE k + 1 \notin s
      <4>1. s \in SUBSET (1 .. k)
        BY <3>2
      <4>2. g[s] = Def(g, s)
        BY <2>1, <4>1
      <4>3. s \ {Max(s)} \in SUBSET (1 .. k + 1) /\ k + 1 \notin s \ {Max(s)}
        BY <3>2
      <4>4. h[s \ {Max(s)}] = g[s \ {Max(s)}]
        BY <4>3
      <4>5. h[s] = g[s]
        BY <3>2
      <4> QED BY <4>2, <4>4, <4>5
    <3> QED BY <3>1, <3>2
  <2>3. h = [s \in SUBSET (1 .. k + 1) |-> h[s]]
    OBVIOUS
  <2> HIDE DEF h
  <2>4. Solves(h, k + 1)
    BY <2>2, <2>3
  <2>5. k + 1 \in Nat
    OBVIOUS
  <2> QED BY <2>4, <2>5
<1>3. n \in Solvable
  <2> HIDE DEF Solvable
  <2>1. Solvable \in SUBSET Nat
    BY DEF Solvable
  <2> QED BY <1>1, <1>2, <2>1, NatInd
<1> DEFINE iter == CHOOSE g : Solves(g, n)
<1>4. Solves(iter, n)
  <2>1. \E g : Solves(g, n)
    BY <1>3
  <2> HIDE DEF Solves
  <2> QED BY <2>1
<1>5. FoldLeft(LAMBDA b, a : Visit(rows, host, path, b, a), NoneYet, listing) = iter[1 .. n]
  BY DEF FoldLeft, MapThenFoldSet, V
<1> HIDE DEF iter
<1> DEFINE best == [k \in 0 .. n |-> iter[1 .. k]]
<1>6. best[0] = NoneYet
  <2>1. 1 .. 0 = {} /\ 0 \in 0 .. n /\ {} \in SUBSET (1 .. n)
    OBVIOUS
  <2> QED BY <1>4, <2>1
<1>7. ASSUME NEW k \in 1 .. n PROVE best[k] = V(best[k - 1], k)
  <2>1. /\ 1 .. k \in SUBSET (1 .. n) /\ 1 .. k \in SUBSET Int
        /\ k \in 1 .. k /\ \A y \in 1 .. k : k >= y
    OBVIOUS
  <2>2. Max(1 .. k) = k
    BY <2>1, MaxIs
  <2>3. (1 .. k) \ {k} = 1 .. k - 1 /\ 1 .. k # {}
    OBVIOUS
  <2>4. iter[1 .. k] = V(iter[1 .. k - 1], k)
    BY <1>4, <2>1, <2>2, <2>3
  <2>5. k \in 0 .. n /\ k - 1 \in 0 .. n
    OBVIOUS
  <2> QED BY <2>4, <2>5
<1>8. best[n] = iter[1 .. n]
  OBVIOUS
<1> HIDE DEF best
<1>9. Rounds(best, rows, listing, host, path, n)
  BY <1>6, <1>7 DEF Rounds, V
<1>10. FindMatching(rows, listing, host, path) = Selected(rows, best[n])
  BY <1>5, <1>8 DEF FindMatching, NoneYet, Selected
<1> QED BY <1>9, <1>10

\* The rank of a policy is a strict weak order.
LEMMA RankOrders ==
    ASSUME NEW a \in ForwardApp, NEW b \in ForwardApp, NEW c \in ForwardApp
    PROVE  /\ ~Outranks(a, a)
           /\ Outranks(a, b) => ~Outranks(b, a)
           /\ Outranks(a, b) /\ ~Outranks(c, b) => Outranks(a, c)
<1>1. /\ a.prefix \in Seq(Names \cup {"/"}) /\ b.prefix \in Seq(Names \cup {"/"})
      /\ c.prefix \in Seq(Names \cup {"/"})
  BY RowsAssumption DEF ForwardApp
<1>2. Len(a.prefix) \in Nat /\ Len(b.prefix) \in Nat /\ Len(c.prefix) \in Nat
  BY <1>1
<1> QED BY <1>2 DEF Outranks

\* Row i of the listing is there and matches.
Candidate(rows, listing, host, path, i) ==
    rows[listing[i]] # NoApplication /\ Matches(rows[listing[i]], host, path)

\* Of the first k rows, row j matches, none outranks it, and a second one of its
\* rank was seen exactly if b says so.
BestOf(b, rows, listing, host, path, k, j) ==
    /\ b.id = listing[j]
    /\ Candidate(rows, listing, host, path, j)
    /\ \A i \in 1 .. k : Candidate(rows, listing, host, path, i) =>
          /\ ~Outranks(rows[listing[i]], rows[listing[j]])
          /\ ~b.ambiguous => i = j \/ Outranks(rows[listing[j]], rows[listing[i]])
    /\ b.ambiguous => \E i \in 1 .. k :
          /\ i # j
          /\ Candidate(rows, listing, host, path, i)
          /\ ~Outranks(rows[listing[j]], rows[listing[i]])

\* What the loop knows after k rows.
LoopOK(b, rows, listing, host, path, k) ==
    /\ b \in [id : Apps \cup {NoApplication}, ambiguous : BOOLEAN]
    /\ b.id = NoApplication =>
          ~b.ambiguous /\ \A i \in 1 .. k : ~Candidate(rows, listing, host, path, i)
    /\ b.id # NoApplication => \E j \in 1 .. k : BestOf(b, rows, listing, host, path, k, j)

\* One round keeps what the loop knows.
LEMMA VisitKeeps ==
    ASSUME NEW rows \in [Apps -> ForwardApp \cup {NoApplication}], NEW host, NEW path,
           NEW n \in Nat, NEW listing \in [1 .. n -> Apps], NEW k \in Nat, k + 1 <= n,
           NEW b, LoopOK(b, rows, listing, host, path, k)
    PROVE  LoopOK(Visit(rows, host, path, b, listing[k + 1]), rows, listing, host, path, k + 1)
<1> DEFINE In(i) == Candidate(rows, listing, host, path, i)
           row(i) == rows[listing[i]]
           new == Visit(rows, host, path, b, listing[k + 1])
           OK(x, m) == LoopOK(x, rows, listing, host, path, m)
           Best(x, m, j) == BestOf(x, rows, listing, host, path, m, j)
<1>1. /\ k + 1 \in 1 .. n /\ k + 1 \in 1 .. k + 1 /\ listing[k + 1] \in Apps
      /\ \A i \in 1 .. k + 1 : i \in 1 .. n /\ (i \in 1 .. k \/ i = k + 1)
      /\ \A i \in 1 .. k : i \in 1 .. k + 1 /\ i # k + 1
  OBVIOUS
<1>2. \A i \in 1 .. n : listing[i] \in Apps /\ (In(i) => row(i) \in ForwardApp)
  BY DEF Candidate
<1>3. NoApplication \notin Apps
  BY RowsAssumption
<1>4. b \in [id : Apps \cup {NoApplication}, ambiguous : BOOLEAN]
  BY DEF LoopOK
<1>5. CASE ~In(k + 1)
  <2>1. new = b
    BY <1>5 DEF Visit, Candidate
  <2>2. ASSUME NEW j \in 1 .. k, Best(b, k, j) PROVE Best(b, k + 1, j)
    BY <1>1, <1>5, <2>2 DEF BestOf
  <2> QED BY <1>1, <1>5, <2>1, <2>2 DEF LoopOK
<1>6. CASE In(k + 1) /\ (b.id = NoApplication \/ Outranks(row(k + 1), rows[b.id]))
  <2>1. new = [id |-> listing[k + 1], ambiguous |-> FALSE]
    BY <1>6 DEF Visit, Candidate
  <2>2. new \in [id : Apps \cup {NoApplication}, ambiguous : BOOLEAN]
        /\ new.id = listing[k + 1] /\ ~new.ambiguous /\ new.id # NoApplication
    BY <1>1, <1>3, <2>1
  <2>3. ASSUME NEW i \in 1 .. k, In(i) PROVE Outranks(row(k + 1), row(i))
    <3>1. b.id # NoApplication
      BY <2>3 DEF LoopOK
    <3>2. PICK j \in 1 .. k : Best(b, k, j)
      BY <3>1 DEF LoopOK
    <3>3. /\ row(j) = rows[b.id] /\ In(j) /\ ~Outranks(row(i), row(j))
      BY <2>3, <3>2 DEF BestOf
    <3>4. Outranks(row(k + 1), row(j))
      BY <1>6, <3>1, <3>3
    <3>5. row(i) \in ForwardApp /\ row(j) \in ForwardApp /\ row(k + 1) \in ForwardApp
      BY <1>1, <1>2, <1>6, <2>3, <3>3
    <3> HIDE DEF row
    <3> QED BY <3>3, <3>4, <3>5, RankOrders
  <2>4. ASSUME NEW i \in 1 .. k + 1, In(i)
        PROVE  ~Outranks(row(i), row(k + 1)) /\ (i = k + 1 \/ Outranks(row(k + 1), row(i)))
    <3>1. row(i) \in ForwardApp /\ row(k + 1) \in ForwardApp
      BY <1>1, <1>2, <1>6, <2>4
    <3>2. i = k + 1 \/ Outranks(row(k + 1), row(i))
      BY <1>1, <2>3, <2>4
    <3> HIDE DEF row
    <3> QED BY <3>1, <3>2, RankOrders
  <2>5. Best(new, k + 1, k + 1)
    BY <1>6, <2>2, <2>4 DEF BestOf
  <2> QED BY <1>1, <2>2, <2>5 DEF LoopOK
<1>7. CASE In(k + 1) /\ b.id # NoApplication /\ ~Outranks(row(k + 1), rows[b.id])
  <2>1. PICK j \in 1 .. k : Best(b, k, j)
    BY <1>7 DEF LoopOK
  <2>2. b.id = listing[j] /\ row(j) = rows[b.id] /\ In(j)
    BY <2>1 DEF BestOf
  <2>3. CASE Outranks(row(j), row(k + 1))
    <3>1. new = b
      BY <1>7, <2>2, <2>3 DEF Visit, Candidate
    <3>2. Best(b, k + 1, j)
      BY <1>1, <1>7, <2>1, <2>2, <2>3 DEF BestOf
    <3> QED BY <1>1, <1>4, <1>7, <3>1, <3>2 DEF LoopOK
  <2>4. CASE ~Outranks(row(j), row(k + 1))
    <3>1. new = [b EXCEPT !.ambiguous = TRUE]
      BY <1>7, <2>2, <2>4 DEF Visit, Candidate
    <3>2. /\ new.id = b.id /\ new.ambiguous
          /\ new \in [id : Apps \cup {NoApplication}, ambiguous : BOOLEAN]
      BY <1>4, <3>1
    <3>3. Best(new, k + 1, j)
      BY <1>1, <1>7, <2>1, <2>2, <2>4, <3>2 DEF BestOf
    <3> QED BY <1>1, <1>7, <3>2, <3>3 DEF LoopOK
  <2> QED BY <2>3, <2>4
<1> QED BY <1>5, <1>6, <1>7

\* After the last row the loop knows all of them.
LEMMA LoopEndsOK ==
    ASSUME NEW rows \in [Apps -> ForwardApp \cup {NoApplication}], NEW host, NEW path,
           NEW n \in Nat, NEW listing \in [1 .. n -> Apps],
           NEW best, Rounds(best, rows, listing, host, path, n)
    PROVE  LoopOK(best[n], rows, listing, host, path, n)
<1> DEFINE Known == {k \in Nat : k <= n => LoopOK(best[k], rows, listing, host, path, k)}
<1>1. 0 \in Known
  <2>1. best[0] = NoneYet
    BY DEF Rounds
  <2>2. /\ NoneYet \in [id : Apps \cup {NoApplication}, ambiguous : BOOLEAN]
        /\ NoneYet.id = NoApplication /\ ~NoneYet.ambiguous
    BY DEF NoneYet
  <2>3. LoopOK(NoneYet, rows, listing, host, path, 0)
    BY <2>2 DEF LoopOK
  <2> QED BY <2>1, <2>3
<1>2. ASSUME NEW k \in Known PROVE k + 1 \in Known
  <2> SUFFICES ASSUME k + 1 <= n PROVE LoopOK(best[k + 1], rows, listing, host, path, k + 1)
    OBVIOUS
  <2>1. k \in Nat /\ k + 1 \in 1 .. n /\ (k + 1) - 1 = k
    OBVIOUS
  <2>2. best[k + 1] = Visit(rows, host, path, best[k], listing[k + 1])
    BY <2>1 DEF Rounds
  <2>3. LoopOK(best[k], rows, listing, host, path, k)
    OBVIOUS
  <2> QED BY <2>1, <2>2, <2>3, VisitKeeps
<1>3. Known = Nat
  <2>1. Known \in SUBSET Nat
    OBVIOUS
  <2> HIDE DEF Known
  <2> QED BY <1>1, <1>2, <2>1, NatInd
<1> QED BY <1>3

\* A listing names every row, each once.
LEMMA ListingIsComplete ==
    ASSUME NEW listing \in Listings
    PROVE  /\ Cardinality(Apps) \in Nat
           /\ listing \in [1 .. Cardinality(Apps) -> Apps]
           /\ \A i, j \in 1 .. Cardinality(Apps) : listing[i] = listing[j] => i = j
           /\ \A a \in Apps : \E i \in 1 .. Cardinality(Apps) : listing[i] = a
<1> DEFINE n == Cardinality(Apps)
<1>1. n \in Nat
  BY RowsAssumption, FS_CardinalityType
<1>2. listing \in [1 .. n -> Apps] /\ \A i, j \in 1 .. n : i # j => listing[i] # listing[j]
  BY DEF Listings, SetToSeqs
<1>3. listing \in Injection(1 .. n, Apps)
  BY <1>2 DEF Injection, IsInjective
<1>4. Cardinality(1 .. n) = n
  BY <1>1, FS_Interval
<1>5. listing \in Surjection(1 .. n, Apps)
  <2>1. Cardinality(1 .. n) = Cardinality(Apps)
    BY <1>4
  <2> QED BY <1>3, <2>1, RowsAssumption, FS_Injection
<1> QED BY <1>1, <1>2, <1>5 DEF Surjection

\* find_matching selects the enabled policy that outranks every other matching
\* one, whatever the order of the rows.
LEMMA FindMatchingDecides ==
    ASSUME NEW rows \in [Apps -> ForwardApp \cup {NoApplication}],
           NEW listing \in Listings, NEW host, NEW path
    PROVE  /\ FindMatching(rows, listing, host, path) \in Apps \cup {NoApplication}
           /\ \A a \in Apps : FindMatching(rows, listing, host, path) = a <=>
                              Decides(rows, host, path, a)
<1> DEFINE n == Cardinality(Apps)
           In(i) == Candidate(rows, listing, host, path, i)
           row(i) == rows[listing[i]]
<1>1. /\ n \in Nat /\ listing \in [1 .. n -> Apps] /\ DOMAIN listing = 1 .. n
      /\ \A i, j \in 1 .. n : listing[i] = listing[j] => i = j
      /\ \A a \in Apps : \E i \in 1 .. n : listing[i] = a
  BY ListingIsComplete
<1>2. NoApplication \notin Apps
  BY RowsAssumption
<1> HIDE DEF n
<1>3. PICK best : /\ Rounds(best, rows, listing, host, path, n)
                  /\ FindMatching(rows, listing, host, path) = Selected(rows, best[n])
  BY <1>1, LoopOfFindMatching
<1> DEFINE b == best[n]
<1>4. LoopOK(b, rows, listing, host, path, n)
  BY <1>1, <1>3, LoopEndsOK
<1>5. b \in [id : Apps \cup {NoApplication}, ambiguous : BOOLEAN]
  BY <1>4 DEF LoopOK
<1>6. FindMatching(rows, listing, host, path) \in Apps \cup {NoApplication}
  BY <1>3, <1>5 DEF Selected
<1>7. ASSUME NEW a \in Apps, FindMatching(rows, listing, host, path) = a
      PROVE  Decides(rows, host, path, a)
  <2>1. b.id = a /\ ~b.ambiguous /\ rows[a].enabled /\ b.id # NoApplication
    BY <1>2, <1>3, <1>7 DEF Selected
  <2>2. PICK j \in 1 .. n : BestOf(b, rows, listing, host, path, n, j)
    BY <1>4, <2>1 DEF LoopOK
  <2>3. listing[j] = a /\ In(j)
    BY <2>1, <2>2 DEF BestOf
  <2>4. ASSUME NEW c \in Apps \ {a}, rows[c] # NoApplication, Matches(rows[c], host, path)
        PROVE  Outranks(rows[a], rows[c])
    <3>1. PICK i \in 1 .. n : listing[i] = c
      BY <1>1
    <3>2. In(i) /\ i # j
      BY <2>3, <2>4, <3>1 DEF Candidate
    <3> QED BY <2>1, <2>2, <2>3, <3>1, <3>2 DEF BestOf
  <2> QED BY <2>1, <2>3, <2>4 DEF Decides, Candidate
<1>8. ASSUME NEW a \in Apps, Decides(rows, host, path, a)
      PROVE  FindMatching(rows, listing, host, path) = a
  <2>1. PICK m \in 1 .. n : listing[m] = a
    BY <1>1
  <2>2. In(m) /\ rows[a].enabled
    BY <1>8, <2>1 DEF Decides, Candidate
  <2>3. b.id # NoApplication
    BY <1>4, <2>2 DEF LoopOK
  <2>4. PICK j \in 1 .. n : BestOf(b, rows, listing, host, path, n, j)
    BY <1>4, <2>3 DEF LoopOK
  <2>5. b.id = listing[j] /\ In(j) /\ listing[j] \in Apps /\ ~Outranks(row(m), row(j))
    BY <1>1, <2>2, <2>4 DEF BestOf
  <2>6. \A i \in 1 .. n : In(i) => i = m \/ Outranks(row(m), row(i))
    BY <1>1, <1>8, <2>1 DEF Decides, Candidate
  <2>7. j = m
    BY <2>5, <2>6
  <2>8. ~b.ambiguous
    BY <2>4, <2>6, <2>7 DEF BestOf
  <2> QED BY <1>3, <2>1, <2>2, <2>3, <2>5, <2>7, <2>8 DEF Selected
<1> QED BY <1>6, <1>7, <1>8

\* The listing the model computes with is one of them.
LEMMA ListingIsOne == Listing \in Listings
<1> DEFINE n == Cardinality(Apps)
<1>1. ExistsBijection(1 .. n, Apps)
  BY RowsAssumption, FS_CardinalityType
<1>2. \E f \in [1 .. n -> Apps] : IsInjective(f)
  BY <1>1 DEF ExistsBijection, Bijection, Injection
<1>3. Listing \in [1 .. n -> Apps] /\ IsInjective(Listing)
  BY <1>2 DEF Listing, SetToSeq
<1> QED BY <1>3 DEF Listings, SetToSeqs, IsInjective

\* The policy of a target is a row, or none.
LEMMA PolicyForType ==
    ASSUME app \in [Apps -> ForwardApp \cup {NoApplication}], NEW t
    PROVE  PolicyFor(t) \in Apps \cup {NoApplication}
BY ListingIsOne, FindMatchingDecides DEF PolicyFor

-----------------------------------------------------------------------------
(* ForwardTarget::parse *)

\* stack is what the loop holds after each of the first n segments.
Stacks(opens, closes, stack, segs, n) ==
    /\ stack[0] = <<>>
    /\ \A k \in 1 .. n : stack[k] = Round(opens, closes, stack[k - 1], segs[k])

\* What opens less what closes among the first k segments.
Height(opens, closes, segs, k) ==
    Cardinality(Among(segs, 1, k, opens)) - Cardinality(Among(segs, 1, k, closes))

\* What opens among the first k segments and is not closed among them.
Open(opens, closes, segs, k) ==
    {i \in 1 .. k :
        /\ segs[i] \in opens
        /\ \A j \in i + 1 .. k : Height(opens, closes, segs, j) >= Height(opens, closes, segs, i)}

\* order lists the m open ones; each lies one higher than the one before, and the
\* last as high as the path is.
ListsOpen(opens, closes, order, m, segs, k) ==
    /\ order \in [1 .. m -> 1 .. k]
    /\ \A p, q \in 1 .. m : p < q => order[p] < order[q]
    /\ \A p \in 1 .. m : order[p] \in Open(opens, closes, segs, k)
    /\ \A i \in Open(opens, closes, segs, k) : \E p \in 1 .. m : order[p] = i
    /\ \A p \in 1 .. m : Height(opens, closes, segs, order[p]) = Height(opens, closes, segs, k) - (m - p)

\* The loop holds the open ones in order.
HoldsOpen(opens, closes, stack, segs, k) ==
    \E m \in Nat : \E order :
        /\ ListsOpen(opens, closes, order, m, segs, k)
        /\ stack = [p \in 1 .. m |-> segs[order[p]]]

\* The segments are resolved by the loop over them.
LEMMA LoopStacks ==
    ASSUME NEW opens, NEW closes, NEW n \in Nat, NEW segs, DOMAIN segs = 1 .. n
    PROVE  \E stack : Stacks(opens, closes, stack, segs, n) /\ Loop(opens, closes, segs) = stack[n]
<1> DEFINE V(b, i) == Round(opens, closes, b, segs[i])
           Def(g, s) == IF s = {} THEN <<>> ELSE V(g[s \ {Max(s)}], Max(s))
           Solves(g, k) == g = [s \in SUBSET (1 .. k) |-> Def(g, s)]
           Solvable == {k \in Nat : \E g : Solves(g, k)}
<1> HIDE DEF V
<1>1. 0 \in Solvable
  <2> DEFINE g == [s \in SUBSET (1 .. 0) |-> <<>>]
  <2>1. \A s \in SUBSET (1 .. 0) : s = {}
    OBVIOUS
  <2>2. g = [s \in SUBSET (1 .. 0) |-> Def(g, s)]
    BY <2>1
  <2> QED BY <2>2
<1>2. ASSUME NEW k \in Solvable PROVE k + 1 \in Solvable
  <2>1. PICK g : Solves(g, k)
    OBVIOUS
  <2> DEFINE h == [s \in SUBSET (1 .. k + 1) |->
                     IF k + 1 \in s THEN V(g[s \ {k + 1}], k + 1) ELSE g[s]]
  <2>2. ASSUME NEW s \in SUBSET (1 .. k + 1) PROVE h[s] = Def(h, s)
    <3>1. CASE k + 1 \in s
      <4>1. \A y \in s : k + 1 >= y
        OBVIOUS
      <4>2. Max(s) = k + 1
        BY <3>1, <4>1, MaxIs
      <4>3. s \ {k + 1} \in SUBSET (1 .. k + 1) /\ k + 1 \notin s \ {k + 1}
        OBVIOUS
      <4>4. h[s \ {k + 1}] = g[s \ {k + 1}]
        BY <4>3
      <4> QED BY <3>1, <4>2, <4>4
    <3>2. CASE k + 1 \notin s
      <4>1. s \in SUBSET (1 .. k)
        BY <3>2
      <4>2. g[s] = Def(g, s)
        BY <2>1, <4>1
      <4>3. s \ {Max(s)} \in SUBSET (1 .. k + 1) /\ k + 1 \notin s \ {Max(s)}
        BY <3>2
      <4>4. h[s \ {Max(s)}] = g[s \ {Max(s)}]
        BY <4>3
      <4>5. h[s] = g[s]
        BY <3>2
      <4> QED BY <4>2, <4>4, <4>5
    <3> QED BY <3>1, <3>2
  <2>3. h = [s \in SUBSET (1 .. k + 1) |-> h[s]]
    OBVIOUS
  <2> HIDE DEF h
  <2>4. Solves(h, k + 1)
    BY <2>2, <2>3
  <2>5. k + 1 \in Nat
    OBVIOUS
  <2> QED BY <2>4, <2>5
<1>3. n \in Solvable
  <2> HIDE DEF Solvable
  <2>1. Solvable \in SUBSET Nat
    BY DEF Solvable
  <2> QED BY <1>1, <1>2, <2>1, NatInd
<1> DEFINE iter == CHOOSE g : Solves(g, n)
<1>4. Solves(iter, n)
  <2>1. \E g : Solves(g, n)
    BY <1>3
  <2> HIDE DEF Solves
  <2> QED BY <2>1
<1>5. Loop(opens, closes, segs) = iter[1 .. n]
  BY DEF Loop, FoldLeft, MapThenFoldSet, V
<1> HIDE DEF iter
<1> DEFINE stack == [k \in 0 .. n |-> iter[1 .. k]]
<1>6. stack[0] = <<>>
  <2>1. 1 .. 0 = {} /\ 0 \in 0 .. n /\ {} \in SUBSET (1 .. n)
    OBVIOUS
  <2> QED BY <1>4, <2>1
<1>7. ASSUME NEW k \in 1 .. n PROVE stack[k] = V(stack[k - 1], k)
  <2>1. /\ 1 .. k \in SUBSET (1 .. n) /\ 1 .. k \in SUBSET Int
        /\ k \in 1 .. k /\ \A y \in 1 .. k : k >= y
    OBVIOUS
  <2>2. Max(1 .. k) = k
    BY <2>1, MaxIs
  <2>3. (1 .. k) \ {k} = 1 .. k - 1 /\ 1 .. k # {}
    OBVIOUS
  <2>4. iter[1 .. k] = V(iter[1 .. k - 1], k)
    BY <1>4, <2>1, <2>2, <2>3
  <2>5. k \in 0 .. n /\ k - 1 \in 0 .. n
    OBVIOUS
  <2> QED BY <2>4, <2>5
<1>8. stack[n] = iter[1 .. n]
  OBVIOUS
<1> HIDE DEF stack
<1>9. Stacks(opens, closes, stack, segs, n)
  BY <1>6, <1>7 DEF Stacks, V
<1> QED BY <1>5, <1>8, <1>9

\* Counting segments: over two stretches, and one segment further.
LEMMA AmongSplits ==
    ASSUME NEW segs, NEW S, NEW i \in Nat, NEW j \in Nat, i <= j
    PROVE  /\ Cardinality(Among(segs, 1, j, S)) \in Nat
           /\ Cardinality(Among(segs, i + 1, j, S)) \in Nat
           /\ Cardinality(Among(segs, 1, j, S)) =
                 Cardinality(Among(segs, 1, i, S)) + Cardinality(Among(segs, i + 1, j, S))
<1> DEFINE low == Among(segs, 1, i, S)
           high == Among(segs, i + 1, j, S)
<1>1. IsFiniteSet(1 .. i) /\ IsFiniteSet(i + 1 .. j)
  BY FS_Interval
<1>2. low \in SUBSET (1 .. i) /\ high \in SUBSET (i + 1 .. j)
  BY DEF Among
<1>3. low \cap high = {} /\ Among(segs, 1, j, S) = low \cup high
  BY DEF Among
<1> HIDE DEF low, high
<1>4. IsFiniteSet(low) /\ IsFiniteSet(high)
  BY <1>1, <1>2, FS_Subset
<1>5. /\ Cardinality(low) \in Nat /\ Cardinality(high) \in Nat /\ Cardinality(low \cap high) = 0
      /\ Cardinality(low \cup high) =
            Cardinality(low) + Cardinality(high) - Cardinality(low \cap high)
  BY <1>3, <1>4, FS_CardinalityType, FS_Union, FS_EmptySet
<1> QED BY <1>3, <1>5 DEF low, high

\* What opens lifts the path by one, what closes lowers it.
LEMMA HeightSteps ==
    ASSUME NEW opens, NEW closes, opens \cap closes = {}, NEW segs, NEW k \in Nat
    PROVE  /\ Height(opens, closes, segs, 0) = 0
           /\ Height(opens, closes, segs, k) \in Int
           /\ segs[k + 1] \in opens =>
                 Height(opens, closes, segs, k + 1) = Height(opens, closes, segs, k) + 1
           /\ segs[k + 1] \in closes =>
                 Height(opens, closes, segs, k + 1) = Height(opens, closes, segs, k) - 1
           /\ segs[k + 1] \notin opens \cup closes =>
                 Height(opens, closes, segs, k + 1) = Height(opens, closes, segs, k)
<1> DEFINE C(S, i, j) == Cardinality(Among(segs, i, j, S))
<1>1. \A S : Among(segs, 1, 0, S) = {}
  BY DEF Among
<1>2. \A S : C(S, 1, 0) = 0
  BY <1>1, FS_EmptySet
<1>3. \A S : C(S, 1, k) \in Nat
  BY AmongSplits
<1>4. \A S : C(S, 1, k + 1) = C(S, 1, k) + C(S, k + 1, k + 1)
  BY AmongSplits
<1>5. \A S : C(S, k + 1, k + 1) = IF segs[k + 1] \in S THEN 1 ELSE 0
  <2> SUFFICES ASSUME NEW S PROVE C(S, k + 1, k + 1) = IF segs[k + 1] \in S THEN 1 ELSE 0
    OBVIOUS
  <2>1. Among(segs, k + 1, k + 1, S) = IF segs[k + 1] \in S THEN {k + 1} ELSE {}
    BY DEF Among
  <2> QED BY <2>1, FS_EmptySet, FS_Singleton
<1>6. opens \cap closes = {}
  OBVIOUS
<1> DEFINE N(j) == C(opens, 1, j)
           D(j) == C(closes, 1, j)
<1>7. \A j : Height(opens, closes, segs, j) = N(j) - D(j)
  BY DEF Height
<1>8. N(0) = 0 /\ D(0) = 0 /\ N(k) \in Nat /\ D(k) \in Nat
  BY <1>2, <1>3
<1>9. /\ N(k + 1) = N(k) + (IF segs[k + 1] \in opens THEN 1 ELSE 0)
      /\ D(k + 1) = D(k) + (IF segs[k + 1] \in closes THEN 1 ELSE 0)
  BY <1>4, <1>5
<1> HIDE DEF C, N, D
<1>10. /\ Height(opens, closes, segs, 0) = 0
       /\ Height(opens, closes, segs, k) = N(k) - D(k)
       /\ Height(opens, closes, segs, k + 1) = N(k + 1) - D(k + 1)
  BY <1>7, <1>8
<1> DEFINE name == segs[k + 1] \in opens
           up == segs[k + 1] \in closes
<1>a. name => ~up
  BY <1>6
<1>b. segs[k + 1] \notin opens \cup closes => ~name /\ ~up
  BY <1>6
<1>c. N(k + 1) = N(k) + (IF name THEN 1 ELSE 0) /\ D(k + 1) = D(k) + (IF up THEN 1 ELSE 0)
  BY <1>9
<1> HIDE DEF name, up
<1>d. /\ name => N(k + 1) = N(k) + 1
      /\ ~name => N(k + 1) = N(k)
      /\ up => D(k + 1) = D(k) + 1
      /\ ~up => D(k + 1) = D(k)
  BY <1>8, <1>c
<1>11. segs[k + 1] \in opens => N(k + 1) = N(k) + 1 /\ D(k + 1) = D(k)
  BY <1>a, <1>d DEF name
<1>12. segs[k + 1] \in closes => N(k + 1) = N(k) /\ D(k + 1) = D(k) + 1
  BY <1>a, <1>d DEF up
<1>13. segs[k + 1] \notin opens \cup closes => N(k + 1) = N(k) /\ D(k + 1) = D(k)
  BY <1>b, <1>d
<1>14. segs[k + 1] \in opens => Height(opens, closes, segs, k + 1) = Height(opens, closes, segs, k) + 1
  BY <1>8, <1>10, <1>11
<1>15. segs[k + 1] \in closes => Height(opens, closes, segs, k + 1) = Height(opens, closes, segs, k) - 1
  BY <1>8, <1>10, <1>12
<1>16. segs[k + 1] \notin opens \cup closes =>
          Height(opens, closes, segs, k + 1) = Height(opens, closes, segs, k)
  BY <1>8, <1>10, <1>13
<1>17. Height(opens, closes, segs, k) \in Int
  BY <1>8, <1>10
<1> QED BY <1>10, <1>14, <1>15, <1>16, <1>17

\* One round of the loop: what opens is put on the stack, what closes takes off the last
\* open one, and no other is closed by it.
LEMMA RoundHoldsOpen ==
    ASSUME NEW opens, NEW closes, opens \cap closes = {}, NEW segs, NEW k \in Nat, NEW s,
           HoldsOpen(opens, closes, s, segs, k)
    PROVE  HoldsOpen(opens, closes, Round(opens, closes, s, segs[k + 1]), segs, k + 1)
<1> DEFINE H(i) == Height(opens, closes, segs, i)
           t == Round(opens, closes, s, segs[k + 1])
<1>1. PICK m \in Nat : \E order : /\ ListsOpen(opens, closes, order, m, segs, k)
                                  /\ s = [p \in 1 .. m |-> segs[order[p]]]
  BY DEF HoldsOpen
<1>2. PICK order : ListsOpen(opens, closes, order, m, segs, k) /\ s = [p \in 1 .. m |-> segs[order[p]]]
  BY <1>1
<1>3. \A i \in Nat : H(i) \in Int
  BY HeightSteps
<1>4. H(k) \in Int /\ H(k + 1) \in Int
  BY <1>3
<1>5. /\ segs[k + 1] \in opens => H(k + 1) = H(k) + 1
      /\ segs[k + 1] \in closes => H(k + 1) = H(k) - 1
      /\ segs[k + 1] \notin opens \cup closes => H(k + 1) = H(k)
  BY HeightSteps
<1>6. opens \cap closes = {}
  OBVIOUS
<1>7. \A i \in 1 .. k : i \in Open(opens, closes, segs, k + 1) <=>
                           i \in Open(opens, closes, segs, k) /\ H(k + 1) >= H(i)
  BY DEF Open
<1>8. k + 1 \in Open(opens, closes, segs, k + 1) <=> segs[k + 1] \in opens
  BY DEF Open
<1>9. \A i \in Open(opens, closes, segs, k + 1) : i \in 1 .. k \/ i = k + 1
  BY DEF Open
<1>10. /\ order \in [1 .. m -> 1 .. k]
       /\ \A p, q \in 1 .. m : p < q => order[p] < order[q]
       /\ \A p \in 1 .. m : order[p] \in Open(opens, closes, segs, k)
       /\ \A i \in Open(opens, closes, segs, k) : \E p \in 1 .. m : order[p] = i
       /\ \A p \in 1 .. m : H(order[p]) = H(k) - (m - p)
  BY <1>2 DEF ListsOpen
<1> HIDE DEF H
<1>11. CASE segs[k + 1] \notin opens \cup closes
  <2>1. t = s
    BY <1>11 DEF Round
  <2>2. Open(opens, closes, segs, k + 1) = Open(opens, closes, segs, k)
    <3>1. \A i \in Open(opens, closes, segs, k) : H(k + 1) >= H(i)
      <4> TAKE i \in Open(opens, closes, segs, k)
      <4>1. PICK p \in 1 .. m : order[p] = i
        BY <1>10
      <4>2. H(i) = H(k) - (m - p) /\ m - p >= 0 /\ m - p \in Int
        BY <4>1, <1>10
      <4>3. H(k + 1) = H(k)
        BY <1>5, <1>11
      <4> QED BY <4>2, <4>3, <1>4
    <3>2. Open(opens, closes, segs, k) \subseteq 1 .. k
      BY DEF Open
    <3> QED BY <3>1, <3>2, <1>7, <1>8, <1>9, <1>11, <1>6
  <2>3. H(k + 1) = H(k)
    BY <1>5, <1>11
  <2>4. order \in [1 .. m -> 1 .. k + 1]
    BY <1>10
  <2>5. ListsOpen(opens, closes, order, m, segs, k + 1)
    BY <1>10, <2>2, <2>3, <2>4 DEF ListsOpen, H
  <2> QED BY <2>1, <2>5, <1>2 DEF HoldsOpen
<1>12. CASE segs[k + 1] \in opens
  <2> DEFINE o == [p \in 1 .. m + 1 |-> IF p = m + 1 THEN k + 1 ELSE order[p]]
  <2>1. \A i \in Open(opens, closes, segs, k) : H(k + 1) >= H(i)
    <3> TAKE i \in Open(opens, closes, segs, k)
    <3>1. PICK p \in 1 .. m : order[p] = i
      BY <1>10
    <3>2. H(i) = H(k) - (m - p) /\ m - p >= 0 /\ m - p \in Int
      BY <3>1, <1>10
    <3>3. H(k + 1) = H(k) + 1
      BY <1>5, <1>12
    <3> QED BY <3>2, <3>3, <1>4
  <2>2. Open(opens, closes, segs, k) \subseteq 1 .. k
    BY DEF Open
  <2>3. Open(opens, closes, segs, k + 1) = Open(opens, closes, segs, k) \cup {k + 1}
    BY <2>1, <2>2, <1>7, <1>8, <1>9, <1>12
  <2>4. o[m + 1] = k + 1 /\ \A p \in 1 .. m : o[p] = order[p] /\ p \in 1 .. m + 1
    OBVIOUS
  <2>5. o \in [1 .. m + 1 -> 1 .. k + 1]
    BY <1>10
  <2>6. \A p \in 1 .. m + 1 : p \in 1 .. m \/ p = m + 1
    OBVIOUS
  <2>7. t = [p \in 1 .. m + 1 |-> segs[o[p]]]
    <3>1. t = Append(s, segs[k + 1])
      BY <1>12, <1>6 DEF Round
    <3>2. Len(s) = m
      BY <1>2
    <3>3. t = [p \in 1 .. m + 1 |-> IF p = m + 1 THEN segs[k + 1] ELSE s[p]]
      BY <3>1, <3>2 DEF Append
    <3>4. \A p \in 1 .. m + 1 : (IF p = m + 1 THEN segs[k + 1] ELSE s[p]) = segs[o[p]]
      BY <2>4, <2>6, <1>2
    <3> HIDE DEF o
    <3> QED BY <3>3, <3>4
  <2> HIDE DEF o
  <2>8. ListsOpen(opens, closes, o, m + 1, segs, k + 1)
    <3>1. \A p, q \in 1 .. m + 1 : p < q => o[p] < o[q]
      <4> TAKE p, q \in 1 .. m + 1
      <4> HAVE p < q
      <4>1. p \in 1 .. m /\ order[p] \in 1 .. k /\ o[p] = order[p]
        BY <1>10, <2>4
      <4>2. CASE q = m + 1
        BY <4>1, <4>2, <2>4
      <4>3. CASE q \in 1 .. m
        BY <4>1, <4>3, <2>4, <1>10
      <4> QED BY <4>2, <4>3, <2>6
    <3>2. \A p \in 1 .. m + 1 : o[p] \in Open(opens, closes, segs, k + 1)
      BY <2>3, <2>4, <2>6, <1>10
    <3>3. \A i \in Open(opens, closes, segs, k + 1) : \E p \in 1 .. m + 1 : o[p] = i
      <4> TAKE i \in Open(opens, closes, segs, k + 1)
      <4>1. CASE i = k + 1
        <5>1. m + 1 \in 1 .. m + 1
          OBVIOUS
        <5> QED BY <4>1, <5>1, <2>4
      <4>2. CASE i \in Open(opens, closes, segs, k)
        <5>1. PICK p \in 1 .. m : order[p] = i
          BY <4>2, <1>10
        <5> QED BY <5>1, <2>4
      <4> QED BY <4>1, <4>2, <2>3
    <3>4. \A p \in 1 .. m + 1 : H(o[p]) = H(k + 1) - ((m + 1) - p)
      <4> TAKE p \in 1 .. m + 1
      <4>1. H(k) \in Int /\ H(k + 1) = H(k) + 1
        BY <1>4, <1>5, <1>12
      <4>2. CASE p = m + 1
        BY <4>1, <4>2, <2>4
      <4>3. CASE p \in 1 .. m
        <5>1. H(o[p]) = H(k) - (m - p)
          BY <4>3, <2>4, <1>10
        <5> QED BY <4>1, <5>1
      <4> QED BY <4>2, <4>3, <2>6
    <3> QED BY <2>5, <3>1, <3>2, <3>3, <3>4 DEF ListsOpen, H
  <2>9. m + 1 \in Nat
    OBVIOUS
  <2> QED BY <2>7, <2>8, <2>9 DEF HoldsOpen
<1>13. CASE segs[k + 1] \in closes
  <2>1. H(k) \in Int /\ H(k + 1) = H(k) - 1
    BY <1>4, <1>5, <1>13
  <2>2. \A p \in 1 .. m : order[p] \in Open(opens, closes, segs, k + 1) <=> p # m
    <3> TAKE p \in 1 .. m
    <3>1. /\ order[p] \in 1 .. k /\ order[p] \in Open(opens, closes, segs, k)
          /\ H(order[p]) = H(k) - (m - p)
      BY <1>10
    <3>2. H(k + 1) >= H(order[p]) <=> p # m
      BY <2>1, <3>1
    <3> QED BY <3>1, <3>2, <1>7
  <2>3. \A i \in Open(opens, closes, segs, k + 1) : \E p \in 1 .. m : p # m /\ order[p] = i
    <3> TAKE i \in Open(opens, closes, segs, k + 1)
    <3>1. i \in Open(opens, closes, segs, k)
      BY <1>7, <1>8, <1>9, <1>13, <1>6
    <3>2. PICK p \in 1 .. m : order[p] = i
      BY <3>1, <1>10
    <3> QED BY <3>2, <2>2
  <2>4. CASE m = 0
    <3>1. s = <<>>
      BY <1>2, <2>4
    <3>2. t = s
      BY <1>13, <3>1 DEF Round
    <3>3. ListsOpen(opens, closes, order, m, segs, k + 1)
      BY <1>10, <2>3, <2>4 DEF ListsOpen
    <3> QED BY <3>2, <3>3, <1>2 DEF HoldsOpen
  <2>5. CASE m # 0
    <3> DEFINE o == [p \in 1 .. m - 1 |-> order[p]]
    <3>1. m - 1 \in Nat /\ \A p \in 1 .. m - 1 : p \in 1 .. m /\ p # m /\ o[p] = order[p]
      BY <2>5
    <3>2. \A p \in 1 .. m : p # m => p \in 1 .. m - 1
      BY <2>5
    <3>3. o \in [1 .. m - 1 -> 1 .. k + 1]
      BY <1>10, <3>1
    <3>4. t = [p \in 1 .. m - 1 |-> segs[o[p]]]
      <4>1. Len(s) = m /\ s # <<>>
        BY <1>2, <2>5
      <4>2. t = SubSeq(s, 1, m - 1)
        BY <1>13, <4>1 DEF Round, Front
      <4>3. SubSeq(s, 1, m - 1) = [p \in 1 .. m - 1 |-> s[p]]
        BY <3>1, <4>1 DEF SubSeq
      <4>4. \A p \in 1 .. m - 1 : s[p] = segs[o[p]]
        BY <1>2, <3>1
      <4> HIDE DEF o
      <4> QED BY <4>2, <4>3, <4>4
    <3> HIDE DEF o
    <3>5. ListsOpen(opens, closes, o, m - 1, segs, k + 1)
      <4>1. \A p, q \in 1 .. m - 1 : p < q => o[p] < o[q]
        BY <3>1, <1>10
      <4>2. \A p \in 1 .. m - 1 : o[p] \in Open(opens, closes, segs, k + 1)
        BY <3>1, <2>2
      <4>3. \A i \in Open(opens, closes, segs, k + 1) : \E p \in 1 .. m - 1 : o[p] = i
        BY <2>3, <3>1, <3>2
      <4>4. \A p \in 1 .. m - 1 : H(o[p]) = H(k + 1) - ((m - 1) - p)
        BY <2>1, <3>1, <1>10
      <4> QED BY <3>3, <4>1, <4>2, <4>3, <4>4 DEF ListsOpen, H
    <3> QED BY <3>1, <3>4, <3>5 DEF HoldsOpen
  <2> QED BY <2>4, <2>5
<1> QED BY <1>11, <1>12, <1>13

\* What survives a path is what is open at its end.
LEMMA SurvivingIsOpen ==
    ASSUME NEW opens, NEW closes, NEW X, NEW segs \in Seq(X)
    PROVE  Surviving(opens, closes, segs) = Open(opens, closes, segs, Len(segs))
<1> DEFINE C(S, i, j) == Cardinality(Among(segs, i, j, S))
<1>1. ASSUME NEW i \in 1 .. Len(segs), NEW j \in i + 1 .. Len(segs)
      PROVE  Height(opens, closes, segs, j) >= Height(opens, closes, segs, i)
                <=> C(closes, i + 1, j) <= C(opens, i + 1, j)
  <2>1. i \in Nat /\ j \in Nat /\ i <= j
    OBVIOUS
  <2>2. \A S : /\ C(S, i + 1, j) \in Nat /\ C(S, 1, j) \in Nat
               /\ C(S, 1, j) = C(S, 1, i) + C(S, i + 1, j)
    BY <2>1, AmongSplits
  <2>3. \A S : C(S, 1, i) \in Nat
    BY <2>1, AmongSplits
  <2> HIDE DEF C
  <2> QED BY <2>2, <2>3 DEF Height, C
<1> QED BY <1>1 DEF Surviving, Survives, Open

\* The loop ends with what survives, in its order.
LEMMA LoopIsCanonical ==
    ASSUME NEW opens, NEW closes, opens \cap closes = {}, NEW X, NEW segs \in Seq(X)
    PROVE  /\ Loop(opens, closes, segs) \in Survivors(opens, closes, segs)
           /\ Loop(opens, closes, segs) \in Seq(opens)
<1> DEFINE n == Len(segs)
<1>1. n \in Nat /\ DOMAIN segs = 1 .. n 
  OBVIOUS
<1> HIDE DEF n
<1>2. PICK stack : Stacks(opens, closes, stack, segs, n) /\ Loop(opens, closes, segs) = stack[n]
  BY <1>1, LoopStacks
<1> DEFINE S == {k \in Nat : k <= n => HoldsOpen(opens, closes, stack[k], segs, k)}
<1>3. 0 \in S
  <2> DEFINE o == [p \in 1 .. 0 |-> 1]
  <2>1. Open(opens, closes, segs, 0) = {}
    BY DEF Open
  <2>2. o \in [1 .. 0 -> 1 .. 0] /\ 1 .. 0 = {}
    OBVIOUS
  <2>3. stack[0] = [p \in 1 .. 0 |-> segs[o[p]]]
    BY <1>2 DEF Stacks
  <2> HIDE DEF o
  <2>4. ListsOpen(opens, closes, o, 0, segs, 0)
    BY <2>1, <2>2 DEF ListsOpen
  <2>5. HoldsOpen(opens, closes, stack[0], segs, 0)
    BY <2>3, <2>4 DEF HoldsOpen
  <2> QED BY <2>5
<1>4. ASSUME NEW k \in S PROVE k + 1 \in S
  <2> SUFFICES ASSUME k + 1 <= n PROVE HoldsOpen(opens, closes, stack[k + 1], segs, k + 1)
    OBVIOUS
  <2>1. k \in Nat /\ k + 1 \in 1 .. n /\ k <= n /\ (k + 1) - 1 = k
    BY <1>1
  <2>2. stack[k + 1] = Round(opens, closes, stack[k], segs[k + 1])
    BY <1>2, <2>1 DEF Stacks
  <2> QED BY <1>1, <2>1, <2>2, RoundHoldsOpen
<1>5. S = Nat
  <2>1. S \in SUBSET Nat
    OBVIOUS
  <2> HIDE DEF S
  <2> QED BY <1>3, <1>4, <2>1, NatInd
<1>6. HoldsOpen(opens, closes, Loop(opens, closes, segs), segs, n)
  BY <1>1, <1>2, <1>5
<1>7. PICK m \in Nat : \E order : /\ ListsOpen(opens, closes, order, m, segs, n)
                                  /\ Loop(opens, closes, segs) = [p \in 1 .. m |-> segs[order[p]]]
  BY <1>6 DEF HoldsOpen
<1>8. PICK order : /\ ListsOpen(opens, closes, order, m, segs, n)
                   /\ Loop(opens, closes, segs) = [p \in 1 .. m |-> segs[order[p]]]
  BY <1>7
<1> DEFINE T == Surviving(opens, closes, segs)
<1>9. T = Open(opens, closes, segs, n)
  BY SurvivingIsOpen DEF n
<1> HIDE DEF T
<1>10. /\ order \in [1 .. m -> T]
       /\ \A p, q \in 1 .. m : p < q => order[p] < order[q]
       /\ \A i \in T : \E p \in 1 .. m : order[p] = i
       /\ \A p \in 1 .. m : order[p] \in 1 .. n
  BY <1>8, <1>9 DEF ListsOpen
<1>11. Cardinality(T) = m
  <2>1. \A p, q \in 1 .. m : order[p] = order[q] => p = q
    <3> TAKE p, q \in 1 .. m
    <3> HAVE order[p] = order[q]
    <3>1. order[p] \in Int /\ p \in Int /\ q \in Int
      BY <1>1, <1>10
    <3>2. ~(p < q) /\ ~(q < p)
      BY <3>1, <1>10
    <3> QED BY <3>1, <3>2
  <2>2. order \in Bijection(1 .. m, T)
    BY <1>10, <2>1 DEF Bijection, Injection, Surjection, IsInjective
  <2>3. IsFiniteSet(1 .. m) /\ Cardinality(1 .. m) = m
    BY FS_Interval
  <2> QED BY <2>2, <2>3, FS_Bijection DEF ExistsBijection
<1>12. order \in Ascending(T)
  BY <1>10, <1>11 DEF Ascending
<1>13. Loop(opens, closes, segs) \in Survivors(opens, closes, segs)
  <2>1. DOMAIN order = 1 .. m
    BY <1>10
  <2> QED BY <1>8, <1>12, <2>1 DEF T, Survivors
<1>14. \A p \in 1 .. m : segs[order[p]] \in opens
  BY <1>9, <1>10 DEF Open
<1> QED BY <1>8, <1>13, <1>14

\* Nothing is taken off where nothing closes.
LEMMA LoopKeeps ==
    ASSUME NEW opens, NEW closes, opens \cap closes = {}, NEW segs \in Seq(opens)
    PROVE  Loop(opens, closes, segs) = segs
<1> DEFINE n == Len(segs)
<1>1. n \in Nat /\ DOMAIN segs = 1 .. n /\ \A k \in 1 .. n : segs[k] \in opens
  OBVIOUS
<1>2. segs = [i \in 1 .. n |-> segs[i]]
  OBVIOUS
<1> HIDE DEF n
<1>3. PICK stack : Stacks(opens, closes, stack, segs, n) /\ Loop(opens, closes, segs) = stack[n]
  BY <1>1, LoopStacks
<1> DEFINE S == {k \in Nat : k <= n => stack[k] = [i \in 1 .. k |-> segs[i]]}
<1>4. 0 \in S
  BY <1>3 DEF Stacks
<1>5. ASSUME NEW k \in S PROVE k + 1 \in S
  <2> SUFFICES ASSUME k + 1 <= n PROVE stack[k + 1] = [i \in 1 .. k + 1 |-> segs[i]]
    OBVIOUS
  <2>1. k \in Nat /\ k + 1 \in 1 .. n /\ k <= n /\ (k + 1) - 1 = k
    BY <1>1
  <2>2. stack[k + 1] = Round(opens, closes, stack[k], segs[k + 1])
    BY <1>3, <2>1 DEF Stacks
  <2>3. stack[k + 1] = Append(stack[k], segs[k + 1])
    BY <1>1, <2>1, <2>2 DEF Round
  <2>4. stack[k] = [i \in 1 .. k |-> segs[i]] /\ Len(stack[k]) = k
    BY <2>1
  <2>5. stack[k + 1] = [i \in 1 .. k + 1 |-> IF i = k + 1 THEN segs[k + 1] ELSE stack[k][i]]
    BY <2>1, <2>3, <2>4 DEF Append
  <2>6. \A i \in 1 .. k + 1 : (IF i = k + 1 THEN segs[k + 1] ELSE stack[k][i]) = segs[i]
    BY <2>1, <2>4
  <2> QED BY <2>5, <2>6
<1>6. S = Nat
  <2>1. S \in SUBSET Nat
    OBVIOUS
  <2> HIDE DEF S
  <2> QED BY <1>4, <1>5, <2>1, NatInd
<1>7. stack[n] = [i \in 1 .. n |-> segs[i]]
  <2>1. n \in S
    BY <1>1, <1>6
  <2> QED BY <1>1, <2>1
<1> QED BY <1>2, <1>3, <1>7

\* What opens at the end is there at the end.
LEMMA LoopEndsOpen ==
    ASSUME NEW opens, NEW closes, opens \cap closes = {}, NEW X, NEW segs \in Seq(X) \ {<<>>},
           Last(segs) \in opens
    PROVE  Loop(opens, closes, segs) # <<>>
<1> DEFINE n == Len(segs)
<1>1. n \in Nat /\ DOMAIN segs = 1 .. n /\ n \in 1 .. n /\ segs[n] \in opens
  BY DEF Last
<1> HIDE DEF n
<1>2. PICK stack : Stacks(opens, closes, stack, segs, n) /\ Loop(opens, closes, segs) = stack[n]
  BY <1>1, LoopStacks
<1>3. stack[n] = Append(stack[n - 1], segs[n])
  BY <1>1, <1>2 DEF Stacks, Round
<1> QED BY <1>2, <1>3

\* The segments of a decoded path are segments.
LEMMA FlattenType ==
    ASSUME NEW X, NEW seqs \in Seq(Seq(X))
    PROVE  FlattenSeq(seqs) \in Seq(X)
<1> DEFINE n == Len(seqs)
           Solves(g, k) == g = [i \in 1 .. k |-> IF i = 1 THEN seqs[i] ELSE g[i - 1] \o seqs[i]]
           Some(k) == \E g : Solves(g, k) /\ \A i \in 1 .. k : g[i] \in Seq(X)
           S == {k \in Nat : k <= n => Some(k)}
<1>1. n \in Nat /\ \A i \in 1 .. n : seqs[i] \in Seq(X)
  OBVIOUS
<1> HIDE DEF n
<1>2. 0 \in S
  <2> DEFINE g == [i \in 1 .. 0 |-> <<>>]
  <2>1. Solves(g, 0) /\ \A i \in 1 .. 0 : g[i] \in Seq(X)
    OBVIOUS
  <2> QED BY <2>1
<1>3. ASSUME NEW k \in S PROVE k + 1 \in S
  <2> SUFFICES ASSUME k + 1 <= n PROVE Some(k + 1)
    <3> HIDE DEF Some
    <3> QED OBVIOUS
  <2>1. k \in Nat /\ k <= n /\ k + 1 \in 1 .. n /\ Some(k)
    <3> HIDE DEF Some
    <3> QED BY <1>1
  <2>2. PICK g : Solves(g, k) /\ \A i \in 1 .. k : g[i] \in Seq(X)
    BY <2>1
  <2> DEFINE new == IF k = 0 THEN seqs[1] ELSE g[k] \o seqs[k + 1]
             h == [i \in 1 .. k + 1 |-> IF i = k + 1 THEN new ELSE g[i]]
  <2>3. new \in Seq(X)
    <3>1. seqs[k + 1] \in Seq(X) /\ (k # 0 => g[k] \in Seq(X))
      BY <1>1, <2>1, <2>2
    <3>2. CASE k = 0
      BY <3>1, <3>2
    <3>3. CASE k # 0
      BY <3>1, <3>3
    <3> QED BY <3>2, <3>3
  <2>4. \A i \in 1 .. k + 1 : h[i] \in Seq(X)
    <3> HIDE DEF new
    <3> QED BY <2>1, <2>2, <2>3
  <2>5. ASSUME NEW i \in 1 .. k + 1
        PROVE  h[i] = IF i = 1 THEN seqs[i] ELSE h[i - 1] \o seqs[i]
    <3>1. CASE i = k + 1
      <4>1. h[i] = new
        BY <3>1
      <4>2. CASE k = 0
        BY <3>1, <4>1, <4>2
      <4>3. CASE k # 0
        <5>1. i - 1 \in 1 .. k + 1 /\ i - 1 # k + 1 /\ i - 1 = k /\ i # 1
          BY <2>1, <3>1, <4>3
        <5>2. h[i - 1] = g[k]
          BY <5>1
        <5> QED BY <3>1, <4>1, <4>3, <5>1, <5>2
      <4> QED BY <4>2, <4>3
    <3>2. CASE i # k + 1
      <4>1. i \in 1 .. k
        BY <2>1, <3>2
      <4>2. g[i] = IF i = 1 THEN seqs[i] ELSE g[i - 1] \o seqs[i]
        BY <2>2, <4>1
      <4>3. h[i] = g[i]
        BY <3>2
      <4>4. i # 1 => h[i - 1] = g[i - 1]
        <5>1. i # 1 => i - 1 \in 1 .. k + 1 /\ i - 1 # k + 1
          BY <2>1, <4>1
        <5> QED BY <5>1
      <4> HIDE DEF h
      <4> QED BY <4>2, <4>3, <4>4
    <3> QED BY <3>1, <3>2
  <2>6. h = [i \in 1 .. k + 1 |-> h[i]]
    OBVIOUS
  <2> HIDE DEF h
  <2>7. Solves(h, k + 1)
    BY <2>5, <2>6
  <2> QED BY <2>4, <2>7
<1>4. S = Nat
  <2>1. S \in SUBSET Nat
    OBVIOUS
  <2> HIDE DEF S
  <2> QED BY <1>2, <1>3, <2>1, NatInd
<1>5. CASE n = 0
  BY <1>5 DEF FlattenSeq, n
<1>6. CASE n # 0
  <2> DEFINE f == CHOOSE g : Solves(g, n)
  <2>a. Some(n)
    <3> HIDE DEF Some
    <3> QED BY <1>1, <1>4
  <2>1. PICK g : Solves(g, n) /\ \A i \in 1 .. n : g[i] \in Seq(X)
    BY <2>a
  <2>2. Solves(f, n)
    <3>1. \E e : Solves(e, n)
      BY <2>1
    <3> HIDE DEF Solves
    <3> QED BY <3>1
  <2>3. FlattenSeq(seqs) = f[n]
    BY <1>6 DEF FlattenSeq, n
  <2> HIDE DEF f
  <2> DEFINE T == {k \in Nat : k + 1 <= n => f[k + 1] \in Seq(X)}
  <2>4. 0 \in T
    BY <1>1, <2>2
  <2>5. ASSUME NEW k \in T PROVE k + 1 \in T
    <3> SUFFICES ASSUME (k + 1) + 1 <= n PROVE f[(k + 1) + 1] \in Seq(X)
      OBVIOUS
    <3>1. k \in Nat /\ k + 1 <= n /\ (k + 1) + 1 \in 1 .. n /\ ((k + 1) + 1) - 1 = k + 1
          /\ (k + 1) + 1 # 1
      BY <1>1
    <3>2. f[(k + 1) + 1] = f[k + 1] \o seqs[(k + 1) + 1]
      BY <2>2, <3>1
    <3>3. f[k + 1] \in Seq(X) /\ seqs[(k + 1) + 1] \in Seq(X)
      BY <1>1, <3>1
    <3> QED BY <3>2, <3>3
  <2>6. T = Nat
    <3>1. T \in SUBSET Nat
      OBVIOUS
    <3> HIDE DEF T
    <3> QED BY <2>4, <2>5, <3>1, NatInd
  <2>7. n - 1 \in Nat /\ (n - 1) + 1 = n
    BY <1>1, <1>6
  <2>8. f[n] \in Seq(X)
    BY <2>6, <2>7
  <2> QED BY <2>3, <2>8
<1> QED BY <1>5, <1>6

\* url::Url::parse: what survives, with a slash where a dot segment was last; and
\* a parsed path is left as it is.
LEMMA ParsedIsCanonical ==
    ASSUME NEW sent \in Paths
    PROVE  /\ UrlPath(sent) \in Seq(Kept) \ {<<>>}
           /\ \E kept \in Survivors(Kept, DoubleDots, sent) : UrlPath(sent) = kept \o FinalSlash(sent)
           /\ UrlPath(UrlPath(sent)) = UrlPath(sent)
<1> DEFINE path == UrlPath(sent)
           kept == Loop(Kept, DoubleDots, sent)
<1>1. sent \in Seq(Piece) \ {<<>>} /\ Last(sent) \in Piece
  <2>1. sent \in Seq(Piece) \ {<<>>}
    BY PathsAssumption
  <2> QED BY <2>1 DEF Last
<1>2. Kept \cap DoubleDots = {} /\ Kept \cap Dots = {}
  BY DEF Kept
<1>3. kept \in Survivors(Kept, DoubleDots, sent) /\ kept \in Seq(Kept)
  BY <1>1, <1>2, LoopIsCanonical
<1>4. Nothing \in Kept
  <2>1. Nothing.depth = 0 /\ Nothing.segs = <<"">> /\ Len(Nothing.segs) = 1
    BY DEF Nothing
  <2>2. <<"">> \in Seq(Segment) \ {<<>>}
    BY DEF Segment
  <2>3. Nothing \in Piece
    BY <2>1, <2>2 DEF Nothing, Piece
  <2>4. <<"">> # <<".">> /\ <<"">> # <<"..">>
    OBVIOUS
  <2>5. Nothing \notin Dots \cup DoubleDots
    BY <2>1, <2>4 DEF Dots, DoubleDots
  <2> QED BY <2>3, <2>5 DEF Kept
<1>5. path = kept \o FinalSlash(sent)
  BY DEF UrlPath
<1> HIDE DEF kept
<1>6. path \in Seq(Kept) \ {<<>>} /\ Last(path) \in Kept
  <2>1. CASE Last(sent) \in Dots \cup DoubleDots
    <3>1. path = kept \o <<Nothing>>
      BY <1>5, <2>1 DEF FinalSlash
    <3>2. path \in Seq(Kept) /\ Len(path) = Len(kept) + 1 /\ path[Len(kept) + 1] = Nothing
      BY <1>3, <1>4, <3>1
    <3> QED BY <1>3, <1>4, <3>2 DEF Last
  <2>2. CASE Last(sent) \notin Dots \cup DoubleDots
    <3>1. path = kept
      BY <1>3, <1>5, <2>2 DEF FinalSlash
    <3>2. Last(sent) \in Kept
      BY <1>1, <2>2 DEF Kept
    <3>3. kept # <<>>
      BY <1>1, <1>2, <3>2, LoopEndsOpen DEF kept
    <3> QED BY <1>3, <3>1, <3>3 DEF Last
  <2> QED BY <2>1, <2>2
<1> HIDE DEF path
<1>7. UrlPath(path) = path
  <2>1. Loop(Kept, DoubleDots, path) = path
    BY <1>2, <1>6, LoopKeeps
  <2>2. FinalSlash(path) = <<>>
    BY <1>2, <1>6 DEF FinalSlash
  <2> QED BY <1>6, <2>1, <2>2 DEF UrlPath
<1> QED BY <1>3, <1>5, <1>6, <1>7 DEF path

\* normalize_policy_path: a path that is not refused is written as its surviving
\* names.
LEMMA PathIsCanonical ==
    ASSUME NEW path \in Seq(Piece), NormalizePolicyPath(path) # Refused
    PROVE  LET segs == Decoded(path) IN
           /\ \A i \in DOMAIN path : path[i].depth <= DecodeRounds
           /\ \A i \in DOMAIN segs : segs[i] = "" => i = Len(segs)
           /\ \E kept \in Survivors(Names, {".."}, segs) :
                 NormalizePolicyPath(path) = Joined(kept) \o
                     (IF kept # <<>> /\ Last(segs) = "" THEN <<"/">> ELSE <<>>)
<1> DEFINE segs == Decoded(path)
<1>1. segs \in Seq(Segment) /\ \A i \in DOMAIN path : path[i].depth \in Nat
  <2>1. \A i \in DOMAIN path : path[i] \in Piece
    OBVIOUS
  <2>2. \A i \in DOMAIN path : path[i].depth \in Nat /\ path[i].segs \in Seq(Segment)
    BY <2>1 DEF Piece
  <2>3. [i \in DOMAIN path |-> path[i].segs] \in Seq(Seq(Segment))
    <3>1. DOMAIN path = 1 .. Len(path) /\ Len(path) \in Nat
      OBVIOUS
    <3> QED BY <2>2, <3>1
  <2> QED BY <2>2, <2>3, FlattenType DEF Decoded
<1>2. Names \cap {".."} = {}
  BY NamesAssumption
<1>3. ~Ambiguous(path)
  BY DEF NormalizePolicyPath
<1>4. \A i \in DOMAIN path : path[i].depth <= DecodeRounds
  <2>1. \A i \in DOMAIN path : ~(path[i].depth > DecodeRounds)
    BY <1>3 DEF Ambiguous
  <2> QED BY <1>1, <2>1 DEF DecodeRounds
<1> HIDE DEF segs
<1>5. \A i \in DOMAIN segs : segs[i] = "" => i = Len(segs)
  <2>1. \A i \in 1 .. Len(segs) - 1 : segs[i] # ""
    BY <1>3 DEF Ambiguous, segs
  <2>2. Len(segs) \in Nat /\ DOMAIN segs = 1 .. Len(segs)
    BY <1>1
  <2> DEFINE blank(i) == segs[i] = ""
             n == Len(segs)
  <2>3. n \in Nat /\ \A i \in 1 .. n - 1 : ~blank(i)
    BY <2>1, <2>2
  <2> HIDE DEF blank, n
  <2>4. \A i \in 1 .. n : blank(i) => i = n
    BY <2>3
  <2> QED BY <2>2, <2>4 DEF blank, n
<1> DEFINE kept == Resolve(segs)
           slash == IF kept # <<>> /\ Last(segs) = "" THEN <<"/">> ELSE <<>>
           joined == Joined(kept)
<1>6. kept \in Survivors(Names, {".."}, segs) /\ kept \in Seq(Names)
  BY <1>1, <1>2, LoopIsCanonical DEF Resolve
<1>7. kept \in Seq(Segment)
  <2> HIDE DEF kept
  <2>1. Names \subseteq Segment
    BY DEF Segment
  <2>2. Len(kept) \in Nat /\ kept = [i \in 1 .. Len(kept) |-> kept[i]]
        /\ \A i \in 1 .. Len(kept) : kept[i] \in Names
    BY <1>6
  <2>3. \A i \in 1 .. Len(kept) : kept[i] \in Segment
    BY <2>1, <2>2
  <2>4. [i \in 1 .. Len(kept) |-> kept[i]] \in Seq(Segment)
    BY <2>2, <2>3
  <2> QED BY <2>2, <2>4
<1>8. NormalizePolicyPath(path) =
         IF Last(segs) = "" /\ joined # <<"/">> THEN Append(joined, "/") ELSE joined
  BY <1>3 DEF NormalizePolicyPath, segs
<1> HIDE DEF kept
<1>9. joined \in Seq(Segment \cup {"/"}) /\ (joined # <<"/">> <=> kept # <<>>)
  <2>1. CASE kept = <<>>
    <3>1. joined = <<"/">>
      BY <2>1 DEF Joined
    <3>2. <<"/">> \in Seq(Segment \cup {"/"})
      OBVIOUS
    <3> QED BY <2>1, <3>1, <3>2
  <2>2. CASE kept # <<>>
    <3>1. joined = [i \in 1 .. 2 * Len(kept) |-> IF i % 2 = 1 THEN "/" ELSE kept[i \div 2]]
      BY <2>2 DEF Joined
    <3>2. Len(kept) \in Nat /\ Len(kept) >= 1 /\ \A i \in 1 .. Len(kept) : kept[i] \in Segment
      BY <1>7, <2>2
    <3>3. \A i \in 1 .. 2 * Len(kept) : i % 2 # 1 => i \div 2 \in 1 .. Len(kept)
      BY <3>2
    <3>4. \A i \in 1 .. 2 * Len(kept) :
             (IF i % 2 = 1 THEN "/" ELSE kept[i \div 2]) \in Segment \cup {"/"}
      BY <3>2, <3>3
    <3>5. 2 * Len(kept) \in Nat /\ 2 * Len(kept) # 1
      BY <3>2
    <3>6. joined \in Seq(Segment \cup {"/"})
      BY <3>1, <3>4, <3>5
    <3>7. Len(joined) = 2 * Len(kept)
      BY <3>1, <3>5
    <3> QED BY <2>2, <3>5, <3>6, <3>7
  <2> QED BY <2>1, <2>2
<1> HIDE DEF joined
<1>10. joined \o <<>> = joined /\ joined \o <<"/">> = Append(joined, "/")
  BY <1>9
<1>11. NormalizePolicyPath(path) = joined \o slash
  BY <1>8, <1>9, <1>10
<1> QED BY <1>4, <1>5, <1>6, <1>11 DEF joined, segs

-----------------------------------------------------------------------------
(* Types *)

\* The lesser of two numbers is a number and below both.
LEMMA LesserType ==
    ASSUME NEW a \in Nat, NEW b \in Nat
    PROVE  Lesser(a, b) \in Nat /\ Lesser(a, b) <= a /\ Lesser(a, b) <= b
BY DEF Lesser

\* The program counter of a request tells what it carries.
LEMMA Registers ==
    ASSUME TypeOK, NEW p \in Requests
    PROVE  /\ req[p] \in Request
           /\ req[p].pc \in {"verify", "insert"} => req[p] \in Redirecting
           /\ req[p].pc \in {"consume", "policy"} =>
                 req[p] \in [pc : {"consume", "policy"}, browser : Browsers, id : Handoffs]
           /\ req[p].pc = "roles" =>
                 req[p] \in [pc : {"roles"}, browser : Browsers, id : Handoffs, row : ForwardApp]
           /\ req[p].pc = "update" => req[p] \in Updating
BY DEF TypeOK, Request, Idle, Redirecting, CallingBack, Updating

\* A request moves to a legal state.
LEMMA GotoType ==
    ASSUME TypeOK, NEW p \in Requests, NEW r \in Request, Goto(p, r)
    PROVE  /\ req' \in [Requests -> Request]
           /\ req'[p] = r
           /\ \A q \in Requests : q # p => req'[q] = req[q]
BY DEF TypeOK, Goto

\* Idle is a request, and promises nothing.
LEMMA IdleIsFine == Idle \in Request /\ RequestOK(Idle)
BY DEF Request, Idle, RequestOK

\* A request changes and nothing of what others carry: it only has to be well
\* typed and to keep its own promise.
LEMMA MoveKeeps ==
    ASSUME Inv, NEW p \in Requests, NEW r \in Request, RequestOK(r), Goto(p, r),
           UNCHANGED <<authVars, roles, nonces, cookie, handoff, stored, sessions, redeemed,
                       workload>>,
           app' \in [Apps -> ForwardApp \cup {NoApplication}]
    PROVE  Inv'
<1>1. TypeOK
  BY DEF Inv
<1>2. /\ req' \in [Requests -> Request] /\ req'[p] = r
      /\ \A q \in Requests : q # p => req'[q] = req[q]
  BY <1>1, GotoType
<1>3. TypeOK'
  BY <1>1, <1>2 DEF TypeOK, authVars
<1>4. \A x : RequestOK(x) => RequestOK(x)'
  BY DEF RequestOK, Began, authVars
<1>5. RequestsOK'
  BY <1>2, <1>4 DEF RequestsOK, Inv
<1>6. CredentialsOK' /\ NoncesOK' /\ HandoffsOK' /\ SessionsOK' /\ RedemptionsOK'
  BY DEF Inv, CredentialsOK, NoncesOK, HandoffsOK, SessionsOK, Delivered, Began, RedemptionsOK,
         authVars
<1> QED BY <1>3, <1>5, <1>6 DEF Inv

\* A request that gives up keeps the invariant.
LEMMA EndKeeps ==
    ASSUME Inv, NEW p \in Requests, Goto(p, Idle),
           UNCHANGED <<authVars, roles, nonces, cookie, handoff, stored, sessions, redeemed,
                       workload>>,
           app' \in [Apps -> ForwardApp \cup {NoApplication}]
    PROVE  Inv'
BY IdleIsFine, MoveKeeps

-----------------------------------------------------------------------------
(* From the protected site to the handoff *)

\* forward_auth_start: the new nonce was given to nobody before.
LEMMA StartKeeps ==
    ASSUME Inv, NEW b \in Browsers, NEW t \in Target, NEW n \in Nonces, Start(b, t, n)
    PROVE  Inv'
<1>1. /\ n \notin Seen
      /\ nonces' = [nonces EXCEPT ![b] = @ \cup {<<t.host, n>>}]
      /\ cookie' = [cookie EXCEPT ![b][t.host] = n]
      /\ UNCHANGED <<authVars, app, roles, handoff, stored, sessions, req, redeemed, workload>>
  BY DEF Start
<1>2. TypeOK /\ t.host \in Hosts
  BY DEF Inv, Target
<1>3. nonces' \in [Browsers -> SUBSET (Hosts \X Nonces)]
      /\ cookie' \in [Browsers -> [Hosts -> Nonces \cup {NoNonce}]]
  BY <1>1, <1>2 DEF TypeOK
<1>4. TypeOK'
  BY <1>1, <1>2, <1>3 DEF TypeOK, authVars
<1>5. /\ nonces'[b] = nonces[b] \cup {<<t.host, n>>}
      /\ \A d \in Browsers : d # b => nonces'[d] = nonces[d]
      /\ \A d \in Browsers : nonces[d] \subseteq nonces'[d]
  BY <1>1, <1>2 DEF TypeOK
<1>6. \A d \in Browsers, o \in Hosts :
         cookie'[d][o] = IF d = b /\ o = t.host THEN n ELSE cookie[d][o]
  BY <1>1, <1>2 DEF TypeOK
<1>7. NoncesOK'
  <2>1. \A d \in Browsers : \A x \in nonces[d] : x[2] # n
    BY <1>1 DEF Seen
  <2>2. \A d \in Browsers : \A x \in nonces'[d] : x \in nonces[d] \/ (d = b /\ x[2] = n)
    BY <1>5
  <2>3. \A c, d \in Browsers : \A x \in nonces'[c], y \in nonces'[d] : x[2] = y[2] => c = d
    BY <2>1, <2>2 DEF Inv, NoncesOK
  <2>4. \A d \in Browsers, o \in Hosts :
           cookie'[d][o] # NoNonce => <<o, cookie'[d][o]>> \in nonces'[d]
    BY <1>5, <1>6 DEF Inv, NoncesOK
  <2> QED BY <2>3, <2>4 DEF NoncesOK
<1>8. \A d \in Browsers : \A g : Began(d, g) => Began(d, g)'
  BY <1>5 DEF Began
<1>9. RequestsOK'
  <2> SUFFICES ASSUME NEW p \in Requests PROVE RequestOK(req[p])'
    BY <1>1 DEF RequestsOK
  <2>1. RequestOK(req[p])
    BY DEF Inv, RequestsOK
  <2>2. req[p].pc \in {"consume", "policy", "roles"} => req[p].browser \in Browsers
    BY <1>2, Registers
  <2>3. req' = req /\ handoff' = handoff /\ creds' = creds /\ redeemed' = redeemed
    BY <1>1 DEF authVars
  <2> QED BY <1>8, <2>1, <2>2, <2>3 DEF RequestOK
<1>10. SessionsOK'
  <2> SUFFICES ASSUME NEW x \in sessions PROVE SessionIn(x[2], creds) /\ Delivered(x)'
    BY <1>1 DEF SessionsOK, authVars
  <2>1. SessionIn(x[2], creds) /\ Delivered(x) /\ x[1] \in Browsers
    BY <1>2 DEF Inv, SessionsOK, TypeOK
  <2> QED BY <1>1, <1>8, <2>1 DEF Delivered
<1>11. CredentialsOK' /\ HandoffsOK' /\ RedemptionsOK'
  BY <1>1 DEF Inv, CredentialsOK, HandoffsOK, RedemptionsOK, authVars
<1> QED BY <1>4, <1>7, <1>9, <1>10, <1>11 DEF Inv

\* forward_redirect up to the handoff: the credential exists and the path, parsed,
\* was not refused.
LEMMA RedirectKeeps ==
    ASSUME Inv, NEW p \in Requests, NEW c \in creds, NEW t \in Target, t.path \in Paths,
           NEW n \in Nonces, Redirect(p, c, t, n)
    PROVE  Inv'
<1> DEFINE path == ParsedPath[t.path]
           r == [pc |-> "verify", cred |-> c, target |-> [host |-> t.host, path |-> path],
                 app |-> PolicyFor(t), state |-> n]
<1>1. /\ Goto(p, r) /\ PolicyFor(t) # NoApplication
      /\ UNCHANGED <<authVars, app, roles, nonces, cookie, handoff, stored, sessions, redeemed,
                     workload>>
  BY DEF Redirect
<1>2. c \in Credential /\ app \in [Apps -> ForwardApp \cup {NoApplication}]
  BY DEF Inv, TypeOK
<1>3. PolicyFor(t) \in Apps
  BY <1>1, <1>2, PolicyForType
<1>4. path = UrlPath(t.path) /\ path \in AllPaths
  BY DEF ParsedPath, AllPaths
<1>5. NormalizePolicyPath(path) # Refused
  <2>1. PolicyPath[t.path] # Refused
    BY <1>1 DEF PolicyFor
  <2> QED BY <2>1 DEF PolicyPath, AllPaths
<1> HIDE DEF path
<1>6. r \in Request
  BY <1>2, <1>3, <1>4 DEF Request, Redirecting, Target
<1>7. RequestOK(r)
  BY <1>4, <1>5 DEF RequestOK
<1> HIDE DEF r
<1> QED BY <1>1, <1>2, <1>6, <1>7, MoveKeeps

\* issue_handoff verifies the parent once more.
LEMMA VerifyParentKeeps ==
    ASSUME Inv, NEW p \in Requests, VerifyParent(p)
    PROVE  Inv'
<1> DEFINE r == [req[p] EXCEPT !.pc = "insert"]
<1>1. /\ req[p].pc = "verify"
      /\ Goto(p, r) \/ Goto(p, Idle)
      /\ UNCHANGED <<authVars, app, roles, nonces, cookie, handoff, stored, sessions, redeemed,
                     workload>>
  BY DEF VerifyParent
<1>2. app \in [Apps -> ForwardApp \cup {NoApplication}]
  BY DEF Inv, TypeOK
<1>3. req[p].pc = "verify" /\ req[p] \in Redirecting /\ RequestOK(req[p])
  BY Registers DEF Inv, RequestsOK, VerifyParent
<1>4. r \in Request /\ RequestOK(r)
  BY <1>3 DEF Request, Redirecting, RequestOK
<1> HIDE DEF r
<1> QED BY <1>1, <1>2, <1>4, MoveKeeps, EndKeeps

\* A credential that is not legacy lasts as long as its session, a legacy one at
\* most so long.
LEMMA DeadlineType ==
    ASSUME Inv, NEW c \in creds
    PROVE  Deadline(c) \in Nat /\ Deadline(c) <= c.session_exp
<1>1. c \in Credential /\ c.exp <= c.session_exp
  BY DEF Inv, TypeOK, CredentialsOK
<1> QED BY <1>1 DEF Deadline, Credential

\* issue_handoff: the claims are those of the credential, and the jti is new.
LEMMA InsertHandoffKeeps ==
    ASSUME Inv, NEW p \in Requests, InsertHandoff(p)
    PROVE  Inv'
<1> DEFINE r == req[p]
           c == r.cred
           s == [login |-> c.login, user |-> c.user, application_id |-> r.app,
                 aud |-> r.target.host, iat |-> c.iat, exp |-> SessionDeadline(c),
                 session_version |-> ParentVersion(c)]
           g == [session |-> s, state |-> r.state, redirect_path |-> r.target.path,
                 exp |-> Lesser(Deadline(c), now + HandoffLifetime)]
<1>1. PICK h \in Handoffs : /\ handoff[h] = NoHandoff
                            /\ handoff' = [handoff EXCEPT ![h] = g]
                            /\ stored' = (stored \ Expired(stored)) \cup {h}
  BY DEF InsertHandoff
<1>2. /\ r.pc = "insert" /\ Goto(p, Idle)
      /\ UNCHANGED <<authVars, app, roles, nonces, cookie, sessions, redeemed, workload>>
  BY DEF InsertHandoff
<1>3. TypeOK /\ r \in Redirecting /\ RequestOK(r)
  BY <1>2, Registers DEF Inv, RequestsOK
<1>4. /\ c \in creds /\ c \in Credential
      /\ r.app \in Apps /\ r.target \in Target /\ r.state \in Nonces
  BY <1>2, <1>3 DEF RequestOK, Redirecting
<1>5. Deadline(c) \in Nat /\ Deadline(c) <= c.session_exp
  BY <1>4, DeadlineType
<1>6. g.exp \in Nat /\ g.exp <= Deadline(c)
  <2>1. HandoffLifetime \in Nat /\ now \in Nat
    BY <1>3, ForwardAssumption DEF TypeOK
  <2>2. now + HandoffLifetime \in Nat
    BY <2>1
  <2>3. g.exp = Lesser(Deadline(c), now + HandoffLifetime)
    OBVIOUS
  <2> HIDE DEF g, c
  <2> QED BY <1>5, <2>2, <2>3, LesserType
<1>7. s \in ForwardSession
  BY <1>4, <1>5 DEF ForwardSession, Target, Credential, SessionDeadline, ParentVersion
<1>8. DerivedFrom(s, c)
  BY <1>5 DEF DerivedFrom, SessionDeadline, ParentVersion
<1>9. /\ g \in Handoff /\ g.session = s /\ g.state = r.state /\ g.exp \in Nat
      /\ g.exp <= Deadline(c)
  <2> HIDE DEF s
  <2>1. r.target.path \in AllPaths
    BY <1>4 DEF Target
  <2> QED BY <1>4, <1>6, <1>7, <2>1 DEF Handoff
<1>10. g # NoHandoff /\ HandoffIn(g, creds)
  <2>1. g # NoHandoff
    BY <1>9, NoHandoffAssumption
  <2>2. c.session_exp \in Nat
    BY <1>4 DEF Credential
  <2>3. g.exp <= c.session_exp
    BY <1>5, <1>9, <2>2
  <2> HIDE DEF g, s
  <2> QED BY <1>4, <1>8, <1>9, <2>1, <2>3 DEF HandoffIn
<1> HIDE DEF g, s
<1>11. /\ handoff'[h] = g
       /\ \A k \in Handoffs : k # h => handoff'[k] = handoff[k]
       /\ handoff' \in [Handoffs -> Handoff \cup {NoHandoff}]
  BY <1>1, <1>3, <1>9 DEF TypeOK
<1>12. /\ req' \in [Requests -> Request] /\ req'[p] = Idle
       /\ \A q \in Requests : q # p => req'[q] = req[q]
  BY <1>2, <1>3, IdleIsFine, GotoType
<1>13. TypeOK'
  <2>1. stored' \subseteq Handoffs
    BY <1>1, <1>3 DEF TypeOK, Expired
  <2> QED BY <1>2, <1>3, <1>11, <1>12, <2>1 DEF TypeOK, authVars
<1>14. HandoffsOK'
  BY <1>2, <1>10, <1>11 DEF Inv, HandoffsOK, authVars
<1>15. RequestsOK'
  <2> SUFFICES ASSUME NEW q \in Requests, q # p PROVE RequestOK(req[q])'
    BY <1>12, IdleIsFine DEF RequestsOK, RequestOK, Idle
  <2>1. RequestOK(req[q])
    BY DEF Inv, RequestsOK
  <2>2. req'[q] = req[q] /\ creds' = creds /\ nonces' = nonces /\ redeemed' = redeemed
    BY <1>2, <1>12 DEF authVars
  <2>3. req[q].pc \in {"consume", "policy", "roles"} => req[q].id \in Handoffs
    BY <1>3, Registers
  <2>4. req[q].pc \in {"consume", "policy", "roles"} => handoff'[req[q].id] = handoff[req[q].id]
    BY <1>1, <1>11, <2>1, <2>3 DEF RequestOK
  <2> QED BY <2>1, <2>2, <2>4 DEF RequestOK, Began
<1>16. RedemptionsOK'
  <2>1. redeemed[h] = 0
    BY <1>1 DEF Inv, RedemptionsOK
  <2>2. \A k \in Handoffs : k # h /\ k \in stored' => k \in stored
    BY <1>1
  <2> QED BY <1>2, <1>10, <1>11, <2>1, <2>2 DEF Inv, RedemptionsOK
<1>17. SessionsOK'
  <2> SUFFICES ASSUME NEW x \in sessions PROVE SessionIn(x[2], creds) /\ Delivered(x)'
    BY <1>2 DEF SessionsOK, authVars
  <2>1. SessionIn(x[2], creds) /\ Delivered(x)
    BY DEF Inv, SessionsOK
  <2>2. PICK k \in Handoffs : /\ handoff[k] # NoHandoff /\ handoff[k].session = x[2]
                              /\ redeemed[k] > 0 /\ Began(x[1], handoff[k])
    BY <2>1 DEF Delivered
  <2>3. handoff'[k] = handoff[k] /\ redeemed' = redeemed /\ nonces' = nonces
    BY <1>1, <1>2, <1>11, <2>2
  <2> QED BY <2>1, <2>2, <2>3 DEF Delivered, Began
<1>18. CredentialsOK' /\ NoncesOK'
  BY <1>2 DEF Inv, CredentialsOK, NoncesOK, authVars
<1> QED BY <1>13, <1>14, <1>15, <1>16, <1>17, <1>18 DEF Inv

-----------------------------------------------------------------------------
(* From the handoff to the forward session *)

\* forward_auth_callback: the cookie holds a nonce this browser was given on the
\* host of the handoff.
LEMMA CallbackKeeps ==
    ASSUME Inv, NEW p \in Requests, NEW b \in Browsers, NEW h \in Handoffs, Callback(p, b, h)
    PROVE  Inv'
<1> DEFINE r == [pc |-> "consume", browser |-> b, id |-> h]
           g == handoff[h]
<1>1. /\ Goto(p, r) /\ g # NoHandoff /\ cookie[b][g.session.aud] = g.state
      /\ UNCHANGED <<authVars, app, roles, nonces, cookie, handoff, stored, sessions, redeemed,
                     workload>>
  BY DEF Callback, StateMatches
<1>2. TypeOK
  BY DEF Inv
<1>3. g \in Handoff
  BY <1>1, <1>2 DEF TypeOK
<1>4. g.session.aud \in Hosts /\ g.state \in Nonces
  BY <1>3 DEF Handoff, ForwardSession
<1>5. Began(b, g)
  BY <1>1, <1>4, ForwardAssumption DEF Inv, NoncesOK, Began
<1>6. r \in Request /\ RequestOK(r)
  BY <1>1, <1>5 DEF Request, CallingBack, RequestOK
<1>7. app \in [Apps -> ForwardApp \cup {NoApplication}]
  BY <1>2 DEF TypeOK
<1> HIDE DEF r, g
<1> QED BY <1>1, <1>6, <1>7, MoveKeeps

\* The DELETE of redeem_handoff: a row that was there was not redeemed before.
LEMMA ConsumeHandoffKeeps ==
    ASSUME Inv, NEW p \in Requests, ConsumeHandoff(p)
    PROVE  Inv'
<1> DEFINE h == req[p].id
           r == [req[p] EXCEPT !.pc = "policy"]
<1>1. /\ req[p].pc = "consume"
      /\ UNCHANGED <<authVars, app, roles, nonces, cookie, handoff, sessions, workload>>
  BY DEF ConsumeHandoff
<1>2. TypeOK /\ RequestOK(req[p])
      /\ req[p] \in [pc : {"consume", "policy"}, browser : Browsers, id : Handoffs]
  BY <1>1, Registers DEF Inv, RequestsOK
<1>3. app \in [Apps -> ForwardApp \cup {NoApplication}]
  BY <1>2 DEF TypeOK
<1>4. CASE ~Consumable(h)
  <2>1. Goto(p, Idle) /\ UNCHANGED <<stored, redeemed>>
    BY <1>4 DEF ConsumeHandoff
  <2> QED BY <1>1, <1>3, <2>1, EndKeeps
<1>5. CASE Consumable(h)
  <2>1. /\ stored' = stored \ {h} /\ redeemed' = [redeemed EXCEPT ![h] = @ + 1] /\ Goto(p, r)
    BY <1>5 DEF ConsumeHandoff
  <2>2. h \in Handoffs /\ h \in stored
    BY <1>2, <1>5 DEF Consumable
  <2>3. r \in Request /\ r.pc = "policy" /\ r.browser = req[p].browser /\ r.id = h
    BY <1>2 DEF Request, CallingBack
  <2> HIDE DEF r
  <2>4. /\ req' \in [Requests -> Request] /\ req'[p] = r
        /\ \A q \in Requests : q # p => req'[q] = req[q]
    BY <1>2, <2>1, <2>3, GotoType
  <2>5. TypeOK'
    <3>1. redeemed' \in [Handoffs -> Nat] /\ stored' \subseteq Handoffs
      BY <1>2, <2>1 DEF TypeOK
    <3> QED BY <1>1, <1>2, <2>4, <3>1 DEF TypeOK, authVars
  <2>6. redeemed[h] = 0 /\ handoff[h] # NoHandoff
    BY <2>2 DEF Inv, RedemptionsOK
  <2>7. redeemed'[h] = 1 /\ \A k \in Handoffs : k # h => redeemed'[k] = redeemed[k]
    BY <1>2, <2>1, <2>2, <2>6 DEF TypeOK
  <2>8. \A k \in Handoffs : redeemed[k] > 0 => redeemed'[k] > 0
    BY <2>6, <2>7
  <2>9. RequestsOK'
    <3> SUFFICES ASSUME NEW q \in Requests PROVE RequestOK(req[q])'
      BY DEF RequestsOK
    <3>1. RequestOK(req[q])
      BY DEF Inv, RequestsOK
    <3>2. creds' = creds /\ handoff' = handoff /\ nonces' = nonces
      BY <1>1 DEF authVars
    <3>3. CASE q = p
      BY <1>1, <1>2, <2>3, <2>4, <2>7, <3>2, <3>3 DEF RequestOK, Began
    <3>4. CASE q # p
      <4>1. req'[q] = req[q]
        BY <2>4, <3>4
      <4>2. req[q].pc \in {"policy", "roles"} => req[q].id \in Handoffs
        BY <1>2, Registers
      <4> QED BY <2>8, <3>1, <3>2, <4>1, <4>2 DEF RequestOK, Began
    <3> QED BY <3>3, <3>4
  <2>10. RedemptionsOK'
    BY <1>1, <2>1, <2>6, <2>7 DEF Inv, RedemptionsOK
  <2>11. SessionsOK'
    BY <1>1, <2>8 DEF Inv, SessionsOK, Delivered, Began, authVars
  <2>12. CredentialsOK' /\ NoncesOK' /\ HandoffsOK'
    BY <1>1 DEF Inv, CredentialsOK, NoncesOK, HandoffsOK, authVars
  <2> QED BY <2>5, <2>9, <2>10, <2>11, <2>12 DEF Inv
<1> QED BY <1>4, <1>5

\* The policy of the path to be opened: a row that decides is there.
LEMMA CheckPolicyKeeps ==
    ASSUME Inv, NEW p \in Requests, CheckPolicy(p)
    PROVE  Inv'
<1> DEFINE g == handoff[req[p].id]
           t == [host |-> g.session.aud, path |-> g.redirect_path]
           a == LocalPolicyFor(t)
           r == [pc |-> "roles", browser |-> req[p].browser, id |-> req[p].id, row |-> app[a]]
<1>1. /\ req[p].pc = "policy"
      /\ UNCHANGED <<authVars, app, roles, nonces, cookie, handoff, stored, sessions, redeemed,
                     workload>>
  BY DEF CheckPolicy
<1>2. TypeOK /\ RequestOK(req[p])
      /\ req[p] \in [pc : {"consume", "policy"}, browser : Browsers, id : Handoffs]
  BY <1>1, Registers DEF Inv, RequestsOK
<1>3. app \in [Apps -> ForwardApp \cup {NoApplication}]
  BY <1>2 DEF TypeOK
<1>4. CASE a # g.session.application_id
  <2>1. Goto(p, Idle)
    BY <1>4 DEF CheckPolicy
  <2> QED BY <1>1, <1>3, <2>1, EndKeeps
<1>5. CASE a = g.session.application_id
  <2>1. Goto(p, r)
    BY <1>5 DEF CheckPolicy
  <2>2. g # NoHandoff /\ g \in Handoff
    BY <1>1, <1>2 DEF RequestOK, TypeOK
  <2>3. a \in Apps
    BY <1>5, <2>2 DEF Handoff, ForwardSession
  <2>4. a # NoApplication
    BY <2>3, RowsAssumption
  <2>5. a = FindMatching(app, Listing, t.host, PolicyPath[t.path])
    BY <2>4 DEF LocalPolicyFor, PolicyFor
  <2> HIDE DEF a, t, g
  <2>6. Decides(app, t.host, PolicyPath[t.path], a)
    BY <1>3, <2>3, <2>5, ListingIsOne, FindMatchingDecides
  <2>7. app[a] \in ForwardApp
    BY <1>3, <2>3, <2>6 DEF Decides
  <2>8. r \in Request
    BY <1>2, <2>7 DEF Request, CallingBack
  <2>9. RequestOK(r)
    BY <1>1, <1>2 DEF RequestOK
  <2> HIDE DEF r
  <2> QED BY <1>1, <1>3, <2>1, <2>8, <2>9, MoveKeeps
<1> QED BY <1>4, <1>5

\* The answer of the callback: the session of its handoff, in the browser that
\* began.
LEMMA DeliverKeeps ==
    ASSUME Inv, NEW p \in Requests, Deliver(p)
    PROVE  Inv'
<1> DEFINE b == req[p].browser
           g == handoff[req[p].id]
           s == g.session
<1>1. /\ req[p].pc = "roles" /\ Goto(p, Idle)
      /\ UNCHANGED <<authVars, app, roles, nonces, handoff, stored, redeemed, workload>>
  BY DEF Deliver
<1>2. \/ sessions' = sessions \cup {<<b, s>>} /\ cookie' = [cookie EXCEPT ![b][s.aud] = NoNonce]
      \/ UNCHANGED <<sessions, cookie>>
  BY DEF Deliver
<1>3. TypeOK /\ RequestOK(req[p]) /\ b \in Browsers /\ req[p].id \in Handoffs
  BY <1>1, Registers DEF Inv, RequestsOK
<1>4. g # NoHandoff /\ Delivered(<<b, s>>)
  BY <1>1, <1>3 DEF RequestOK, Delivered
<1>5. s \in ForwardSession /\ s.aud \in Hosts
  BY <1>3, <1>4 DEF TypeOK, Handoff, ForwardSession
<1>6. SessionIn(s, creds)
  BY <1>3, <1>4 DEF Inv, HandoffsOK, HandoffIn, SessionIn
<1> HIDE DEF b, g, s
<1>7. /\ req' \in [Requests -> Request] /\ req'[p] = Idle
      /\ \A q \in Requests : q # p => req'[q] = req[q]
  BY <1>1, <1>3, IdleIsFine, GotoType
<1>8. \A d \in Browsers, o \in Hosts : cookie'[d][o] \in {cookie[d][o], NoNonce}
  BY <1>2, <1>3, <1>5 DEF TypeOK
<1>9. TypeOK'
  <2>1. sessions' \subseteq Browsers \X ForwardSession
    BY <1>2, <1>3, <1>5 DEF TypeOK
  <2>2. cookie' \in [Browsers -> [Hosts -> Nonces \cup {NoNonce}]]
    BY <1>2, <1>3, <1>5 DEF TypeOK
  <2> QED BY <1>1, <1>3, <1>7, <2>1, <2>2 DEF TypeOK, authVars
<1>10. \A x : RequestOK(x) => RequestOK(x)'
  BY <1>1 DEF RequestOK, Began, authVars
<1>11. RequestsOK'
  BY <1>7, <1>10, IdleIsFine DEF RequestsOK, Inv
<1>12. NoncesOK'
  BY <1>1, <1>8 DEF Inv, NoncesOK
<1>13. SessionsOK'
  <2>1. \A x \in sessions' : x \in sessions \/ x = <<b, s>>
    BY <1>2
  <2>2. \A x : Delivered(x) => Delivered(x)'
    BY <1>1 DEF Delivered, Began
  <2>3. \A x \in sessions' : SessionIn(x[2], creds) /\ Delivered(x)
    BY <1>4, <1>6, <2>1 DEF Inv, SessionsOK
  <2> QED BY <1>1, <2>2, <2>3 DEF SessionsOK, authVars
<1>14. CredentialsOK' /\ HandoffsOK' /\ RedemptionsOK'
  BY <1>1 DEF Inv, CredentialsOK, HandoffsOK, RedemptionsOK, authVars
<1> QED BY <1>9, <1>11, <1>12, <1>13, <1>14 DEF Inv

\* The sweep only takes rows away.
LEMMA SweepKeeps ==
    ASSUME Inv, Sweep
    PROVE  Inv'
<1>1. /\ stored' \subseteq stored
      /\ UNCHANGED <<authVars, app, roles, nonces, cookie, handoff, sessions, req, redeemed,
                     workload>>
  BY DEF Sweep
<1>2. TypeOK'
  BY <1>1 DEF Inv, TypeOK, authVars
<1>3. RedemptionsOK'
  BY <1>1 DEF Inv, RedemptionsOK
<1>4. RequestsOK'
  BY <1>1 DEF Inv, RequestsOK, RequestOK, Began, authVars
<1>5. CredentialsOK' /\ NoncesOK' /\ HandoffsOK' /\ SessionsOK'
  BY <1>1 DEF Inv, CredentialsOK, NoncesOK, HandoffsOK, SessionsOK, Delivered, Began, authVars
<1> QED BY <1>2, <1>3, <1>4, <1>5 DEF Inv

-----------------------------------------------------------------------------
(* Administration, and the central session *)

\* Administrators change rows and roles: nothing in flight depends on them.
LEMMA AdminKeeps ==
    ASSUME Inv, UNCHANGED <<authVars, nonces, cookie, handoff, stored, sessions, req, redeemed,
                            workload>>,
           app' \in [Apps -> ForwardApp \cup {NoApplication}],
           roles' \in [Users -> SUBSET Roles]
    PROVE  Inv'
<1>1. TypeOK'
  BY DEF Inv, TypeOK, authVars
<1>2. RequestsOK'
  BY DEF Inv, RequestsOK, RequestOK, Began, authVars
<1>3. CredentialsOK' /\ NoncesOK' /\ HandoffsOK' /\ SessionsOK' /\ RedemptionsOK'
  BY DEF Inv, CredentialsOK, NoncesOK, HandoffsOK, SessionsOK, Delivered, Began, RedemptionsOK,
         authVars
<1> QED BY <1>1, <1>2, <1>3 DEF Inv

\* create_application and delete_application.
LEMMA RowKeeps ==
    ASSUME Inv, NEW a \in Apps, CreateApplication(a) \/ DeleteApplication(a)
    PROVE  Inv'
<1>1. /\ app \in [Apps -> ForwardApp \cup {NoApplication}]
      /\ roles \in [Users -> SUBSET Roles]
  BY DEF Inv, TypeOK
<1>2. app' \in [Apps -> ForwardApp \cup {NoApplication}]
  BY <1>1, ForwardAssumption DEF CreateApplication, DeleteApplication
<1>3. UNCHANGED <<authVars, roles, nonces, cookie, handoff, stored, sessions, req, redeemed,
                  workload>>
  BY DEF CreateApplication, DeleteApplication
<1> QED BY <1>1, <1>2, <1>3, AdminKeeps

\* UserRole::assign and remove.
LEMMA ChangeRolesKeeps ==
    ASSUME Inv, NEW u \in Users, ChangeRoles(u)
    PROVE  Inv'
<1>1. /\ app \in [Apps -> ForwardApp \cup {NoApplication}]
      /\ roles \in [Users -> SUBSET Roles]
  BY DEF Inv, TypeOK
<1>2. roles' \in [Users -> SUBSET Roles]
  BY <1>1 DEF ChangeRoles
<1>3. UNCHANGED <<authVars, app, nonces, cookie, handoff, stored, sessions, req, redeemed,
                  workload>>
  BY DEF ChangeRoles
<1> QED BY <1>1, <1>2, <1>3, AdminKeeps

\* update_application takes the row it was given ...
LEMMA ReadApplicationKeeps ==
    ASSUME Inv, NEW p \in Requests, NEW a \in Apps, ReadApplication(p, a)
    PROVE  Inv'
<1> DEFINE r == [pc |-> "update", app |-> a, row |-> app[a]]
<1>1. /\ app[a] # NoApplication /\ Goto(p, r)
      /\ UNCHANGED <<authVars, app, roles, nonces, cookie, handoff, stored, sessions, redeemed,
                     workload>>
  BY DEF ReadApplication
<1>2. app \in [Apps -> ForwardApp \cup {NoApplication}]
  BY DEF Inv, TypeOK
<1>3. r \in Request /\ RequestOK(r)
  BY <1>1, <1>2 DEF Request, Updating, RequestOK
<1> HIDE DEF r
<1> QED BY <1>1, <1>2, <1>3, MoveKeeps

\* ... and writes a row.
LEMMA WriteApplicationKeeps ==
    ASSUME Inv, NEW p \in Requests, WriteApplication(p)
    PROVE  Inv'
<1> DEFINE r == req[p]
<1>1. r.pc = "update" /\ Goto(p, Idle)
      /\ UNCHANGED <<authVars, roles, nonces, cookie, handoff, stored, sessions, redeemed,
                     workload>>
  BY DEF WriteApplication
<1>2. app \in [Apps -> ForwardApp \cup {NoApplication}]
  BY DEF Inv, TypeOK
<1>3. r \in Updating
  BY <1>1, Registers DEF Inv
<1>4. r.row \in ForwardApp /\ r.app \in Apps
  BY <1>3 DEF Updating
<1> DEFINE Written(c) == {[r.row EXCEPT !.enabled = ~@],
                          [r.row EXCEPT !.required_roles = c.required_roles],
                          [r.row EXCEPT !.prefix = c.prefix],
                          [r.row EXCEPT !.hosts = c.hosts, !.literal = c.literal]}
<1>5. ASSUME NEW c \in ForwardApp PROVE Written(c) \subseteq ForwardApp
  <2>1. [r.row EXCEPT !.enabled = ~@] \in ForwardApp
    BY <1>4, Zenon DEF ForwardApp
  <2>2. [r.row EXCEPT !.required_roles = c.required_roles] \in ForwardApp
    BY <1>4 DEF ForwardApp
  <2>3. [r.row EXCEPT !.prefix = c.prefix] \in ForwardApp
    BY <1>4 DEF ForwardApp
  <2>4. [r.row EXCEPT !.hosts = c.hosts, !.literal = c.literal] \in ForwardApp
    BY <1>4 DEF ForwardApp
  <2> QED BY <2>1, <2>2, <2>3, <2>4
<1>6. PICK new \in ForwardApp :
         app' = IF app[r.app] = NoApplication THEN app ELSE [app EXCEPT ![r.app] = new]
  <2>1. PICK c \in Configurations : \E new \in Written(c) :
           app' = IF app[r.app] = NoApplication THEN app ELSE [app EXCEPT ![r.app] = new]
    BY DEF WriteApplication
  <2>2. c \in ForwardApp
    BY ForwardAssumption
  <2> HIDE DEF Written
  <2> QED BY <1>5, <2>1, <2>2
<1>7. app' \in [Apps -> ForwardApp \cup {NoApplication}]
  BY <1>2, <1>4, <1>6
<1> QED BY <1>1, <1>7, EndKeeps

\* What was derived from a credential stays so: credentials are never taken back.
LEMMA InMonotone ==
    ASSUME NEW cs, NEW ds, cs \subseteq ds, NEW g
    PROVE  (SessionIn(g, cs) => SessionIn(g, ds)) /\ (HandoffIn(g, cs) => HandoffIn(g, ds))
BY DEF SessionIn, HandoffIn

\* A step of the central sessions leaves everything derived from them in place.
LEMMA SessionStepKeeps ==
    ASSUME Inv, AuthorityTypeOK', [AuthorityNext]_authVars, UNCHANGED forwardVars
    PROVE  Inv'
<1>1. AuthorityTypeOK
  BY DEF Inv, TypeOK, AuthorityTypeOK
<1>2. CredentialsOK' /\ creds \subseteq creds'
  BY <1>1, CredentialsStep DEF Inv
<1>3. TypeOK'
  BY DEF Inv, TypeOK, AuthorityTypeOK, forwardVars
<1>4. HandoffsOK'
  BY <1>2, InMonotone DEF Inv, HandoffsOK, forwardVars
<1>5. RequestsOK'
  BY <1>2 DEF Inv, RequestsOK, RequestOK, Began, forwardVars
<1>6. SessionsOK'
  BY <1>2, InMonotone DEF Inv, SessionsOK, Delivered, Began, forwardVars
<1>7. NoncesOK' /\ RedemptionsOK'
  BY DEF Inv, NoncesOK, RedemptionsOK, forwardVars
<1> QED BY <1>2, <1>3, <1>4, <1>5, <1>6, <1>7 DEF Inv

\* A login.
LEMMA SignedInKeeps ==
    ASSUME Inv, NEW u \in Users, NEW n \in Logins, SignedIn(n, u)
    PROVE  Inv'
<1> DEFINE d(v) == [login |-> n, user |-> u, iat |-> now,
                    exp |-> Lesser(now + AccessLifetime, now + SessionExpiry),
                    session_exp |-> now + SessionExpiry, session_version |-> v,
                    auth_time |-> now]
<1>1. PICK v \in 0 .. token_version[u] : SignIn(d(v)) /\ UNCHANGED forwardVars
  BY DEF SignedIn
<1>2. AuthorityTypeOK
  BY DEF Inv, TypeOK, AuthorityTypeOK
<1>3. now \in Nat /\ now + AccessLifetime \in Nat /\ now + SessionExpiry \in Nat
  <2>1. now \in Nat /\ AccessLifetime \in Nat /\ SessionExpiry \in Nat
    BY <1>2, ForwardAssumption DEF AuthorityTypeOK
  <2> QED BY <2>1
<1>4. v \in Nat
  BY <1>2 DEF AuthorityTypeOK
<1>5. d(v) \in Credential
  BY <1>3, <1>4, LesserType DEF Credential
<1> HIDE DEF d
<1>6. AuthorityTypeOK'
  BY <1>1, <1>2, <1>5, MintTypes
<1>7. AuthorityNext
  <2>1. d(v) \in creds'
    BY <1>1 DEF SignIn
  <2> QED BY <1>1, <2>1 DEF AuthorityNext
<1> QED BY <1>1, <1>6, <1>7, SessionStepKeeps

\* A refresh.
LEMMA RenewedKeeps ==
    ASSUME Inv, NEW c \in creds, Renewed(c)
    PROVE  Inv'
<1> DEFINE d == [c EXCEPT !.iat = now, !.exp = Lesser(now + AccessLifetime, c.session_exp),
                          !.session_version = RenewedVersion(c)]
<1>1. Renew(c, d) /\ UNCHANGED forwardVars
  BY DEF Renewed
<1>2. AuthorityTypeOK /\ c \in Credential
  BY DEF Inv, TypeOK, AuthorityTypeOK
<1>3. now \in Nat /\ now + AccessLifetime \in Nat
  <2>1. now \in Nat /\ AccessLifetime \in Nat
    BY <1>2, ForwardAssumption DEF AuthorityTypeOK
  <2> QED BY <2>1
<1>4. Lesser(now + AccessLifetime, c.session_exp) \in Nat
  BY <1>2, <1>3, LesserType DEF Credential
<1>5. RenewedVersion(c) \in Nat
  BY <1>2 DEF RenewedVersion, Credential
<1>6. d \in Credential
  BY <1>2, <1>3, <1>4, <1>5 DEF Credential
<1> HIDE DEF d
<1>7. AuthorityTypeOK'
  BY <1>1, <1>2, <1>6, MintTypes
<1>8. AuthorityNext
  <2>1. d \in creds'
    BY <1>1 DEF Renew
  <2> QED BY <1>1, <2>1 DEF AuthorityNext
<1> QED BY <1>1, <1>7, <1>8, SessionStepKeeps

\* Revocation, deactivation and the clock.
LEMMA AccountKeeps ==
    ASSUME Inv, TimePasses \/ \E u \in Users : Revoked(u) \/ ActiveSet(u)
    PROVE  Inv'
<1>1. Tick \/ \E u \in Users : Revoke(u) \/ SetActive(u)
  BY DEF TimePasses, Revoked, ActiveSet
<1>2. UNCHANGED forwardVars
  BY DEF TimePasses, Revoked, ActiveSet
<1>3. AuthorityTypeOK
  BY DEF Inv, TypeOK, AuthorityTypeOK
<1>4. AuthorityTypeOK' /\ AuthorityNext
  BY <1>1, <1>3, RevokeTypes DEF AuthorityNext
<1> QED BY <1>2, <1>4, SessionStepKeeps

-----------------------------------------------------------------------------
(* The invariant *)

\* A fresh installation.
LEMMA InitInv == Init => Inv
<1> SUFFICES ASSUME Init PROVE Inv
  OBVIOUS
<1>1. AuthorityTypeOK /\ CredentialsOK
  BY AuthorityInitOK DEF Init
<1>2. TypeOK
  BY <1>1, IdleIsFine, ForwardAssumption DEF Init, AuthorityTypeOK, TypeOK
<1>3. NoncesOK /\ HandoffsOK /\ SessionsOK /\ RedemptionsOK
  BY DEF Init, NoncesOK, HandoffsOK, SessionsOK, RedemptionsOK
<1>4. RequestsOK
  BY IdleIsFine DEF Init, RequestsOK
<1> QED BY <1>1, <1>2, <1>3, <1>4 DEF Inv

\* What is in use are browsers, rows and paths.
LEMMA WorkloadType ==
    ASSUME TypeOK
    PROVE  /\ workload.browsers \subseteq Browsers /\ workload.apps \subseteq Apps
           /\ workload.paths \subseteq Paths
           /\ Targets \subseteq Target /\ \A t \in Targets : t.path \in Paths
BY ForwardAssumption DEF TypeOK, Targets, Target, AllPaths

\* The states about are states.
LEMMA SeenType ==
    ASSUME TypeOK
    PROVE  Seen \subseteq Nonces
<1>1. \A b \in Browsers : \A x \in nonces[b] : x[2] \in Nonces
  BY DEF TypeOK
<1>2. \A h \in Handoffs : handoff[h] # NoHandoff => handoff[h].state \in Nonces
  BY DEF TypeOK, Handoff
<1>3. \A p \in Requests : req[p].pc \in {"verify", "insert"} => req[p].state \in Nonces
  BY Registers DEF Redirecting
<1> QED BY <1>1, <1>2, <1>3 DEF Seen

\* Every step keeps the invariant.
LEMMA StepInv == Inv /\ [Next]_vars => Inv'
<1> SUFFICES ASSUME Inv, [Next]_vars PROVE Inv'
  OBVIOUS
<1>1. CASE UNCHANGED vars
  <2>1. UNCHANGED <<authVars, forwardVars>>
    BY <1>1 DEF vars
  <2>2. AuthorityTypeOK'
    BY <2>1, RevokeTypes DEF Inv, TypeOK, AuthorityTypeOK
  <2> QED BY <2>1, <2>2, SessionStepKeeps
<1>2. /\ workload.browsers \subseteq Browsers /\ workload.apps \subseteq Apps
      /\ Targets \subseteq Target /\ \A t \in Targets : t.path \in Paths
  BY WorkloadType DEF Inv
<1>a. States \subseteq Nonces
  BY SeenType DEF States, Inv
<1>3. ASSUME NEW p \in Requests, RequestStart(p) PROVE Inv'
  BY <1>2, <1>3, <1>a, RedirectKeeps, CallbackKeeps, ReadApplicationKeeps DEF RequestStart
<1>4. ASSUME NEW p \in Requests, RequestStep(p) PROVE Inv'
  <2>1. CASE Abort(p)
    <3>1. app \in [Apps -> ForwardApp \cup {NoApplication}]
      BY DEF Inv, TypeOK
    <3> QED BY <2>1, <3>1, EndKeeps DEF Abort
  <2> QED BY <1>4, <2>1, VerifyParentKeeps, InsertHandoffKeeps, ConsumeHandoffKeeps,
             CheckPolicyKeeps, DeliverKeeps, WriteApplicationKeeps DEF RequestStep
<1> QED BY <1>1, <1>2, <1>3, <1>4, <1>a, StartKeeps, RenewedKeeps, RowKeeps, ChangeRolesKeeps,
           AccountKeeps, SignedInKeeps, SweepKeeps DEF Next

\* The invariant holds at all times.
THEOREM Invariance == Spec => []Inv
<1>1. Init => Inv
  BY InitInv
<1>2. Inv /\ [Next]_vars => Inv'
  BY StepInv
<1> QED BY <1>1, <1>2, PTL DEF Spec

\* Rows, cookies, claims and registers have their types: find_matching answers
\* with a row that exists, and a callback never reads the claims of a handoff that
\* was not signed.
THEOREM TypeCorrect == Spec => []TypeOK
<1>1. Inv => TypeOK
  BY DEF Inv
<1> QED BY <1>1, Invariance, PTL

\* redeem_handoff lets one callback through per handoff, however many have verified
\* it and whatever the sweep and issue_handoff delete in between.
THEOREM HandoffsAreSingleUse == Spec => []HandoffRedeemedOnce
<1>1. Inv => HandoffRedeemedOnce
  BY DEF Inv, RedemptionsOK, HandoffRedeemedOnce
<1> QED BY <1>1, Invariance, PTL

\* verify_auth accepts no forward session of a login that was revoked, also when
\* the callback had verified or consumed its handoff before the revocation.
THEOREM RevocationIsFinal == Spec => []RevocationReachesForward
<1>1. ASSUME Inv PROVE RevocationReachesForward
  <2> SUFFICES ASSUME NEW x \in sessions, x[2].login \in dead, NEW t \in Targets,
                      Verified(x[2], t)
               PROVE  FALSE
    BY DEF RevocationReachesForward
  <2>1. PICK c \in creds : DerivedFrom(x[2], c)
    BY <1>1 DEF Inv, SessionsOK, SessionIn
  <2>2. SessionOk(c.user, c.iat, c.session_version) /\ c.login \in dead
    BY <2>1 DEF Verified, VerifySession, DerivedFrom
  <2>3. AuthorityTypeOK /\ CredentialsOK
    BY <1>1 DEF Inv, TypeOK, AuthorityTypeOK
  <2> QED BY <2>2, <2>3, RevokedIsRefused
<1> QED BY <1>1, Invariance, PTL

\* issue_handoff gives neither the handoff nor the session more time than the
\* session they are derived from has left.
THEOREM ForwardEndsWithSession == Spec => []ForwardWithinSession
<1>1. ASSUME Inv PROVE ForwardWithinSession
  <2>1. ASSUME NEW x \in sessions
        PROVE  \E c \in creds : c.login = x[2].login /\ c.user = x[2].user
                                /\ x[2].exp <= c.session_exp
    <3>1. PICK c \in creds : DerivedFrom(x[2], c)
      BY <1>1 DEF Inv, SessionsOK, SessionIn
    <3> QED BY <3>1 DEF DerivedFrom
  <2>2. ASSUME NEW h \in Handoffs, handoff[h] # NoHandoff
        PROVE  \E c \in creds : c.login = handoff[h].session.login
                                /\ handoff[h].exp <= c.session_exp
    <3>1. PICK c \in creds : DerivedFrom(handoff[h].session, c) /\ handoff[h].exp <= c.session_exp
      BY <1>1, <2>2 DEF Inv, HandoffsOK, HandoffIn
    <3> QED BY <3>1 DEF DerivedFrom
  <2> QED BY <2>1, <2>2 DEF ForwardWithinSession
<1> QED BY <1>1, Invariance, PTL

\* Whatever links browsers follow, a forward session is delivered only to the one
\* browser that forward_auth_start gave the state of its handoff to, on the host
\* it is for: redeem_handoff compares the state with the cookie.
THEOREM SessionsAreBound == Spec => []SessionsStartInTheirBrowser
<1>1. ASSUME Inv PROVE SessionsStartInTheirBrowser
  <2> SUFFICES ASSUME NEW x \in sessions
               PROVE  \E h \in Handoffs :
                         /\ redeemed[h] > 0
                         /\ handoff[h].session = x[2]
                         /\ \A b \in Browsers :
                               <<x[2].aud, handoff[h].state>> \in nonces[b] <=> b = x[1]
    BY DEF SessionsStartInTheirBrowser
  <2>1. Delivered(x) /\ x[1] \in Browsers
    BY <1>1 DEF Inv, SessionsOK, TypeOK
  <2>2. PICK h \in Handoffs : /\ handoff[h].session = x[2] /\ redeemed[h] > 0
                              /\ Began(x[1], handoff[h])
    BY <2>1 DEF Delivered
  <2> DEFINE n == <<x[2].aud, handoff[h].state>>
  <2>3. n \in nonces[x[1]]
    BY <2>2 DEF Began
  <2>4. \A b \in Browsers : n \in nonces[b] => b = x[1]
    BY <1>1, <2>1, <2>3 DEF Inv, NoncesOK
  <2> QED BY <2>2, <2>3, <2>4
<1> QED BY <1>1, Invariance, PTL

\* find_matching picks the most specific enabled policy, whatever is in the table
\* and in whatever order it is listed.
THEOREM PolicyIsMostSpecific == Spec => []MostSpecificPolicyDecides
<1>1. TypeOK => MostSpecificPolicyDecides
  <2> SUFFICES ASSUME TypeOK, NEW listing \in Listings, NEW host, NEW path, NEW a \in Apps
               PROVE  FindMatching(app, listing, host, path) = a <=> Decides(app, host, path, a)
    BY DEF MostSpecificPolicyDecides
  <2>1. app \in [Apps -> ForwardApp \cup {NoApplication}]
    BY DEF TypeOK
  <2> QED BY <2>1, FindMatchingDecides
<1> QED BY <1>1, TypeCorrect, PTL

\* Both stages, url::Url::parse and normalize_policy_path, resolve the dot segments
\* as brackets are matched, for segments of any number, order and encoding: what
\* forward_redirect was let go on with is the path of the names that survive, and
\* the callback, which parses the parsed path again, judges the same.
THEOREM PathsAreCanonical == Spec => []PolicyPathIsCanonical
<1>1. ASSUME Inv PROVE PolicyPathIsCanonical
  <2> SUFFICES ASSUME NEW p \in Requests, req[p].pc \in {"verify", "insert"}
               PROVE  LET path == req[p].target.path
                          segs == Decoded(path)
                      IN  /\ \A i \in DOMAIN path : path[i].depth <= DecodeRounds
                          /\ \A i \in DOMAIN segs : segs[i] = "" => i = Len(segs)
                          /\ \E kept \in Survivors(Names, {".."}, segs) :
                                PolicyPath[path] = Joined(kept) \o
                                    (IF kept # <<>> /\ Last(segs) = "" THEN <<"/">> ELSE <<>>)
                          /\ \A sent \in workload.paths : ParsedPath[sent] = path =>
                                /\ \E kept \in Survivors(Kept, DoubleDots, sent) :
                                      path = kept \o FinalSlash(sent)
                                /\ PolicyPath[sent] = PolicyPath[path]
    BY DEF PolicyPathIsCanonical
  <2> DEFINE path == req[p].target.path
  <2>1. TypeOK /\ RequestOK(req[p])
    BY <1>1 DEF Inv, RequestsOK
  <2>2. path \in {UrlPath(sent) : sent \in Paths} /\ NormalizePolicyPath(path) # Refused
    BY <2>1 DEF RequestOK
  <2> HIDE DEF path
  <2>3. path \in Seq(Kept) /\ UrlPath(path) = path /\ path \in AllPaths
    BY <2>2, ParsedIsCanonical DEF AllPaths
  <2>4. path \in Seq(Piece)
    BY <2>3 DEF Kept
  <2>5. PolicyPath[path] = NormalizePolicyPath(path)
    BY <2>3 DEF PolicyPath, ParsedPath
  <2>6. ASSUME NEW sent \in workload.paths, ParsedPath[sent] = path
        PROVE  /\ \E kept \in Survivors(Kept, DoubleDots, sent) : path = kept \o FinalSlash(sent)
               /\ PolicyPath[sent] = PolicyPath[path]
    <3>1. sent \in Paths /\ sent \in AllPaths
      BY <2>1, WorkloadType DEF AllPaths
    <3>2. path = UrlPath(sent)
      BY <2>6, <3>1 DEF ParsedPath
    <3>3. PolicyPath[sent] = NormalizePolicyPath(path)
      BY <2>6, <3>1 DEF PolicyPath
    <3> QED BY <2>5, <3>1, <3>2, <3>3, ParsedIsCanonical
  <2>7. LET segs == Decoded(path) IN
        /\ \A i \in DOMAIN path : path[i].depth <= DecodeRounds
        /\ \A i \in DOMAIN segs : segs[i] = "" => i = Len(segs)
        /\ \E kept \in Survivors(Names, {".."}, segs) :
              NormalizePolicyPath(path) = Joined(kept) \o
                  (IF kept # <<>> /\ Last(segs) = "" THEN <<"/">> ELSE <<>>)
    BY <2>2, <2>4, PathIsCanonical
  <2> QED BY <2>5, <2>6, <2>7 DEF path
<1> QED BY <1>1, Invariance, PTL

=============================================================================
