------------------------------ MODULE LdapLemmas ------------------------------
(***************************************************************************)
(* What the operators of LdapSearch and Ber compute, for every input: the   *)
(* search and the substring filter against the reference of LdapSearch, the *)
(* frame check and the codec's decision against that of Ber.                *)
(***************************************************************************)
EXTENDS Ber, LdapSearch, FiniteSetTheorems, SequenceTheorems, NaturalsInduction,
        WellFoundedInduction, TLAPS

-----------------------------------------------------------------------------
(* Induction and sequences *)

\* Every set of natural numbers that is not empty has a least element.
LEMMA NatMin ==
    ASSUME NEW T \in SUBSET Nat, T # {}
    PROVE  \E n \in T : \A m \in T : n <= m
<1> DEFINE R == OpToRel(<, Nat)
<1>1. IsWellFoundedOn(R, Nat)
  BY NatLessThanWellFounded
<1>2. \A x, y \in Nat : <<y, x>> \in R <=> y < x
  BY DEF OpToRel
<1> HIDE DEF R
<1>3. PICK x \in T : \A y \in T : ~ (<<y, x>> \in R)
  BY <1>1, WFMin
<1>4. \A y \in T : y \in Nat /\ x \in Nat /\ ~(y < x)
  BY <1>2, <1>3
<1>5. \A y \in T : x <= y
  BY <1>4
<1> QED BY <1>5

\* A set of numbers that holds 0 and with every number the next one is Nat.
LEMMA NatInd ==
    ASSUME NEW S \in SUBSET Nat, 0 \in S, \A n \in S : n + 1 \in S
    PROVE  S = Nat
<1> SUFFICES ASSUME S # Nat PROVE FALSE
  OBVIOUS
<1> DEFINE T == Nat \ S
<1>1. T # {} /\ T \in SUBSET Nat
  OBVIOUS
<1> HIDE DEF T
<1>2. PICK n \in T : \A m \in T : n <= m
  BY <1>1, NatMin
<1>3. n \in Nat /\ n # 0
  BY <1>1, <1>2 DEF T
<1>4. n - 1 \in Nat /\ ~(n <= n - 1) /\ (n - 1) + 1 = n
  BY <1>3
<1>5. n - 1 \in S
  BY <1>4, <1>2 DEF T
<1> QED BY <1>5, <1>4, <1>2 DEF T

\* What Max chooses.
LEMMA MaxIs ==
    ASSUME NEW S \in SUBSET Int, NEW m \in S, \A y \in S : m >= y
    PROVE  Max(S) = m
<1> DEFINE P(x) == x \in S /\ \A y \in S : x >= y
<1>1. P(m)
  OBVIOUS
<1>2. \A x : P(x) => x = m
  <2> SUFFICES ASSUME NEW x, P(x) PROVE x = m
    OBVIOUS
  <2>1. x \in Int /\ m \in Int /\ x >= m /\ m >= x
    OBVIOUS
  <2> QED BY <2>1
<1>3. Max(S) = CHOOSE x : P(x)
  BY DEF Max
<1> HIDE DEF P
<1> QED BY <1>1, <1>2, <1>3

\* A sequence is a function on 1..Len(s).
LEMMA SequenceIs ==
    ASSUME NEW s, IsSequence(s)
    PROVE  /\ Len(s) \in Nat /\ DOMAIN s = 1..Len(s)
           /\ s = [i \in 1..Len(s) |-> s[i]]
<1> DEFINE S == {s[i] : i \in DOMAIN s}
<1>1. s \in Seq(S)
  BY DEF IsSequence
<1> HIDE DEF S
<1>2. Len(s) \in Nat /\ s \in [1..Len(s) -> S]
  BY <1>1, LenProperties
<1> QED BY <1>2

\* A function on 1..n is a sequence of length n.
LEMMA IsSequenceOf ==
    ASSUME NEW n \in Nat, NEW s, s = [i \in 1..n |-> s[i]]
    PROVE  IsSequence(s) /\ Len(s) = n
<1> DEFINE S == {s[i] : i \in DOMAIN s}
<1>1. DOMAIN s = 1..n
  OBVIOUS
<1>2. \A i \in 1..n : s[i] \in S
  BY <1>1
<1> HIDE DEF S
<1>3. s \in [1..n -> S]
  BY <1>2
<1>4. s \in Seq(S)
  BY <1>3
<1>5. Len(s) = n
  BY <1>1, <1>4, LenProperties
<1> QED BY <1>4, <1>5 DEF IsSequence, S

\* Two sequences are the same if their lengths and members are.
LEMMA SameSequence ==
    ASSUME NEW s, NEW t, IsSequence(s), IsSequence(t), Len(s) = Len(t),
           \A i \in 1..Len(s) : s[i] = t[i]
    PROVE  s = t
<1>1. s = [i \in 1..Len(s) |-> s[i]] /\ t = [i \in 1..Len(s) |-> t[i]]
  BY SequenceIs
<1> QED BY <1>1

\* A stretch of a sequence.
LEMMA SubSeqIs ==
    ASSUME NEW s, NEW i \in Int, NEW j \in Int, i <= j + 1
    PROVE  /\ IsSequence(SubSeq(s, i, j)) /\ Len(SubSeq(s, i, j)) = j - i + 1
           /\ \A k \in 1..(j - i + 1) : SubSeq(s, i, j)[k] = s[i + k - 1]
<1> DEFINE t == SubSeq(s, i, j)
           n == j - i + 1
<1>1. n \in Nat
  OBVIOUS
<1>2. t = [k \in 1..n |-> s[i + k - 1]]
  BY DEF SubSeq
<1> HIDE DEF t
<1>3. t = [k \in 1..n |-> t[k]] /\ \A k \in 1..n : t[k] = s[i + k - 1]
  BY <1>2
<1> HIDE DEF n
<1>4. IsSequence(t) /\ Len(t) = n
  BY <1>1, <1>3, IsSequenceOf
<1> QED BY <1>3, <1>4 DEF t, n

\* A member put before a sequence.
LEMMA ConsIs ==
    ASSUME NEW e, NEW s, IsSequence(s)
    PROVE  /\ IsSequence(<<e>> \o s) /\ Len(<<e>> \o s) = Len(s) + 1
           /\ \A i \in 1..Len(s) : (<<e>> \o s)[i + 1] = s[i]
<1> DEFINE S == {s[i] : i \in DOMAIN s} \cup {e}
           t == <<e>> \o s
<1>1. s \in Seq(S)
  <2>1. s \in Seq({s[i] : i \in DOMAIN s})
    BY DEF IsSequence
  <2> QED BY <2>1, SeqMonotonic
<1>2. <<e>> \in Seq(S) /\ Len(<<e>>) = 1
  OBVIOUS
<1> HIDE DEF S
<1>3. /\ t \in Seq(S) /\ Len(t) = 1 + Len(s)
      /\ \A i \in 1..(1 + Len(s)) : t[i] = IF i <= 1 THEN <<e>>[i] ELSE s[i - 1]
  BY <1>1, <1>2, ConcatProperties
<1> HIDE DEF t
<1>4. Len(s) \in Nat
  BY SequenceIs
<1>5. \A i \in 1..Len(s) : t[i + 1] = s[i]
  <2> TAKE i \in 1..Len(s)
  <2>1. i + 1 \in 1..(1 + Len(s)) /\ ~(i + 1 <= 1) /\ (i + 1) - 1 = i
    BY <1>4
  <2> QED BY <1>3, <2>1
<1>6. t = [i \in 1..Len(t) |-> t[i]] /\ Len(t) \in Nat
  BY <1>3, LenProperties
<1>7. IsSequence(t)
  BY <1>6, IsSequenceOf
<1>8. Len(t) = Len(s) + 1
  BY <1>3, <1>4
<1> QED BY <1>5, <1>7, <1>8 DEF t

-----------------------------------------------------------------------------
(* The scope of a search *)

Scopes4 == {"base", "one", "subtree", "children"}

\* Below says of which DN a DN is how many levels below.
LEMMA BelowIs ==
    ASSUME NEW dn, IsSequence(dn), NEW base, IsSequence(base), NEW n \in Int
    PROVE  Below(dn, base, n) <=> IsUnder(dn, base) /\ Len(dn) - Len(base) = n
<1> DEFINE rest == SubSeq(dn, n + 1, Len(dn))
<1>1. /\ Len(dn) \in Nat /\ Len(base) \in Nat
      /\ DOMAIN base = 1..Len(base)
  BY SequenceIs
<1>2. CASE n \in 0..Len(dn)
  <2>1. n + 1 <= Len(dn) + 1 /\ Len(dn) - (n + 1) + 1 = Len(dn) - n
    BY <1>1, <1>2
  <2>2. /\ IsSequence(rest) /\ Len(rest) = Len(dn) - (n + 1) + 1
        /\ \A k \in 1..(Len(dn) - (n + 1) + 1) : rest[k] = dn[(n + 1) + k - 1]
    <3>1. Len(dn) \in Int /\ n + 1 \in Int
      BY <1>1
    <3> QED BY <2>1, <3>1, SubSeqIs
  <2>3. /\ Len(rest) = Len(dn) - n /\ DOMAIN rest = 1..(Len(dn) - n)
        /\ \A k \in 1..(Len(dn) - n) : rest[k] = dn[n + k]
    <3>1. \A k \in 1..(Len(dn) - n) : (n + 1) + k - 1 = n + k
      BY <1>1
    <3> HIDE DEF rest
    <3> QED BY <2>1, <2>2, <3>1, SequenceIs
  <2>4. Below(dn, base, n) <=> DnEquals(rest, base)
    BY <1>2 DEF Below
  <2> HIDE DEF rest
  <2>5. CASE Len(dn) - Len(base) = n
    <3>1. Len(base) = Len(dn) - n /\ Len(dn) >= Len(base)
      BY <1>1, <1>2, <2>5
    <3>2. DnEquals(rest, base) <=> \A i \in 1..Len(base) : SameRdn(rest[i], base[i])
      BY <2>3, <3>1 DEF DnEquals
    <3>3. IsUnder(dn, base) <=> \A i \in 1..Len(base) : SameRdn(dn[n + i], base[i])
      BY <1>1, <2>5, <3>1 DEF IsUnder
    <3> QED BY <2>3, <2>4, <2>5, <3>1, <3>2, <3>3
  <2>6. CASE Len(dn) - Len(base) # n
    <3>1. Len(rest) # Len(base)
      BY <1>1, <1>2, <2>3, <2>6
    <3> QED BY <2>4, <2>6, <3>1 DEF DnEquals
  <2> QED BY <2>5, <2>6
<1>3. CASE n \notin 0..Len(dn)
  <2>1. ~Below(dn, base, n)
    BY <1>3 DEF Below
  <2>2. IsUnder(dn, base) => Len(dn) - Len(base) # n
    BY <1>1, <1>3 DEF IsUnder
  <2> QED BY <2>1, <2>2
<1> QED BY <1>2, <1>3

\* A DN is its own.
LEMMA EqualsIs ==
    ASSUME NEW dn, IsSequence(dn), NEW base, IsSequence(base)
    PROVE  DnEquals(dn, base) <=> IsUnder(dn, base) /\ Len(dn) - Len(base) = 0
<1>1. /\ Len(dn) \in Nat /\ Len(base) \in Nat
      /\ DOMAIN base = 1..Len(base) /\ DOMAIN dn = 1..Len(dn)
  BY SequenceIs
<1>2. CASE Len(dn) = Len(base)
  <2>1. \A i : i \in 1..Len(base) => Len(dn) - Len(base) + i = i
    BY <1>1, <1>2
  <2>2. Len(dn) - Len(base) = 0 /\ Len(dn) >= Len(base)
    BY <1>1, <1>2
  <2> QED BY <1>1, <1>2, <2>1, <2>2 DEF DnEquals, IsUnder
<1>3. CASE Len(dn) # Len(base)
  <2>1. Len(dn) - Len(base) # 0
    <3>1. Len(dn) \in Nat /\ Len(base) \in Nat
      BY <1>1
    <3> QED BY <1>3, <3>1
  <2> QED BY <1>3, <2>1 DEF DnEquals
<1> QED BY <1>2, <1>3

\* handle_search's scopes are levels of the tree.
LEMMA ScopeIsLevels ==
    ASSUME NEW dn, IsSequence(dn), NEW base, IsSequence(base), NEW scope \in Scopes4
    PROVE  EntryInScope(dn, base, scope)
              <=> \E n \in Levels(scope) \cap (0..Len(dn)) : Below(dn, base, n)
<1> DEFINE d == Len(dn) - Len(base)
<1>1. /\ Len(dn) \in Nat /\ Len(base) \in Nat /\ d \in Int
      /\ IsUnder(dn, base) => d \in 0..Len(dn)
  BY SequenceIs DEF IsUnder
<1>2. Levels(scope) \subseteq Int
  BY DEF Levels, Scopes4
<1>3. (\E n \in Levels(scope) \cap (0..Len(dn)) : Below(dn, base, n))
         <=> IsUnder(dn, base) /\ d \in Levels(scope)
  <2>1. \A n \in Int : Below(dn, base, n) <=> IsUnder(dn, base) /\ d = n
    BY BelowIs
  <2> HIDE DEF d
  <2> QED BY <1>1, <1>2, <2>1
<1>4. EntryInScope(dn, base, scope) <=> IsUnder(dn, base) /\ d \in Levels(scope)
  <2>1. DnEquals(dn, base) <=> IsUnder(dn, base) /\ d = 0
    BY EqualsIs
  <2>2. DepthUnder(dn, base, 1) <=> IsUnder(dn, base) /\ d = 1
    BY DEF DepthUnder
  <2> HIDE DEF d
  <2>3. CASE scope = "base"
    BY <2>1, <2>3 DEF EntryInScope, Levels
  <2>4. CASE scope = "one"
    BY <2>2, <2>4 DEF EntryInScope, Levels
  <2>5. CASE scope = "subtree"
    BY <1>1, <2>5 DEF EntryInScope, Levels
  <2>6. CASE scope = "children"
    <3>1. IsUnder(dn, base) => (d \in Nat \ {0} <=> d # 0)
      BY <1>1
    <3>2. EntryInScope(dn, base, scope) <=> IsUnder(dn, base) /\ ~DnEquals(dn, base)
      BY <2>6 DEF EntryInScope
    <3>3. Levels(scope) = Nat \ {0}
      BY <2>6 DEF Levels
    <3> QED BY <2>1, <3>1, <3>2, <3>3
  <2> QED BY <2>3, <2>4, <2>5, <2>6 DEF Scopes4
<1> QED BY <1>3, <1>4

\* Case does not matter, whichever side it is on.
LEMMA SameRdnSymmetric ==
    ASSUME NEW a, NEW b
    PROVE  SameRdn(a, b) <=> SameRdn(b, a)
BY DEF SameRdn, SameName

\* A unit that is not looked into has no entry in the scope.
LEMMA SkippedHasNone ==
    ASSUME NEW unit, IsSequence(unit), NEW base, IsSequence(base), NEW scope \in Scopes4,
           NEW rdn, EntryInScope(<<rdn>> \o unit, base, scope)
    PROVE  Includes(unit, base, scope)
<1> DEFINE dn == <<rdn>> \o unit
<1>1. /\ Len(unit) \in Nat /\ Len(base) \in Nat
      /\ DOMAIN base = 1..Len(base) /\ DOMAIN unit = 1..Len(unit)
  BY SequenceIs
<1>2. /\ IsSequence(dn) /\ Len(dn) = Len(unit) + 1
      /\ \A i \in 1..Len(unit) : dn[i + 1] = unit[i]
  BY ConsIs
<1>3. EntryInScope(dn, base, scope)
  OBVIOUS
<1> HIDE DEF dn
<1>4. IsUnder(dn, base)
  <2>1. DnEquals(dn, base) => IsUnder(dn, base)
    BY <1>2, EqualsIs
  <2> QED BY <1>3, <2>1 DEF EntryInScope, DepthUnder, Scopes4
<1>5. /\ Len(dn) >= Len(base)
      /\ \A i \in 1..Len(base) : SameRdn(dn[Len(dn) - Len(base) + i], base[i])
  BY <1>1, <1>4 DEF IsUnder
<1>6. CASE Len(base) = Len(dn)
  <2>1. \A i \in 1..Len(unit) : SameRdn(base[1 + i], unit[i])
    <3> TAKE i \in 1..Len(unit)
    <3>1. i + 1 \in 1..Len(base) /\ Len(dn) - Len(base) + (i + 1) = i + 1 /\ 1 + i = i + 1
      BY <1>1, <1>2, <1>6
    <3>2. SameRdn(dn[i + 1], base[i + 1]) /\ dn[i + 1] = unit[i]
      BY <1>2, <1>5, <3>1
    <3> QED BY <3>1, <3>2, SameRdnSymmetric
  <2>2. Len(base) - Len(unit) = 1 /\ Len(base) >= Len(unit)
    BY <1>1, <1>2, <1>6
  <2>3. DepthUnder(base, unit, 1)
    BY <1>1, <2>1, <2>2 DEF DepthUnder, IsUnder
  <2>4. scope # "one"
    <3>1. Len(dn) - Len(base) # 1
      BY <1>1, <1>2, <1>6
    <3> QED BY <1>3, <3>1 DEF EntryInScope, DepthUnder
  <2> QED BY <2>3, <2>4 DEF Includes, DepthUnder, Scopes4
<1>7. CASE Len(base) # Len(dn)
  <2>1. Len(base) <= Len(unit)
    <3>1. /\ Len(unit) \in Nat /\ Len(base) \in Nat /\ Len(dn) = Len(unit) + 1
          /\ Len(dn) >= Len(base)
      BY <1>1, <1>2, <1>5
    <3> QED BY <1>7, <3>1
  <2>2. \A i \in 1..Len(base) : SameRdn(unit[Len(unit) - Len(base) + i], base[i])
    <3> TAKE i \in 1..Len(base)
    <3> DEFINE j == Len(unit) - Len(base) + i
    <3>1. j \in 1..Len(unit) /\ Len(dn) - Len(base) + i = j + 1
      BY <1>1, <1>2, <2>1
    <3> HIDE DEF j
    <3>2. SameRdn(dn[j + 1], base[i]) /\ dn[j + 1] = unit[j]
      BY <1>2, <1>5, <3>1
    <3> QED BY <3>2 DEF j
  <2>3. IsUnder(unit, base)
    BY <1>1, <2>1, <2>2 DEF IsUnder
  <2>4. scope # "base"
    <3>1. ~DnEquals(dn, base)
      BY <1>7 DEF DnEquals
    <3> QED BY <1>3, <3>1 DEF EntryInScope
  <2>5. scope = "one" => DnEquals(base, unit)
    <3> SUFFICES ASSUME scope = "one" PROVE DnEquals(base, unit)
      OBVIOUS
    <3>1. Len(dn) - Len(base) = 1
      BY <1>3 DEF EntryInScope, DepthUnder
    <3>2. Len(base) = Len(unit)
      <4>1. Len(unit) \in Nat /\ Len(base) \in Nat /\ Len(dn) = Len(unit) + 1
        BY <1>1, <1>2
      <4> QED BY <3>1, <4>1
    <3>3. \A i \in 1..Len(base) : Len(unit) - Len(base) + i = i
      BY <1>1, <3>2
    <3>4. \A i \in 1..Len(base) : SameRdn(base[i], unit[i])
      BY <2>2, <3>3, SameRdnSymmetric
    <3> QED BY <1>1, <3>2, <3>4 DEF DnEquals
  <2> QED BY <2>3, <2>4, <2>5 DEF Includes, Scopes4
<1> QED BY <1>6, <1>7

-----------------------------------------------------------------------------
(* The substring filter *)

\* Lower case has the length of the name.
LEMMA LowerIs ==
    ASSUME NEW s, IsSequence(s)
    PROVE  IsSequence(Lower(s)) /\ Len(Lower(s)) = Len(s)
<1>1. Len(s) \in Nat /\ DOMAIN s = 1..Len(s)
  BY SequenceIs
<1> DEFINE t == Lower(s)
<1>2. t = [i \in 1..Len(s) |-> t[i]]
  BY <1>1 DEF Lower
<1> HIDE DEF t
<1>3. IsSequence(t) /\ Len(t) = Len(s)
  BY <1>1, <1>2, IsSequenceOf
<1> QED BY <1>3 DEF t

\* t is at the end of s.
LEMMA EndsWithIs ==
    ASSUME NEW s, IsSequence(s), NEW t, IsSequence(t)
    PROVE  EndsWith(s, t) <=> /\ Len(t) <= Len(s)
                              /\ \A i \in 1..Len(t) : t[Len(t) - i + 1] = s[Len(s) - i + 1]
<1> DEFINE a == Reverse(t)
           b == Reverse(s)
           n == Len(t)
           m == Len(s)
<1>1. n \in Nat /\ m \in Nat
  BY SequenceIs
<1>2. a = [i \in 1..n |-> t[(n - i) + 1]] /\ b = [i \in 1..m |-> s[(m - i) + 1]]
  BY DEF Reverse
<1>3. EndsWith(s, t) <=> Len(a) <= Len(b) /\ SubSeq(a, 1, Len(a)) = SubSeq(b, 1, Len(a))
  BY DEF EndsWith, IsSuffix, IsPrefix
<1> HIDE DEF a, b, n, m
<1>4. /\ \A i \in 1..n : a[i] = t[n - i + 1]
      /\ \A i \in 1..m : b[i] = s[m - i + 1]
  BY <1>2
<1>5. Len(a) = n /\ Len(b) = m
  <2>1. a = [i \in 1..n |-> a[i]] /\ b = [i \in 1..m |-> b[i]]
    BY <1>2
  <2> QED BY <1>1, <2>1, IsSequenceOf
<1>6. 1 <= n + 1 /\ n - 1 + 1 = n /\ 1 \in Int /\ n \in Int
  BY <1>1
<1>7. /\ IsSequence(SubSeq(a, 1, n)) /\ Len(SubSeq(a, 1, n)) = n
      /\ \A k \in 1..n : SubSeq(a, 1, n)[k] = a[1 + k - 1]
      /\ IsSequence(SubSeq(b, 1, n)) /\ Len(SubSeq(b, 1, n)) = n
      /\ \A k \in 1..n : SubSeq(b, 1, n)[k] = b[1 + k - 1]
  BY <1>6, SubSeqIs
<1>8. \A k \in 1..n : 1 + k - 1 = k
  BY <1>1
<1>9. SubSeq(a, 1, n) = SubSeq(b, 1, n) <=> \A k \in 1..n : a[k] = b[k]
  <2>1. ASSUME SubSeq(a, 1, n) = SubSeq(b, 1, n), NEW k \in 1..n PROVE a[k] = b[k]
    BY <1>7, <1>8, <2>1
  <2>2. ASSUME \A k \in 1..n : a[k] = b[k] PROVE SubSeq(a, 1, n) = SubSeq(b, 1, n)
    <3>1. \A k \in 1..n : SubSeq(a, 1, n)[k] = SubSeq(b, 1, n)[k]
      BY <1>7, <1>8, <2>2
    <3> QED BY <1>7, <3>1, SameSequence
  <2> QED BY <2>1, <2>2
<1>10. n <= m => \A k \in 1..n : k \in 1..m
  BY <1>1
<1> QED BY <1>3, <1>4, <1>5, <1>9, <1>10 DEF n, m

\* What is at the end of the rest is at the end of the whole, and fits in the rest.
LEMMA RestEndsWith ==
    ASSUME NEW s, IsSequence(s), NEW t, IsSequence(t), NEW c \in 0..Len(s)
    PROVE  EndsWith(SubSeq(s, c + 1, Len(s)), t) <=> c + Len(t) <= Len(s) /\ EndsWith(s, t)
<1> DEFINE u == SubSeq(s, c + 1, Len(s))
           n == Len(t)
           m == Len(s)
<1>1. n \in Nat /\ m \in Nat /\ c \in Nat /\ c <= m
  BY SequenceIs
<1>2. m \in Int /\ c + 1 \in Int /\ c + 1 <= m + 1 /\ m - (c + 1) + 1 = m - c
  BY <1>1
<1>3. /\ IsSequence(u) /\ Len(u) = m - (c + 1) + 1
      /\ \A k \in 1..(m - (c + 1) + 1) : u[k] = s[(c + 1) + k - 1]
  BY <1>2, SubSeqIs
<1> HIDE DEF u, n, m
<1>4. Len(u) = m - c /\ \A k \in 1..(m - c) : u[k] = s[c + k]
  <2>1. \A k \in 1..(m - c) : (c + 1) + k - 1 = c + k
    BY <1>1
  <2> QED BY <1>2, <1>3, <2>1
<1>5. EndsWith(u, t) <=> n <= m - c /\ \A i \in 1..n : t[n - i + 1] = u[(m - c) - i + 1]
  <2>1. EndsWith(u, t) <=> /\ Len(t) <= Len(u)
                           /\ \A i \in 1..Len(t) : t[Len(t) - i + 1] = u[Len(u) - i + 1]
    BY <1>3, EndsWithIs
  <2> QED BY <1>4, <2>1 DEF n
<1>6. EndsWith(s, t) <=> n <= m /\ \A i \in 1..n : t[n - i + 1] = s[m - i + 1]
  BY EndsWithIs DEF n, m
<1>7. (n <= m - c <=> c + n <= m) /\ (n <= m - c => n <= m)
  BY <1>1
<1>8. ASSUME n <= m - c, NEW i \in 1..n PROVE u[(m - c) - i + 1] = s[m - i + 1]
  <2>1. (m - c) - i + 1 \in 1..(m - c) /\ c + ((m - c) - i + 1) = m - i + 1
    BY <1>1, <1>8
  <2> QED BY <1>4, <2>1
<1>9. EndsWith(u, t) <=> c + n <= m /\ EndsWith(s, t)
  BY <1>5, <1>6, <1>7, <1>8
<1> QED BY <1>9 DEF u, n, m

\* The first place is one of them, and no other comes before.
LEMMA FindIsFirst ==
    ASSUME NEW places \in SUBSET Nat, places # {}
    PROVE  Find(places) \in places /\ \A j \in places : Find(places) <= j
<1>1. \E i \in places : \A j \in places : i <= j
  BY NatMin
<1> QED BY <1>1 DEF Find

\* The cursor moves from c to next, behind the first place of the part.
Advances(lower, c, any, next) ==
    LET places == Occurrences(lower, Lower(any), c) IN
    /\ next >= 0 => c >= 0 /\ next - Len(any) \in places
    /\ c >= 0 /\ places # {} => next >= 0 /\ \A i \in places : next <= i + Len(any)

\* One round of the loop.
LEMMA AdvanceIs ==
    ASSUME NEW lower, IsSequence(lower), NEW any, IsSequence(any), NEW c \in -1..Len(lower)
    PROVE  /\ Advance(lower, c, any) \in -1..Len(lower)
           /\ Advances(lower, c, any, Advance(lower, c, any))
<1> DEFINE places == Occurrences(lower, Lower(any), c)
           next == Advance(lower, c, any)
           n == Len(any)
           m == Len(lower)
<1>1. n \in Nat /\ m \in Nat /\ Len(Lower(any)) = n
  BY SequenceIs, LowerIs
<1>2. next = IF c < 0 \/ places = {} THEN -1 ELSE Find(places) + n
  BY DEF Advance
<1>3. places \subseteq c..(m - n)
  BY <1>1 DEF Occurrences
<1> HIDE DEF places, next, n, m
<1>4. CASE c < 0 \/ places = {}
  <2>1. next = -1 /\ -1 \in -1..m /\ ~(next >= 0)
    BY <1>1, <1>2, <1>4
  <2>2. ~(c >= 0 /\ places # {})
    BY <1>1, <1>4
  <2> QED BY <2>1, <2>2 DEF next, places, m, Advances
<1>5. CASE ~(c < 0 \/ places = {})
  <2>1. c \in Nat /\ places # {} /\ next = Find(places) + n
    BY <1>1, <1>2, <1>5
  <2>2. places \in SUBSET Nat
    BY <1>1, <1>3, <2>1
  <2>3. Find(places) \in places /\ \A j \in places : Find(places) <= j
    BY <2>1, <2>2, FindIsFirst
  <2> DEFINE f == Find(places)
  <2>4. f \in c..(m - n) /\ f \in Nat /\ next = f + n
    BY <1>3, <2>1, <2>2, <2>3
  <2> HIDE DEF f
  <2>5. next \in -1..m /\ next >= 0 /\ next - n = f /\ c >= 0
    BY <1>1, <2>1, <2>4
  <2>6. \A i \in places : next <= i + n
    <3> TAKE i \in places
    <3>1. i \in Nat /\ f <= i
      BY <2>2, <2>3 DEF f
    <3> QED BY <1>1, <2>4, <3>1
  <2> QED BY <2>3, <2>5, <2>6 DEF next, places, n, m, f, Advances
<1> QED BY <1>4, <1>5

\* c is the cursor of substring_matches after each of the first n parts.
Cursors(c, lower, first, any, n) ==
    /\ c[0] = first
    /\ \A k \in 1..n : c[k] = Advance(lower, c[k - 1], any[k])

LastCursor(lower, first, any) == FoldLeft(LAMBDA d, a : Advance(lower, d, a), first, any)

\* The cursor in the end is the one the loop leaves.
LEMMA LoopOfSubstring ==
    ASSUME NEW lower, NEW first, NEW n \in Nat, NEW any, DOMAIN any = 1..n
    PROVE  \E c : /\ Cursors(c, lower, first, any, n)
                  /\ LastCursor(lower, first, any) = c[n]
<1> DEFINE V(b, i) == Advance(lower, b, any[i])
           Def(g, s) == IF s = {} THEN first ELSE V(g[s \ {Max(s)}], Max(s))
           Solves(g, k) == g = [s \in SUBSET (1..k) |-> Def(g, s)]
           Solvable == {k \in Nat : \E g : Solves(g, k)}
<1> HIDE DEF V
<1>1. 0 \in Solvable
  <2> DEFINE g == [s \in SUBSET (1..0) |-> first]
  <2>1. \A s \in SUBSET (1..0) : s = {}
    OBVIOUS
  <2>2. g = [s \in SUBSET (1..0) |-> Def(g, s)]
    BY <2>1
  <2> QED BY <2>2
<1>2. ASSUME NEW k \in Solvable PROVE k + 1 \in Solvable
  <2>1. PICK g : Solves(g, k)
    OBVIOUS
  <2> DEFINE h == [s \in SUBSET (1..(k + 1)) |->
                     IF k + 1 \in s THEN V(g[s \ {k + 1}], k + 1) ELSE g[s]]
  <2>2. ASSUME NEW s \in SUBSET (1..(k + 1)) PROVE h[s] = Def(h, s)
    <3>1. CASE k + 1 \in s
      <4>1. \A y \in s : k + 1 >= y
        OBVIOUS
      <4>2. Max(s) = k + 1
        BY <3>1, <4>1, MaxIs
      <4>3. s \ {k + 1} \in SUBSET (1..(k + 1)) /\ k + 1 \notin s \ {k + 1}
        OBVIOUS
      <4>4. h[s \ {k + 1}] = g[s \ {k + 1}]
        BY <4>3
      <4> QED BY <3>1, <4>2, <4>4
    <3>2. CASE k + 1 \notin s
      <4>1. s \in SUBSET (1..k)
        BY <3>2
      <4>2. g[s] = Def(g, s)
        BY <2>1, <4>1
      <4>3. s \ {Max(s)} \in SUBSET (1..(k + 1)) /\ k + 1 \notin s \ {Max(s)}
        BY <3>2
      <4>4. h[s \ {Max(s)}] = g[s \ {Max(s)}]
        BY <4>3
      <4>5. h[s] = g[s]
        BY <3>2
      <4> QED BY <4>2, <4>4, <4>5
    <3> QED BY <3>1, <3>2
  <2>3. h = [s \in SUBSET (1..(k + 1)) |-> h[s]]
    OBVIOUS
  <2> HIDE DEF h
  <2>4. Solves(h, k + 1)
    BY <2>2, <2>3
  <2>5. k + 1 \in Nat
    OBVIOUS
  <2> QED BY <2>4, <2>5
<1>3. n \in Solvable
  <2> HIDE DEF Solvable
  <2>1. Solvable \in SUBSET Nat
    BY DEF Solvable
  <2> QED BY <1>1, <1>2, <2>1, NatInd
<1> DEFINE iter == CHOOSE g : Solves(g, n)
<1>4. Solves(iter, n)
  <2>1. \E g : Solves(g, n)
    BY <1>3
  <2> HIDE DEF Solves
  <2> QED BY <2>1
<1>5. LastCursor(lower, first, any) = iter[1..n]
  BY DEF LastCursor, FoldLeft, MapThenFoldSet, V
<1> HIDE DEF iter
<1> DEFINE c == [k \in 0..n |-> iter[1..k]]
<1>6. c[0] = first
  <2>1. 1..0 = {} /\ 0 \in 0..n /\ {} \in SUBSET (1..n)
    OBVIOUS
  <2> QED BY <1>4, <2>1
<1>7. ASSUME NEW k \in 1..n PROVE c[k] = V(c[k - 1], k)
  <2>1. /\ 1..k \in SUBSET (1..n) /\ 1..k \in SUBSET Int
        /\ k \in 1..k /\ \A y \in 1..k : k >= y
    OBVIOUS
  <2>2. Max(1..k) = k
    BY <2>1, MaxIs
  <2>3. (1..k) \ {k} = 1..(k - 1) /\ 1..k # {}
    OBVIOUS
  <2>4. iter[1..k] = V(iter[1..(k - 1)], k)
    BY <1>4, <2>1, <2>2, <2>3
  <2>5. k \in 0..n /\ k - 1 \in 0..n
    OBVIOUS
  <2> QED BY <2>4, <2>5
<1>8. c[n] = iter[1..n]
  OBVIOUS
<1> HIDE DEF c
<1>9. Cursors(c, lower, first, any, n)
  BY <1>6, <1>7 DEF Cursors, V
<1> QED BY <1>5, <1>8, <1>9

\* The end of part i when the parts begin at `at'.
EndOf(f, at, i) == IF i = 0 THEN Len(f.initial) ELSE at[i] + Len(f.any[i])

\* The parts lie one behind the other, each where it begins.
PartsAt(lower, f, at) ==
    \A i \in DOMAIN f.any :
        /\ at[i] >= EndOf(f, at, i - 1) /\ EndOf(f, at, i) <= Len(lower)
        /\ SubSeq(lower, at[i] + 1, EndOf(f, at, i)) = Lower(f.any[i])

\* Taking each part at its first place finds a cut whenever there is one.
LEMMA SubstringIsCut ==
    ASSUME NEW name, IsSequence(name), NEW f, AtomParses(f), f.op = "substring"
    PROVE  SubstringMatches(name, f) <=> Cut(name, f)
<1> DEFINE lower == Lower(name)
           m == Len(name)
           any == f.any
           n == Len(any)
           first == Len(f.initial)
           final == Lower(f.final)
<1>1. /\ IsSequence(f.initial) /\ IsSequence(any) /\ IsSequence(f.final)
      /\ \A i \in DOMAIN any : IsSequence(any[i])
  BY DEF AtomParses
<1>2. n \in Nat /\ DOMAIN any = 1..n /\ m \in Nat /\ first \in Nat
  BY <1>1, SequenceIs
<1>3. IsSequence(lower) /\ Len(lower) = m
  BY LowerIs
<1>4. IsSequence(final) /\ Len(final) = Len(f.final)
  BY <1>1, LowerIs
<1> DEFINE prefix == StartsWith(lower, Lower(f.initial))
<1>5. prefix => first <= m
  <2>1. Len(Lower(f.initial)) = first
    BY <1>1, LowerIs
  <2> QED BY <1>3, <2>1 DEF StartsWith, IsPrefix
<1>6. PICK c : /\ Cursors(c, lower, first, any, n)
               /\ LastCursor(lower, first, any) = c[n]
  BY <1>2, LoopOfSubstring
<1>7. SubstringMatches(name, f) <=>
         prefix /\ c[n] >= 0 /\ EndsWith(SubSeq(lower, c[n] + 1, Len(lower)), final)
  BY <1>6 DEF SubstringMatches, LastCursor
<1>8. Cut(name, f) <=>
         \E at \in [1..n -> 0..m] :
            /\ prefix /\ PartsAt(lower, f, at)
            /\ EndOf(f, at, n) + Len(f.final) <= m /\ EndsWith(lower, final)
  <2>1. ASSUME NEW at
        PROVE  PartsAt(lower, f, at) <=>
                 \A i \in DOMAIN f.any :
                    /\ at[i] >= EndOf(f, at, i - 1) /\ EndOf(f, at, i) <= m
                    /\ SubSeq(lower, at[i] + 1, EndOf(f, at, i)) = Lower(f.any[i])
    BY <1>3 DEF PartsAt
  <2>2. ASSUME NEW at, NEW i \in DOMAIN f.any
        PROVE  EndOf(f, at, i) = IF i = 0 THEN Len(f.initial) ELSE at[i] + Len(f.any[i])
    BY DEF EndOf
  <2> QED BY <1>2, <2>1 DEF Cut, EndOf
<1> HIDE DEF lower, m, any, n, first, final, prefix
<1>9. SUFFICES ASSUME prefix PROVE SubstringMatches(name, f) <=> Cut(name, f)
  BY <1>7, <1>8
<1>10. /\ c[0] = first
       /\ \A k \in 1..n : c[k] = Advance(lower, c[k - 1], any[k])
  BY <1>6 DEF Cursors
<1>11. \A k \in 0..n : c[k] \in -1..m
  <2> DEFINE S == {k \in Nat : k <= n => c[k] \in -1..m}
  <2>1. 0 \in S
    BY <1>2, <1>5, <1>9, <1>10
  <2>2. ASSUME NEW k \in S PROVE k + 1 \in S
    <3> SUFFICES ASSUME k + 1 <= n PROVE c[k + 1] \in -1..m
      OBVIOUS
    <3>1. k + 1 \in 1..n /\ (k + 1) - 1 = k /\ k <= n
      BY <1>2
    <3>2. c[k + 1] = Advance(lower, c[k], any[k + 1]) /\ c[k] \in -1..m /\ IsSequence(any[k + 1])
      BY <1>1, <1>2, <1>10, <3>1
    <3> QED BY <1>3, <3>2, AdvanceIs
  <2>3. S = Nat
    <3>1. S \in SUBSET Nat
      OBVIOUS
    <3> HIDE DEF S
    <3> QED BY <2>1, <2>2, <3>1, NatInd
  <2>4. \A k \in 0..n : k \in Nat /\ k <= n
    BY <1>2
  <2> QED BY <2>3, <2>4
<1>12. ASSUME NEW k \in 1..n
       PROVE  Advances(lower, c[k - 1], any[k], c[k])
  <2>1. c[k] = Advance(lower, c[k - 1], any[k]) /\ IsSequence(any[k])
    BY <1>1, <1>2, <1>10
  <2>2. k - 1 \in 0..n
    BY <1>2
  <2>3. c[k - 1] \in -1..Len(lower)
    BY <1>3, <1>11, <2>2
  <2> QED BY <1>3, <2>1, <2>3, AdvanceIs
<1>13. c[n] \in -1..m
  BY <1>2, <1>11
<1>14. c[n] >= 0 =>
          (EndsWith(SubSeq(lower, c[n] + 1, Len(lower)), final)
             <=> c[n] + Len(f.final) <= m /\ EndsWith(lower, final))
  <2> SUFFICES ASSUME c[n] >= 0
               PROVE  EndsWith(SubSeq(lower, c[n] + 1, Len(lower)), final)
                        <=> c[n] + Len(final) <= Len(lower) /\ EndsWith(lower, final)
    BY <1>3, <1>4
  <2>1. c[n] \in 0..Len(lower)
    BY <1>2, <1>3, <1>13
  <2> QED BY <1>3, <1>4, <2>1, RestEndsWith
<1>15. ASSUME NEW k \in 1..n
       PROVE  /\ Len(any[k]) \in Nat /\ Len(Lower(any[k])) = Len(any[k])
              /\ any[k] = f.any[k]
  BY <1>1, <1>2, SequenceIs, LowerIs DEF any
<1>16. ASSUME SubstringMatches(name, f) PROVE Cut(name, f)
  <2>1. c[n] >= 0 /\ c[n] + Len(f.final) <= m /\ EndsWith(lower, final)
    BY <1>7, <1>14, <1>16
  <2>2. \A k \in 0..n : c[k] >= 0
    <3> DEFINE S == {k \in Nat : k <= n => c[n - k] >= 0}
    <3>1. 0 \in S
      BY <1>2, <2>1
    <3>2. ASSUME NEW k \in S PROVE k + 1 \in S
      <4> SUFFICES ASSUME k + 1 <= n PROVE c[n - (k + 1)] >= 0
        OBVIOUS
      <4>1. n - k \in 1..n /\ (n - k) - 1 = n - (k + 1) /\ k <= n
        BY <1>2
      <4>2. c[n - k] >= 0
        BY <4>1
      <4> QED BY <1>12, <4>1, <4>2 DEF Advances
    <3>3. S = Nat
      <4>1. S \in SUBSET Nat
        OBVIOUS
      <4> HIDE DEF S
      <4> QED BY <3>1, <3>2, <4>1, NatInd
    <3> TAKE k \in 0..n
    <3>4. n - k \in Nat /\ n - k <= n /\ n - (n - k) = k
      BY <1>2
    <3> QED BY <3>3, <3>4
  <2> DEFINE at == [k \in 1..n |-> c[k] - Len(any[k])]
  <2>3. ASSUME NEW k \in 1..n
        PROVE  /\ at[k] \in Int /\ at[k] + Len(any[k]) = c[k] /\ c[k] <= m
               /\ at[k] >= c[k - 1] /\ c[k - 1] >= 0
               /\ SubSeq(lower, at[k] + 1, at[k] + Len(any[k])) = Lower(any[k])
    <3>1. k \in 0..n /\ k - 1 \in 0..n
      BY <1>2
    <3>2. c[k] \in -1..m /\ c[k - 1] \in -1..m /\ c[k] >= 0 /\ c[k - 1] >= 0
      BY <1>11, <2>2, <3>1
    <3>3. Len(any[k]) \in Nat /\ Len(Lower(any[k])) = Len(any[k])
      BY <1>15
    <3>4. at[k] = c[k] - Len(any[k]) /\ at[k] \in Occurrences(lower, Lower(any[k]), c[k - 1])
      BY <1>12, <3>2 DEF Advances
    <3>5. /\ at[k] \in c[k - 1]..(m - Len(any[k]))
          /\ SubSeq(lower, at[k] + 1, at[k] + Len(any[k])) = Lower(any[k])
      BY <1>3, <3>3, <3>4 DEF Occurrences
    <3> HIDE DEF at
    <3> QED BY <1>2, <3>2, <3>3, <3>4, <3>5
  <2>4. at \in [1..n -> 0..m]
    <3>1. ASSUME NEW k \in 1..n PROVE at[k] \in 0..m
      <4> HIDE DEF at
      <4>1. /\ at[k] \in Int /\ at[k] + Len(any[k]) = c[k] /\ c[k] <= m /\ at[k] >= c[k - 1]
            /\ c[k - 1] >= 0 /\ Len(any[k]) \in Nat
        BY <1>15, <2>3
      <4>2. c[k] \in Int /\ c[k - 1] \in Int /\ m \in Int
        <5>1. k \in 0..n /\ k - 1 \in 0..n
          BY <1>2
        <5> QED BY <1>2, <1>11, <5>1
      <4> QED BY <4>1, <4>2
    <3> QED BY <3>1
  <2> HIDE DEF at
  <2>5. \A k \in 0..n : EndOf(f, at, k) = c[k]
    <3> TAKE k \in 0..n
    <3>1. CASE k = 0
      BY <1>10, <3>1 DEF EndOf, first
    <3>2. CASE k # 0
      <4>1. k \in 1..n
        BY <1>2, <3>2
      <4>2. at[k] + Len(any[k]) = c[k]
        BY <2>3, <4>1
      <4> QED BY <3>2, <4>2 DEF EndOf, any
    <3> QED BY <3>1, <3>2
  <2>6. PartsAt(lower, f, at)
    <3> SUFFICES ASSUME NEW k \in 1..n
                 PROVE  /\ at[k] >= EndOf(f, at, k - 1) /\ EndOf(f, at, k) <= Len(lower)
                        /\ SubSeq(lower, at[k] + 1, EndOf(f, at, k)) = Lower(any[k])
      BY <1>2 DEF PartsAt, any
    <3>1. k \in 0..n /\ k - 1 \in 0..n
      BY <1>2
    <3>2. EndOf(f, at, k) = c[k] /\ EndOf(f, at, k - 1) = c[k - 1]
      BY <2>5, <3>1
    <3> QED BY <1>3, <2>3, <3>2
  <2>7. EndOf(f, at, n) = c[n]
    BY <1>2, <2>5
  <2> QED BY <1>8, <1>9, <2>1, <2>4, <2>6, <2>7
<1>17. ASSUME Cut(name, f) PROVE SubstringMatches(name, f)
  <2>1. PICK at \in [1..n -> 0..m] :
            /\ PartsAt(lower, f, at)
            /\ EndOf(f, at, n) + Len(f.final) <= m /\ EndsWith(lower, final)
    BY <1>8, <1>17
  <2>2. ASSUME NEW k \in 1..n
        PROVE  /\ at[k] \in Nat /\ at[k] >= EndOf(f, at, k - 1) /\ EndOf(f, at, k) <= m
               /\ EndOf(f, at, k) = at[k] + Len(any[k])
               /\ SubSeq(lower, at[k] + 1, at[k] + Len(any[k])) = Lower(any[k])
    <3>1. k # 0 /\ k \in DOMAIN f.any /\ at[k] \in 0..m
      BY <1>2 DEF any
    <3>2. EndOf(f, at, k) = at[k] + Len(any[k])
      BY <3>1 DEF EndOf, any
    <3>3. /\ at[k] >= EndOf(f, at, k - 1) /\ EndOf(f, at, k) <= Len(lower)
          /\ SubSeq(lower, at[k] + 1, EndOf(f, at, k)) = Lower(f.any[k])
      BY <2>1, <3>1 DEF PartsAt
    <3>4. at[k] \in Nat
      BY <1>2, <3>1
    <3> QED BY <1>3, <3>2, <3>3, <3>4 DEF any
  <2>3. \A k \in 0..n : EndOf(f, at, k) \in Nat
    <3> TAKE k \in 0..n
    <3>1. CASE k = 0
      BY <1>2, <3>1 DEF EndOf, first
    <3>2. CASE k # 0
      <4>1. k \in 1..n
        BY <1>2, <3>2
      <4>2. at[k] \in Nat /\ EndOf(f, at, k) = at[k] + Len(any[k]) /\ Len(any[k]) \in Nat
        BY <1>15, <2>2, <4>1
      <4> QED BY <4>2
    <3> QED BY <3>1, <3>2
  <2> DEFINE S == {k \in Nat : k <= n => c[k] >= 0 /\ c[k] <= EndOf(f, at, k)}
  <2>4. 0 \in S
    <3>1. c[0] = first /\ EndOf(f, at, 0) = first /\ first \in Nat
      BY <1>2, <1>10 DEF EndOf, first
    <3> QED BY <3>1
  <2>5. ASSUME NEW k \in S PROVE k + 1 \in S
    <3> SUFFICES ASSUME k + 1 <= n PROVE c[k + 1] >= 0 /\ c[k + 1] <= EndOf(f, at, k + 1)
      OBVIOUS
    <3> DEFINE j == k + 1
               places == Occurrences(lower, Lower(any[j]), c[k])
    <3>1. j \in 1..n /\ j - 1 = k /\ k <= n /\ k \in 0..n
      BY <1>2
    <3>2. c[k] >= 0 /\ c[k] <= EndOf(f, at, k)
      BY <3>1
    <3>3. /\ at[j] \in Nat /\ at[j] >= EndOf(f, at, k) /\ EndOf(f, at, j) <= m
          /\ EndOf(f, at, j) = at[j] + Len(any[j])
          /\ SubSeq(lower, at[j] + 1, at[j] + Len(any[j])) = Lower(any[j])
      BY <2>2, <3>1
    <3>4. Len(any[j]) \in Nat /\ Len(Lower(any[j])) = Len(any[j])
      BY <1>15, <3>1
    <3> HIDE DEF j
    <3>5. c[k] \in Int /\ EndOf(f, at, k) \in Nat
      BY <1>2, <1>11, <2>3, <3>1
    <3>6. at[j] \in c[k]..(m - Len(any[j]))
      BY <1>2, <3>2, <3>3, <3>4, <3>5
    <3>7. at[j] \in places
      BY <1>3, <3>3, <3>4, <3>6 DEF Occurrences
    <3> HIDE DEF places
    <3>8. c[j] >= 0 /\ \A i \in places : c[j] <= i + Len(any[j])
      <4>1. Advances(lower, c[k], any[j], c[j])
        BY <1>12, <3>1
      <4> QED BY <3>2, <3>7, <4>1 DEF Advances, places
    <3> QED BY <3>3, <3>7, <3>8 DEF j
  <2>6. S = Nat
    <3>1. S \in SUBSET Nat
      OBVIOUS
    <3> HIDE DEF S
    <3> QED BY <2>4, <2>5, <3>1, NatInd
  <2>7. c[n] >= 0 /\ c[n] <= EndOf(f, at, n)
    BY <1>2, <2>6
  <2>8. c[n] + Len(f.final) <= m
    <3>1. Len(f.final) \in Nat /\ c[n] \in Int /\ EndOf(f, at, n) \in Nat
      BY <1>1, <1>2, <1>13, <2>3, SequenceIs
    <3> QED BY <1>2, <2>1, <2>7, <3>1
  <2> QED BY <1>7, <1>9, <1>14, <2>1, <2>7, <2>8
<1> QED BY <1>16, <1>17

-----------------------------------------------------------------------------
(* The search *)

\* The values of an entry are names or DNs.
HasSequences(e) == \A a \in DOMAIN e.attrs : \A v \in e.attrs[a] : IsSequence(v)

\* The DNs of the directory.
LEMMA DnsAre ==
    ASSUME NEW base_dn, IsSequence(base_dn)
    PROVE  /\ IsSequence(PeopleDn(base_dn)) /\ IsSequence(GroupsDn(base_dn))
           /\ \A uid : IsSequence(UserDn(uid, base_dn))
           /\ \A name : IsSequence(GroupDn(name, base_dn))
           /\ IsSequence(<<<<"cn", <<"x">>>>>> \o base_dn)
<1>1. IsSequence(PeopleDn(base_dn)) /\ IsSequence(GroupsDn(base_dn))
  BY ConsIs DEF PeopleDn, GroupsDn
<1>2. \A uid : IsSequence(UserDn(uid, base_dn))
  BY <1>1, ConsIs DEF UserDn
<1>3. \A name : IsSequence(GroupDn(name, base_dn))
  BY <1>1, ConsIs DEF GroupDn
<1>4. IsSequence(<<<<"cn", <<"x">>>>>> \o base_dn)
  BY ConsIs
<1> QED BY <1>1, <1>2, <1>3, <1>4

\* A user's entry.
LEMMA UserEntryIs ==
    ASSUME NEW base_dn, IsSequence(base_dn), NEW lost, NEW u \in Persons
    PROVE  /\ UserEntry(u, base_dn, lost).dn = <<<<"uid", u.uid>>>> \o PeopleDn(base_dn)
           /\ HasSequences(UserEntry(u, base_dn, lost))
<1> DEFINE groups == IF u \in lost.users THEN {} ELSE {GroupDn(r, base_dn) : r \in u.roles}
           all == [uid |-> {u.uid}, mail |-> u.mail, memberOf |-> groups]
           e == UserEntry(u, base_dn, lost)
<1>1. e.dn = UserDn(u.uid, base_dn) /\ e.attrs = Having(all)
  BY DEF UserEntry
<1>2. IsSequence(u.uid) /\ (\A m \in u.mail : IsSequence(m)) /\ \A g \in groups : IsSequence(g)
  BY DirectoryAssumption, DnsAre
<1> HIDE DEF groups
<1>3. /\ DOMAIN all = {"uid", "mail", "memberOf"}
      /\ all["uid"] = {u.uid} /\ all["mail"] = u.mail /\ all["memberOf"] = groups
  OBVIOUS
<1> HIDE DEF all
<1>4. \A a \in DOMAIN all : \A v \in all[a] : IsSequence(v)
  BY <1>2, <1>3
<1>5. \A a \in DOMAIN Having(all) : a \in DOMAIN all /\ Having(all)[a] = all[a]
  BY DEF Having
<1> HIDE DEF e
<1>6. HasSequences(e)
  BY <1>1, <1>4, <1>5 DEF HasSequences
<1> QED BY <1>1, <1>6 DEF e, UserDn

\* A group's entry.
LEMMA GroupEntryIs ==
    ASSUME NEW base_dn, IsSequence(base_dn), NEW lost, NEW r \in RoleNames
    PROVE  /\ GroupEntry(r, base_dn, lost).dn = <<<<"cn", r>>>> \o GroupsDn(base_dn)
           /\ HasSequences(GroupEntry(r, base_dn, lost))
<1> DEFINE members == IF Members(r, lost) = {} THEN {<<<<"cn", <<"x">>>>>> \o base_dn}
                      ELSE {UserDn(u.uid, base_dn) : u \in Members(r, lost)}
           all == [cn |-> {r}, member |-> members]
           e == GroupEntry(r, base_dn, lost)
<1>1. e.dn = GroupDn(r, base_dn) /\ e.attrs = all
  BY DEF GroupEntry
<1>2. IsSequence(r) /\ \A g \in members : IsSequence(g)
  BY DirectoryAssumption, DnsAre
<1> HIDE DEF members
<1>3. DOMAIN all = {"cn", "member"} /\ all["cn"] = {r} /\ all["member"] = members
  OBVIOUS
<1> HIDE DEF all, e
<1>4. HasSequences(e)
  BY <1>1, <1>2, <1>3 DEF HasSequences
<1> QED BY <1>1, <1>4 DEF e, GroupDn

\* A filter matches the entries that satisfy it.
LEMMA FilterIsSatisfied ==
    ASSUME NEW e, HasSequences(e), NEW f, FilterParses(f)
    PROVE  Matches(e, f) <=> Satisfies(e, f)
<1>1. ASSUME NEW g, AtomParses(g) PROVE AtomMatches(e, g) <=> AtomSatisfies(e, g)
  <2>1. CASE g.op = "substring"
    <3>1. AtomMatches(e, g) <=>
             g.attr \in DOMAIN e.attrs /\ \E v \in e.attrs[g.attr] : SubstringMatches(v, g)
      BY <2>1 DEF AtomMatches
    <3>2. AtomSatisfies(e, g) <=> g.attr \in DOMAIN e.attrs /\ \E v \in e.attrs[g.attr] : Cut(v, g)
      BY <2>1 DEF AtomSatisfies
    <3>3. g.attr \in DOMAIN e.attrs =>
             \A v \in e.attrs[g.attr] : SubstringMatches(v, g) <=> Cut(v, g)
      BY <1>1, <2>1, SubstringIsCut DEF HasSequences
    <3> QED BY <3>1, <3>2, <3>3
  <2>2. CASE g.op # "substring"
    BY <2>2 DEF AtomSatisfies
  <2> QED BY <2>1, <2>2
<1>2. CASE f.op \in {"and", "or", "not"}
  <2>1. \A i \in DOMAIN f.of : AtomMatches(e, f.of[i]) <=> AtomSatisfies(e, f.of[i])
    BY <1>1, <1>2 DEF FilterParses
  <2>2. f.op = "not" => 1 \in DOMAIN f.of
    BY <1>2 DEF FilterParses
  <2> QED BY <1>2, <2>1, <2>2 DEF Matches, Satisfies
<1>3. CASE f.op \notin {"and", "or", "not"}
  <2>1. AtomMatches(e, f) <=> AtomSatisfies(e, f)
    BY <1>1, <1>3 DEF FilterParses
  <2>2. (Matches(e, f) <=> AtomMatches(e, f)) /\ (Satisfies(e, f) <=> AtomSatisfies(e, f))
    BY <1>3 DEF Matches, Satisfies
  <2> QED BY <2>1, <2>2
<1> QED BY <1>2, <1>3

\* Whether the reference returns the entry.
Wanted(e, s) ==
    /\ \E n \in Levels(s.scope) \cap (0..Len(e.dn)) : Below(e.dn, s.base, n)
    /\ Satisfies(e, s.filter)

\* The entries of one unit that are wanted are found, and the unit is looked into
\* if there is one.
LEMMA UnitAnswers ==
    ASSUME NEW s, SearchParses(s), s.base # BadDn, NEW unit, IsSequence(unit),
           NEW e, NEW rdn, e.dn = <<rdn>> \o unit, HasSequences(e)
    PROVE  Wanted(e, s) <=> /\ Includes(unit, s.base, s.scope)
                            /\ EntryInScope(e.dn, s.base, s.scope) /\ Matches(e, s.filter)
<1>1. IsSequence(s.base) /\ s.scope \in Scopes4 /\ FilterParses(s.filter)
  BY DEF SearchParses, Scopes4
<1>2. IsSequence(e.dn)
  BY ConsIs
<1>3. EntryInScope(e.dn, s.base, s.scope)
         <=> \E n \in Levels(s.scope) \cap (0..Len(e.dn)) : Below(e.dn, s.base, n)
  BY <1>1, <1>2, ScopeIsLevels
<1>4. Matches(e, s.filter) <=> Satisfies(e, s.filter)
  BY <1>1, FilterIsSatisfied
<1>5. EntryInScope(e.dn, s.base, s.scope) => Includes(unit, s.base, s.scope)
  BY <1>1, SkippedHasNone
<1> QED BY <1>3, <1>4, <1>5 DEF Wanted

\* The reference, as the wanted users and groups.
LEMMA AnswerIs ==
    ASSUME NEW base_dn, IsSequence(base_dn), NEW lost, NEW s, SearchParses(s), s.base # BadDn
    PROVE  /\ \A e \in UserEntries(base_dn, lost) :
                 Wanted(e, s) <=> /\ Includes(PeopleDn(base_dn), s.base, s.scope)
                                  /\ e \in Found(UserEntries(base_dn, lost), s)
           /\ \A e \in GroupEntries(base_dn, lost) :
                 Wanted(e, s) <=> /\ Includes(GroupsDn(base_dn), s.base, s.scope)
                                  /\ e \in Found(GroupEntries(base_dn, lost), s)
           /\ Answer(base_dn, s, lost) =
                 {e \in UserEntries(base_dn, lost) \cup GroupEntries(base_dn, lost) : Wanted(e, s)}
<1>1. IsSequence(PeopleDn(base_dn)) /\ IsSequence(GroupsDn(base_dn))
  BY DnsAre
<1>2. ASSUME NEW e \in UserEntries(base_dn, lost)
      PROVE  Wanted(e, s) <=> /\ Includes(PeopleDn(base_dn), s.base, s.scope)
                              /\ e \in Found(UserEntries(base_dn, lost), s)
  <2>1. PICK u \in Persons : e = UserEntry(u, base_dn, lost)
    BY DEF UserEntries
  <2>2. e.dn = <<<<"uid", u.uid>>>> \o PeopleDn(base_dn) /\ HasSequences(e)
    BY <2>1, UserEntryIs
  <2>3. Wanted(e, s) <=> /\ Includes(PeopleDn(base_dn), s.base, s.scope)
                         /\ EntryInScope(e.dn, s.base, s.scope) /\ Matches(e, s.filter)
    BY <1>1, <2>2, UnitAnswers
  <2> QED BY <2>3 DEF Found
<1>3. ASSUME NEW e \in GroupEntries(base_dn, lost)
      PROVE  Wanted(e, s) <=> /\ Includes(GroupsDn(base_dn), s.base, s.scope)
                              /\ e \in Found(GroupEntries(base_dn, lost), s)
  <2>1. PICK r \in RoleNames : e = GroupEntry(r, base_dn, lost)
    BY DEF GroupEntries
  <2>2. e.dn = <<<<"cn", r>>>> \o GroupsDn(base_dn) /\ HasSequences(e)
    BY <2>1, GroupEntryIs
  <2>3. Wanted(e, s) <=> /\ Includes(GroupsDn(base_dn), s.base, s.scope)
                         /\ EntryInScope(e.dn, s.base, s.scope) /\ Matches(e, s.filter)
    BY <1>1, <2>2, UnitAnswers
  <2> QED BY <2>3 DEF Found
<1>4. Answer(base_dn, s, lost) =
         {e \in UserEntries(base_dn, lost) \cup GroupEntries(base_dn, lost) : Wanted(e, s)}
  BY DEF Answer, Wanted
<1> QED BY <1>2, <1>3, <1>4

\* What handle_search collects is the answer.
LEMMA ScanIsAnswer ==
    ASSUME NEW base_dn, IsSequence(base_dn), NEW lost, NEW s, SearchParses(s), s.base # BadDn
    PROVE  SearchScan(base_dn, s, lost) = Answer(base_dn, s, lost)
<1>1. /\ Found(UserEntries(base_dn, lost), s) \subseteq UserEntries(base_dn, lost)
      /\ Found(GroupEntries(base_dn, lost), s) \subseteq GroupEntries(base_dn, lost)
  BY DEF Found
<1>2. ASSUME NEW e PROVE e \in SearchScan(base_dn, s, lost) <=> e \in Answer(base_dn, s, lost)
  <2>1. e \in SearchScan(base_dn, s, lost) <=>
           \/ /\ Includes(PeopleDn(base_dn), s.base, s.scope)
              /\ e \in Found(UserEntries(base_dn, lost), s)
           \/ /\ Includes(GroupsDn(base_dn), s.base, s.scope)
              /\ e \in Found(GroupEntries(base_dn, lost), s)
    BY DEF SearchScan
  <2>2. e \in Answer(base_dn, s, lost) <=>
           (e \in UserEntries(base_dn, lost) \/ e \in GroupEntries(base_dn, lost)) /\ Wanted(e, s)
    BY AnswerIs
  <2> QED BY <1>1, <2>1, <2>2, AnswerIs
<1> QED BY <1>2

\* When handle_search looks nowhere there is nothing to find.
LEMMA NowhereIsAnswer ==
    ASSUME NEW base_dn, IsSequence(base_dn), NEW lost, NEW s, SearchParses(s), s.base # BadDn,
           ~Includes(PeopleDn(base_dn), s.base, s.scope),
           ~Includes(GroupsDn(base_dn), s.base, s.scope)
    PROVE  Answer(base_dn, s, lost) = {}
<1>1. SearchScan(base_dn, s, lost) = {}
  BY DEF SearchScan
<1> QED BY <1>1, ScanIsAnswer

\* Two entries that differ at most in who is in which role.
Alike(e, d) ==
    /\ e.dn = d.dn
    /\ \A a : a \notin {"memberOf", "member"} =>
          /\ a \in DOMAIN e.attrs <=> a \in DOMAIN d.attrs
          /\ a \in DOMAIN e.attrs => e.attrs[a] = d.attrs[a]

\* A failed role lookup changes nothing else in an entry.
LEMMA LostAreAlike ==
    ASSUME NEW base_dn, NEW lost, NEW kept
    PROVE  /\ \A u \in Persons : Alike(UserEntry(u, base_dn, lost), UserEntry(u, base_dn, kept))
           /\ \A r \in RoleNames : Alike(GroupEntry(r, base_dn, lost), GroupEntry(r, base_dn, kept))
<1>1. ASSUME NEW u \in Persons
      PROVE  Alike(UserEntry(u, base_dn, lost), UserEntry(u, base_dn, kept))
  <2> DEFINE Attrs(g) == [uid |-> {u.uid}, mail |-> u.mail, memberOf |-> g]
             Groups(l) == IF u \in l.users THEN {} ELSE {GroupDn(r, base_dn) : r \in u.roles}
  <2>1. ASSUME NEW l
        PROVE  /\ UserEntry(u, base_dn, l).dn = UserDn(u.uid, base_dn)
               /\ UserEntry(u, base_dn, l).attrs = Having(Attrs(Groups(l)))
    BY DEF UserEntry
  <2>2. ASSUME NEW g, NEW a, a \notin {"memberOf", "member"}
        PROVE  /\ a \in DOMAIN Having(Attrs(g)) <=> a \in {"uid", "mail"} /\ Attrs({})[a] # {}
               /\ a \in {"uid", "mail"} => Attrs(g)[a] = Attrs({})[a]
               /\ a \in DOMAIN Having(Attrs(g)) => Having(Attrs(g))[a] = Attrs({})[a]
    <3>1. DOMAIN Attrs(g) = {"uid", "mail", "memberOf"}
      OBVIOUS
    <3>2. a \in {"uid", "mail"} => Attrs(g)[a] = Attrs({})[a]
      OBVIOUS
    <3> HIDE DEF Attrs
    <3>3. DOMAIN Having(Attrs(g)) = {b \in DOMAIN Attrs(g) : Attrs(g)[b] # {}}
      BY DEF Having
    <3>4. a \in DOMAIN Having(Attrs(g)) => Having(Attrs(g))[a] = Attrs(g)[a]
      BY <3>3 DEF Having
    <3> QED BY <2>2, <3>1, <3>2, <3>3, <3>4
  <2> HIDE DEF Attrs, Groups
  <2> QED BY <2>1, <2>2 DEF Alike
<1>2. ASSUME NEW r \in RoleNames
      PROVE  Alike(GroupEntry(r, base_dn, lost), GroupEntry(r, base_dn, kept))
  <2> DEFINE Uids(l) == IF Members(r, l) = {} THEN {<<<<"cn", <<"x">>>>>> \o base_dn}
                        ELSE {UserDn(u.uid, base_dn) : u \in Members(r, l)}
             Attrs(g) == [cn |-> {r}, member |-> g]
  <2>1. ASSUME NEW l
        PROVE  /\ GroupEntry(r, base_dn, l).dn = GroupDn(r, base_dn)
               /\ GroupEntry(r, base_dn, l).attrs = Attrs(Uids(l))
    BY DEF GroupEntry
  <2>2. ASSUME NEW g, NEW a, a \notin {"memberOf", "member"}
        PROVE  /\ a \in DOMAIN Attrs(g) <=> a = "cn"
               /\ a \in DOMAIN Attrs(g) => Attrs(g)[a] = {r}
    BY <2>2
  <2> HIDE DEF Attrs, Uids
  <2> QED BY <2>1, <2>2 DEF Alike
<1> QED BY <1>1, <1>2

\* A filter that does not ask for roles does not tell such entries apart.
LEMMA RoleBlindIsBlind ==
    ASSUME NEW e, NEW d, Alike(e, d), NEW f, FilterParses(f), RoleBlind(f)
    PROVE  Satisfies(e, f) <=> Satisfies(d, f)
<1>1. ASSUME NEW g, AtomRoleBlind(g) PROVE AtomSatisfies(e, g) <=> AtomSatisfies(d, g)
  <2>1. /\ g.attr \in DOMAIN e.attrs <=> g.attr \in DOMAIN d.attrs
        /\ g.attr \in DOMAIN e.attrs => e.attrs[g.attr] = d.attrs[g.attr]
    BY <1>1 DEF AtomRoleBlind, Alike
  <2>2. AtomMatches(e, g) <=> AtomMatches(d, g)
    BY <2>1 DEF AtomMatches
  <2> QED BY <2>1, <2>2 DEF AtomSatisfies
<1>2. CASE f.op \in {"and", "or", "not"}
  <2>1. \A i \in DOMAIN f.of : AtomSatisfies(e, f.of[i]) <=> AtomSatisfies(d, f.of[i])
    BY <1>1, <1>2 DEF RoleBlind
  <2>2. f.op = "not" => 1 \in DOMAIN f.of
    BY <1>2 DEF FilterParses
  <2> QED BY <1>2, <2>1, <2>2 DEF Satisfies
<1>3. CASE f.op \notin {"and", "or", "not"}
  <2>1. AtomSatisfies(e, f) <=> AtomSatisfies(d, f)
    BY <1>1, <1>3 DEF RoleBlind
  <2> QED BY <1>3, <2>1 DEF Satisfies
<1> QED BY <1>2, <1>3

\* Whatever role lookups failed, such a filter is answered with the same entries'
\* names.
LEMMA RoleBlindAnswers ==
    ASSUME NEW base_dn, NEW s, SearchParses(s), RoleBlind(s.filter), NEW lost, NEW kept
    PROVE  Names(Answer(base_dn, s, lost)) \subseteq Names(Answer(base_dn, s, kept))
<1> SUFFICES ASSUME NEW e \in Answer(base_dn, s, lost)
             PROVE  \E d \in Answer(base_dn, s, kept) : d.dn = e.dn
  BY DEF Names
<1>1. Wanted(e, s)
  BY DEF Answer, Wanted
<1>2. PICK d \in UserEntries(base_dn, kept) \cup GroupEntries(base_dn, kept) : Alike(e, d)
  <2>1. e \in UserEntries(base_dn, lost) \/ e \in GroupEntries(base_dn, lost)
    BY DEF Answer
  <2>2. CASE e \in UserEntries(base_dn, lost)
    BY <2>2, LostAreAlike DEF UserEntries
  <2>3. CASE e \in GroupEntries(base_dn, lost)
    BY <2>3, LostAreAlike DEF GroupEntries
  <2> QED BY <2>1, <2>2, <2>3
<1>3. e.dn = d.dn
  BY <1>2 DEF Alike
<1>4. Satisfies(d, s.filter)
  BY <1>1, <1>2, RoleBlindIsBlind DEF Wanted, SearchParses
<1>5. d \in Answer(base_dn, s, kept)
  BY <1>1, <1>2, <1>3, <1>4 DEF Wanted, Answer
<1> QED BY <1>3, <1>5

-----------------------------------------------------------------------------
(* The headers of BER values *)

Byte == 0..255

\* v is the number after each of the first n octets.
Readings(v, octets, n) ==
    /\ v[0] = 0
    /\ \A k \in 1..n : v[k] = v[k - 1] * 256 + octets[k]

\* The number in the end is the one the loop leaves.
LEMMA LoopOfBigEndian ==
    ASSUME NEW n \in Nat, NEW octets, DOMAIN octets = 1..n
    PROVE  \E v : Readings(v, octets, n) /\ BigEndian(octets) = v[n]
<1> DEFINE V(b, i) == b * 256 + octets[i]
           Def(g, s) == IF s = {} THEN 0 ELSE V(g[s \ {Max(s)}], Max(s))
           Solves(g, k) == g = [s \in SUBSET (1..k) |-> Def(g, s)]
           Solvable == {k \in Nat : \E g : Solves(g, k)}
<1> HIDE DEF V
<1>1. 0 \in Solvable
  <2> DEFINE g == [s \in SUBSET (1..0) |-> 0]
  <2>1. \A s \in SUBSET (1..0) : s = {}
    OBVIOUS
  <2>2. g = [s \in SUBSET (1..0) |-> Def(g, s)]
    BY <2>1
  <2> QED BY <2>2
<1>2. ASSUME NEW k \in Solvable PROVE k + 1 \in Solvable
  <2>1. PICK g : Solves(g, k)
    OBVIOUS
  <2> DEFINE h == [s \in SUBSET (1..(k + 1)) |->
                     IF k + 1 \in s THEN V(g[s \ {k + 1}], k + 1) ELSE g[s]]
  <2>2. ASSUME NEW s \in SUBSET (1..(k + 1)) PROVE h[s] = Def(h, s)
    <3>1. CASE k + 1 \in s
      <4>1. \A y \in s : k + 1 >= y
        OBVIOUS
      <4>2. Max(s) = k + 1
        BY <3>1, <4>1, MaxIs
      <4>3. s \ {k + 1} \in SUBSET (1..(k + 1)) /\ k + 1 \notin s \ {k + 1}
        OBVIOUS
      <4>4. h[s \ {k + 1}] = g[s \ {k + 1}]
        BY <4>3
      <4> QED BY <3>1, <4>2, <4>4
    <3>2. CASE k + 1 \notin s
      <4>1. s \in SUBSET (1..k)
        BY <3>2
      <4>2. g[s] = Def(g, s)
        BY <2>1, <4>1
      <4>3. s \ {Max(s)} \in SUBSET (1..(k + 1)) /\ k + 1 \notin s \ {Max(s)}
        BY <3>2
      <4>4. h[s \ {Max(s)}] = g[s \ {Max(s)}]
        BY <4>3
      <4>5. h[s] = g[s]
        BY <3>2
      <4> QED BY <4>2, <4>4, <4>5
    <3> QED BY <3>1, <3>2
  <2>3. h = [s \in SUBSET (1..(k + 1)) |-> h[s]]
    OBVIOUS
  <2> HIDE DEF h
  <2>4. Solves(h, k + 1)
    BY <2>2, <2>3
  <2>5. k + 1 \in Nat
    OBVIOUS
  <2> QED BY <2>4, <2>5
<1>3. n \in Solvable
  <2> HIDE DEF Solvable
  <2>1. Solvable \in SUBSET Nat
    BY DEF Solvable
  <2> QED BY <1>1, <1>2, <2>1, NatInd
<1> DEFINE iter == CHOOSE g : Solves(g, n)
<1>4. Solves(iter, n)
  <2>1. \E g : Solves(g, n)
    BY <1>3
  <2> HIDE DEF Solves
  <2> QED BY <2>1
<1>5. BigEndian(octets) = iter[1..n]
  BY DEF BigEndian, FoldLeft, MapThenFoldSet, V
<1> HIDE DEF iter
<1> DEFINE c == [k \in 0..n |-> iter[1..k]]
<1>6. c[0] = 0
  <2>1. 1..0 = {} /\ 0 \in 0..n /\ {} \in SUBSET (1..n)
    OBVIOUS
  <2> QED BY <1>4, <2>1
<1>7. ASSUME NEW k \in 1..n PROVE c[k] = V(c[k - 1], k)
  <2>1. /\ 1..k \in SUBSET (1..n) /\ 1..k \in SUBSET Int
        /\ k \in 1..k /\ \A y \in 1..k : k >= y
    OBVIOUS
  <2>2. Max(1..k) = k
    BY <2>1, MaxIs
  <2>3. (1..k) \ {k} = 1..(k - 1) /\ 1..k # {}
    OBVIOUS
  <2>4. iter[1..k] = V(iter[1..(k - 1)], k)
    BY <1>4, <2>1, <2>2, <2>3
  <2>5. k \in 0..n /\ k - 1 \in 0..n
    OBVIOUS
  <2> QED BY <2>4, <2>5
<1>8. c[n] = iter[1..n]
  OBVIOUS
<1> HIDE DEF c
<1>9. Readings(c, octets, n)
  BY <1>6, <1>7 DEF Readings, V
<1> QED BY <1>5, <1>8, <1>9

\* The octets of a length are a number.
LEMMA BigEndianIsNat ==
    ASSUME NEW s \in Seq(Byte)
    PROVE  BigEndian(s) \in Nat
<1>0. Len(s) \in Nat /\ DOMAIN s = 1..Len(s) /\ \A k \in 1..Len(s) : s[k] \in Byte
  BY LenProperties
<1> DEFINE n == Len(s)
<1>01. \A b \in Byte : b \in Nat
  BY DEF Byte
<1> HIDE DEF n
<1>1. n \in Nat /\ DOMAIN s = 1..n /\ \A k \in 1..n : s[k] \in Nat
  BY <1>0, <1>01 DEF n
<1>2. PICK v : Readings(v, s, n) /\ BigEndian(s) = v[n]
  BY <1>1, LoopOfBigEndian
<1> DEFINE S == {k \in Nat : k <= n => v[k] \in Nat}
<1>3. 0 \in S
  BY <1>2 DEF Readings
<1>4. ASSUME NEW k \in S PROVE k + 1 \in S
  <2> SUFFICES ASSUME k + 1 <= n PROVE v[k + 1] \in Nat
    OBVIOUS
  <2>1. k + 1 \in 1..n /\ (k + 1) - 1 = k /\ v[k] \in Nat
    BY <1>1
  <2>2. v[k + 1] = v[k] * 256 + s[k + 1]
    BY <1>2, <2>1 DEF Readings
  <2> QED BY <1>1, <2>1, <2>2
<1> HIDE DEF S
<1>5. n \in S
  <2>1. S \in SUBSET Nat
    BY DEF S
  <2>2. S = Nat
    BY <1>3, <1>4, <2>1, NatInd
  <2> QED BY <1>1, <2>2
<1> QED BY <1>1, <1>2, <1>5 DEF S

\* The bytes of a frame after i and up to j.
LEMMA StretchIs ==
    ASSUME NEW frame \in Seq(Byte), NEW i \in Nat, NEW j \in Nat, i <= j, j <= Len(frame)
    PROVE  /\ SubSeq(frame, i + 1, j) \in Seq(Byte)
           /\ Len(SubSeq(frame, i + 1, j)) = j - i
           /\ \A k \in 1..(j - i) : SubSeq(frame, i + 1, j)[k] = frame[i + k]
           /\ \A a, b \in Nat : 1 <= a /\ a <= b + 1 /\ b <= j - i =>
                 SubSeq(SubSeq(frame, i + 1, j), a, b) = SubSeq(frame, i + a, i + b)
<1> DEFINE t == SubSeq(frame, i + 1, j)
           n == Len(frame)
<1>0. n \in Nat /\ \A k \in 1..n : frame[k] \in Byte
  BY LenProperties
<1>1. /\ IsSequence(t) /\ Len(t) = j - i
      /\ \A k \in 1..(j - i) : t[k] = frame[i + k]
  <2>1. i + 1 \in Int /\ j \in Int /\ i + 1 <= j + 1 /\ j - (i + 1) + 1 = j - i
    OBVIOUS
  <2>2. \A k \in 1..(j - i) : (i + 1) + k - 1 = i + k
    OBVIOUS
  <2> QED BY <2>1, <2>2, SubSeqIs
<1> HIDE DEF t, n
<1>2. t \in Seq(Byte)
  <2>1. t = [k \in 1..(j - i) |-> t[k]]
    BY <1>1, SequenceIs
  <2>2. \A k \in 1..(j - i) : i + k \in 1..n
    BY <1>0 DEF n
  <2>3. t \in [1..(j - i) -> Byte]
    BY <1>0, <1>1, <2>1, <2>2
  <2>4. j - i \in Nat
    OBVIOUS
  <2> QED BY <2>3, <2>4
<1>3. ASSUME NEW a \in Nat, NEW b \in Nat, 1 <= a, a <= b + 1, b <= j - i
      PROVE  SubSeq(t, a, b) = SubSeq(frame, i + a, i + b)
  <2> DEFINE x == SubSeq(t, a, b)
             y == SubSeq(frame, i + a, i + b)
             m == b - a + 1
  <2>1. m \in Nat /\ (i + b) - (i + a) + 1 = m /\ i + a \in Int /\ i + b \in Int /\ i + a <= (i + b) + 1
    BY <1>3
  <2>2. IsSequence(x) /\ Len(x) = m /\ \A k \in 1..m : x[k] = t[a + k - 1]
    BY <1>3, SubSeqIs
  <2> HIDE DEF m
  <2>3. IsSequence(y) /\ Len(y) = m /\ \A k \in 1..m : y[k] = frame[(i + a) + k - 1]
    <3>1. /\ IsSequence(y) /\ Len(y) = (i + b) - (i + a) + 1
          /\ \A k \in 1..((i + b) - (i + a) + 1) : y[k] = frame[(i + a) + k - 1]
      BY <2>1, SubSeqIs
    <3> QED BY <2>1, <3>1
  <2>4. \A k \in 1..m : a + k - 1 \in 1..(j - i) /\ i + (a + k - 1) = (i + a) + k - 1
    BY <1>3 DEF m
  <2>5. \A k \in 1..m : x[k] = y[k]
    BY <1>1, <2>2, <2>3, <2>4
  <2> HIDE DEF x, y
  <2>6. x = y
    BY <2>2, <2>3, <2>5, SameSequence
  <2> QED BY <2>6 DEF x, y
<1> QED BY <1>1, <1>2, <1>3 DEF t

\* What ber_header finds at i, of bytes up to end: a header that is written there,
\* and the only one.
Heads(h, frame, i, end) ==
    /\ h.is \in {"header", "more", "bad"}
    /\ h.is = "header" =>
          /\ h.header \in Nat /\ h.body \in Nat /\ h.header >= 2 /\ i + h.header <= end
          /\ HeaderAt(frame, i, h.header, h.body)
    /\ \A header, body \in Nat :
          header >= 2 /\ i + header <= end /\ HeaderAt(frame, i, header, body) =>
             h.is = "header" /\ h.header = header /\ h.body = body

\* ber_header finds the header of the value that starts at i, if it is all there.
LEMMA HeaderIs ==
    ASSUME NEW frame \in Seq(Byte), NEW i \in Nat, NEW end \in Nat, i <= end, end <= Len(frame)
    PROVE  Heads(BerHeader(SubSeq(frame, i + 1, end)), frame, i, end)
<1> DEFINE buf == SubSeq(frame, i + 1, end)
           n == end - i
           h == BerHeader(buf)
<1>1. /\ Len(buf) = n /\ n \in Nat
      /\ \A k \in 1..n : buf[k] = frame[i + k]
      /\ \A a, b \in Nat : 1 <= a /\ a <= b + 1 /\ b <= n =>
            SubSeq(buf, a, b) = SubSeq(frame, i + a, i + b)
  BY StretchIs
<1>2. Len(frame) \in Nat /\ \A k \in 1..Len(frame) : frame[k] \in Byte
  BY LenProperties
<1>3. ASSUME NEW m \in Nat, i + 2 + m <= end
      PROVE  BigEndian(SubSeq(frame, i + 3, i + 2 + m)) \in Nat
  <2>1. i + 2 \in Nat /\ i + 2 + m \in Nat /\ i + 2 <= i + 2 + m /\ i + 2 + m <= Len(frame)
        /\ (i + 2) + 1 = i + 3
    BY <1>2, <1>3
  <2>2. SubSeq(frame, i + 3, i + 2 + m) \in Seq(Byte)
    BY <2>1, StretchIs
  <2> QED BY <2>2, BigEndianIsNat
<1> HIDE DEF buf, n
<1>4. CASE n < 2
  <2>1. h = More
    BY <1>1, <1>4 DEF BerHeader
  <2>2. \A header \in Nat : header >= 2 => ~(i + header <= end)
    BY <1>4 DEF n
  <2> HIDE DEF h
  <2>3. h.is = "more"
    BY <2>1 DEF More
  <2>4. Heads(h, frame, i, end)
    BY <2>2, <2>3 DEF Heads
  <2> QED BY <2>4 DEF h, buf
<1>5. CASE n >= 2
  <2> DEFINE o == frame[i + 2]
  <2>1. o \in 0..255 /\ buf[2] = o /\ ~(Len(buf) < 2)
    <3>1. i + 2 \in 1..Len(frame) /\ 2 \in 1..n
      BY <1>1, <1>2, <1>5 DEF n
    <3>2. ~(Len(buf) < 2)
      BY <1>1, <1>5
    <3> QED BY <1>1, <1>2, <3>1, <3>2 DEF Byte
  <2> HIDE DEF o
  <2>2. CASE o < 128
    <3>1. h = [is |-> "header", header |-> 2, body |-> o]
      BY <2>1, <2>2 DEF BerHeader
    <3>2. \A header, body \in Nat : HeaderAt(frame, i, header, body) <=> header = 2 /\ body = o
      <4> TAKE header, body \in Nat
      <4>1. \A m \in Nat : m >= 1 => o # 128 + m
        BY <2>1, <2>2
      <4>2. UsizeOctets \in Nat
        BY BerAssumption
      <4> QED BY <2>1, <2>2, <4>1, <4>2 DEF HeaderAt, o
    <3> HIDE DEF h
    <3>3. h.is = "header" /\ h.header = 2 /\ h.body = o
      BY <3>1
    <3>4. Heads(h, frame, i, end)
      BY <1>5, <2>1, <3>2, <3>3 DEF Heads, n
    <3> QED BY <3>4 DEF h, buf
  <2>3. CASE o >= 128
    <3> DEFINE m == o % 128
    <3>1. m \in Nat /\ o = 128 + m /\ ~(o < 128)
      BY <2>1, <2>3
    <3>2. h = IF m \notin 1..UsizeOctets THEN Bad
              ELSE IF Len(buf) < 2 + m THEN More
              ELSE [is |-> "header", header |-> 2 + m, body |-> BigEndian(SubSeq(buf, 3, 2 + m))]
      BY <2>1, <3>1 DEF BerHeader
    <3> HIDE DEF m, h
    <3>3. \A header, body \in Nat :
             HeaderAt(frame, i, header, body) <=>
                /\ m \in 1..UsizeOctets /\ header = 2 + m
                /\ body = BigEndian(SubSeq(frame, i + 3, i + 2 + m))
      <4> TAKE header, body \in Nat
      <4>1. UsizeOctets \in Nat
        BY BerAssumption
      <4>2. \A k \in 1..UsizeOctets : o = 128 + k <=> k = m
        BY <3>1, <4>1
      <4>3. ~(body < 128 /\ o = body)
        BY <3>1
      <4> QED BY <4>2, <4>3 DEF HeaderAt, o
    <3>4. CASE m \notin 1..UsizeOctets
      <4>1. h.is = "bad"
        BY <3>2, <3>4 DEF Bad
      <4>2. Heads(h, frame, i, end)
        BY <3>3, <3>4, <4>1 DEF Heads
      <4> QED BY <4>2 DEF h, buf
    <3>5. CASE m \in 1..UsizeOctets /\ n < 2 + m
      <4>1. h.is = "more"
        BY <1>1, <3>2, <3>5 DEF More
      <4>2. ~(i + (2 + m) <= end)
        BY <3>1, <3>5 DEF n
      <4>3. Heads(h, frame, i, end)
        BY <3>3, <4>1, <4>2 DEF Heads
      <4> QED BY <4>3 DEF h, buf
    <3>6. CASE m \in 1..UsizeOctets /\ ~(n < 2 + m)
      <4> DEFINE body == BigEndian(SubSeq(frame, i + 3, i + 2 + m))
      <4>1. SubSeq(buf, 3, 2 + m) = SubSeq(frame, i + 3, i + 2 + m)
        <5>1. PICK e : e = 2 + m
          OBVIOUS
        <5>2. 3 \in Nat /\ e \in Nat /\ 1 <= 3 /\ 3 <= e + 1 /\ e <= n /\ i + e = i + 2 + m
          BY <1>1, <3>1, <3>6, <5>1
        <5>3. SubSeq(buf, 3, e) = SubSeq(frame, i + 3, i + e)
          BY <1>1, <5>2
        <5> QED BY <5>1, <5>2, <5>3
      <4>2. body \in Nat /\ i + (2 + m) <= end /\ 2 + m \in Nat /\ 2 + m >= 2
        <5>1. i + 2 + m <= end /\ i + (2 + m) <= end /\ 2 + m \in Nat /\ 2 + m >= 2
          BY <1>1, <3>1, <3>6 DEF n
        <5> QED BY <1>3, <3>1, <5>1
      <4>3. h = [is |-> "header", header |-> 2 + m, body |-> body]
        BY <1>1, <3>2, <3>6, <4>1
      <4> HIDE DEF body
      <4>4. h.is = "header" /\ h.header = 2 + m /\ h.body = body
        BY <4>3
      <4>5. HeaderAt(frame, i, 2 + m, body)
        BY <3>3, <3>6, <4>2 DEF body
      <4>6. Heads(h, frame, i, end)
        BY <3>3, <4>2, <4>4, <4>5 DEF Heads, body
      <4> QED BY <4>6 DEF h, buf
    <3> QED BY <3>4, <3>5, <3>6
  <2> QED BY <2>1, <2>2, <2>3
<1> QED BY <1>1, <1>4, <1>5

-----------------------------------------------------------------------------
(* The values of a frame *)

\* Nothing is tiled by nothing.
LEMMA TiledEmpty ==
    ASSUME NEW i \in Int, NEW S
    PROVE  Tiled(i, i, S)
<1>1. {i} \in SUBSET (i..i) /\ {i, i} \subseteq {i}
  OBVIOUS
<1>2. \A a, b \in {i} : ~(a < b)
  OBVIOUS
<1> QED BY <1>1, <1>2 DEF Tiled

\* A stretch that is not empty is tiled by a span and what tiles the rest.
LEMMA TiledSplits ==
    ASSUME NEW i \in Nat, NEW j \in Nat, i < j, NEW S
    PROVE  Tiled(i, j, S) <=> \E b \in (i + 1)..j : <<i, b>> \in S /\ Tiled(b, j, S)
<1> DEFINE Adjacent(cuts) ==
              \A a, b \in cuts : (a < b /\ \A k \in cuts : k <= a \/ k >= b) => <<a, b>> \in S
<1>1. ASSUME Tiled(i, j, S)
      PROVE  \E b \in (i + 1)..j : <<i, b>> \in S /\ Tiled(b, j, S)
  <2>1. PICK cuts \in SUBSET (i..j) : {i, j} \subseteq cuts /\ Adjacent(cuts)
    BY <1>1 DEF Tiled
  <2> DEFINE T == {k \in cuts : k > i}
  <2>2. T \in SUBSET Nat /\ j \in T
    <3>1. i..j \subseteq Nat
      OBVIOUS
    <3> QED BY <2>1, <3>1
  <2> HIDE DEF T
  <2>3. PICK b \in T : \A m \in T : b <= m
    BY <2>2, NatMin
  <2>4. b \in cuts /\ b > i /\ b \in (i + 1)..j /\ i \in cuts /\ j \in cuts
    BY <2>1, <2>3 DEF T
  <2>5. \A k \in cuts : k <= i \/ k >= b
    BY <2>1, <2>3, <2>4 DEF T
  <2>6. <<i, b>> \in S
    BY <2>1, <2>4, <2>5
  <2> DEFINE rest == cuts \cap (b..j)
  <2>7. rest \in SUBSET (b..j) /\ {b, j} \subseteq rest
    BY <2>4
  <2>8. Adjacent(rest)
    <3> SUFFICES ASSUME NEW x \in rest, NEW y \in rest, x < y, \A k \in rest : k <= x \/ k >= y
                 PROVE  <<x, y>> \in S
      OBVIOUS
    <3>1. \A k \in cuts : k <= x \/ k >= y
      <4> TAKE k \in cuts
      <4>1. k \in Int /\ x \in Int /\ k <= j /\ b <= x /\ b \in Int
        BY <2>1, <2>4
      <4>2. CASE k >= b
        BY <4>1, <4>2
      <4>3. CASE k < b
        BY <4>1, <4>3
      <4> QED BY <4>1, <4>2, <4>3
    <3> QED BY <2>1, <3>1
  <2> HIDE DEF rest
  <2>9. Tiled(b, j, S)
    BY <2>7, <2>8 DEF Tiled
  <2> QED BY <2>4, <2>6, <2>9
<1>2. ASSUME NEW b \in (i + 1)..j, <<i, b>> \in S, Tiled(b, j, S)
      PROVE  Tiled(i, j, S)
  <2>1. PICK cuts \in SUBSET (b..j) : {b, j} \subseteq cuts /\ Adjacent(cuts)
    BY <1>2 DEF Tiled
  <2> DEFINE all == cuts \cup {i}
  <2>2. all \in SUBSET (i..j) /\ {i, j} \subseteq all
    BY <2>1
  <2>3. Adjacent(all)
    <3> SUFFICES ASSUME NEW x \in all, NEW y \in all, x < y, \A k \in all : k <= x \/ k >= y
                 PROVE  <<x, y>> \in S
      OBVIOUS
    <3>1. \A k \in cuts : k \in Int /\ k >= b /\ k > i
      BY <2>1
    <3>2. CASE x = i
      <4>1. y \in cuts
        BY <3>2
      <4>2. b \in all /\ b > i
        BY <2>1
      <4>3. y = b
        BY <3>1, <3>2, <4>1, <4>2
      <4> QED BY <1>2, <3>2, <4>3
    <3>3. CASE x # i
      <4>1. x \in cuts /\ y \in cuts
        BY <3>1, <3>3
      <4> QED BY <2>1, <4>1
    <3> QED BY <3>2, <3>3
  <2> HIDE DEF all
  <2> QED BY <2>2, <2>3 DEF Tiled
<1> QED BY <1>1, <1>2

\* f[d] are the values with at most d containers, for d up to n.
Nests(f, frame, n) ==
    f = [d \in 0..n |-> Values(frame, d, IF d = 0 THEN {} ELSE f[d - 1])]

\* There are such sets for every depth.
LEMMA NestsExist == ASSUME NEW frame, NEW n \in Nat PROVE \E f : Nests(f, frame, n)
<1> DEFINE N == {k \in Nat : \E f : Nests(f, frame, k)}
<1>1. 0 \in N
  <2> DEFINE f == [d \in 0..0 |-> Values(frame, 0, {})]
  <2>1. f = [d \in 0..0 |-> Values(frame, d, IF d = 0 THEN {} ELSE f[d - 1])]
    OBVIOUS
  <2> QED BY <2>1 DEF Nests
<1>2. ASSUME NEW k \in N PROVE k + 1 \in N
  <2>1. PICK f : Nests(f, frame, k)
    OBVIOUS
  <2> DEFINE g == [d \in 0..(k + 1) |->
                     IF d <= k THEN f[d] ELSE Values(frame, d, f[d - 1])]
  <2>2. ASSUME NEW d \in 0..(k + 1)
        PROVE  g[d] = Values(frame, d, IF d = 0 THEN {} ELSE g[d - 1])
    <3>1. d # 0 => d - 1 \in 0..(k + 1) /\ d - 1 <= k
      OBVIOUS
    <3>2. d # 0 => g[d - 1] = f[d - 1]
      BY <3>1
    <3>3. CASE d <= k
      <4>1. d \in 0..k
        BY <3>3
      <4>2. f[d] = Values(frame, d, IF d = 0 THEN {} ELSE f[d - 1])
        BY <2>1, <4>1 DEF Nests
      <4>3. g[d] = f[d]
        BY <3>3
      <4> HIDE DEF g
      <4> QED BY <3>2, <4>2, <4>3
    <3>4. CASE ~(d <= k)
      <4>1. g[d] = Values(frame, d, f[d - 1]) /\ d # 0
        BY <3>4
      <4> HIDE DEF g
      <4> QED BY <3>2, <4>1
    <3> QED BY <3>3, <3>4
  <2>3. g = [d \in 0..(k + 1) |-> g[d]]
    OBVIOUS
  <2> HIDE DEF g
  <2>4. Nests(g, frame, k + 1)
    BY <2>2, <2>3 DEF Nests
  <2> QED BY <2>4
<1> HIDE DEF N
<1>3. N = Nat
  <2>1. N \in SUBSET Nat
    BY DEF N
  <2> QED BY <1>1, <1>2, <2>1, NatInd
<1> QED BY <1>3 DEF N

\* The values of a frame by depth.
SpansOf(frame) == CHOOSE f : Nests(f, frame, MaxBerDepth - 1)

\* A frame is well nested when the values one level below the limit tile it.
LEMMA SpansAre ==
    ASSUME NEW frame
    PROVE  /\ Nests(SpansOf(frame), frame, MaxBerDepth - 1)
           /\ WellNested(frame) <=> Tiled(0, Len(frame), SpansOf(frame)[MaxBerDepth - 1])
<1>1. MaxBerDepth - 1 \in Nat
  BY BerAssumption
<1>2. Nests(SpansOf(frame), frame, MaxBerDepth - 1)
  BY <1>1, NestsExist DEF SpansOf
<1>3. ValueSpans(frame) = SpansOf(frame)[MaxBerDepth - 1]
  BY DEF ValueSpans, SpansOf, Nests
<1> QED BY <1>2, <1>3 DEF WellNested

\* What is found at i decides which value starts there: it ends at i + header + body
\* and, if it is constructed, one level is left and its contents are values.
Begins(frame, i, h, d, b) ==
    /\ h.is = "header" /\ b = i + h.header + h.body
    /\ Constructed(frame[i + 1]) =>
          d > 0 /\ Tiled(i + h.header, b, SpansOf(frame)[d - 1])

\* A value within end starts at i exactly if ber_header finds it.
LEMMA ValueStarts ==
    ASSUME NEW frame \in Seq(Byte), NEW i \in Nat, NEW end \in Nat, i <= end, end <= Len(frame),
           NEW d \in 0..(MaxBerDepth - 1), NEW b \in Nat, i < b, b <= end
    PROVE  <<i, b>> \in SpansOf(frame)[d] <=>
              Begins(frame, i, BerHeader(SubSeq(frame, i + 1, end)), d, b)
<1> DEFINE h == BerHeader(SubSeq(frame, i + 1, end))
           S == SpansOf(frame)
           inner == IF d = 0 THEN {} ELSE S[d - 1]
<1>1. Heads(h, frame, i, end)
  BY HeaderIs
<1>2. Len(frame) \in Nat /\ MaxBerDepth \in Nat
  BY BerAssumption, LenProperties
<1>3. S[d] = Values(frame, d, inner)
  BY SpansAre DEF Nests
<1> HIDE DEF h, S, inner
<1>4. <<i, b>> \in (0..Len(frame)) \X (0..Len(frame))
  BY <1>2
<1>5. <<i, b>> \in S[d] <=>
         \E header \in 2..(b - i) :
            /\ HeaderAt(frame, i, header, b - i - header)
            /\ Constructed(frame[i + 1]) => d > 0 /\ Tiled(i + header, b, inner)
  BY <1>3, <1>4 DEF Values
<1>6. ASSUME NEW header \in 2..(b - i), HeaderAt(frame, i, header, b - i - header)
      PROVE  h.is = "header" /\ h.header = header /\ b = i + h.header + h.body
  <2>1. header \in Nat /\ b - i - header \in Nat /\ header >= 2 /\ i + header <= end
    BY <1>2
  <2>2. h.is = "header" /\ h.header = header /\ h.body = b - i - header
    BY <1>1, <1>6, <2>1 DEF Heads
  <2> QED BY <2>1, <2>2
<1>7. ASSUME h.is = "header", b = i + h.header + h.body
      PROVE  h.header \in 2..(b - i) /\ HeaderAt(frame, i, h.header, b - i - h.header)
  <2>1. h.header \in Nat /\ h.body \in Nat /\ h.header >= 2 /\ HeaderAt(frame, i, h.header, h.body)
    BY <1>1, <1>7 DEF Heads
  <2>2. b - i - h.header = h.body /\ h.header \in 2..(b - i)
    BY <1>7, <2>1
  <2> QED BY <2>1, <2>2
<1>8. d > 0 => inner = S[d - 1]
  BY <1>2 DEF inner
<1>9. <<i, b>> \in S[d] <=> Begins(frame, i, h, d, b)
  <2>1. ASSUME <<i, b>> \in S[d] PROVE Begins(frame, i, h, d, b)
    <3>1. PICK header \in 2..(b - i) :
             /\ HeaderAt(frame, i, header, b - i - header)
             /\ Constructed(frame[i + 1]) => d > 0 /\ Tiled(i + header, b, inner)
      BY <1>5, <2>1
    <3> QED BY <1>6, <1>8, <3>1 DEF Begins, S
  <2>2. ASSUME Begins(frame, i, h, d, b) PROVE <<i, b>> \in S[d]
    <3>1. /\ h.is = "header" /\ b = i + h.header + h.body
          /\ Constructed(frame[i + 1]) => d > 0 /\ Tiled(i + h.header, b, inner)
      BY <1>8, <2>2 DEF Begins, S
    <3> QED BY <1>5, <1>7, <3>1
  <2> QED BY <2>1, <2>2
<1> QED BY <1>9 DEF h, S

-----------------------------------------------------------------------------
(* validate_ber_structure *)

\* The containers that are open around the innermost one are values from its end on.
Around(frame, ends) ==
    \A k \in 1..(Len(ends) - 1) :
        Tiled(ends[k + 1], ends[k], SpansOf(frame)[MaxBerDepth - k])

\* What is left to walk is made of values.
RestTiled(frame, w) ==
    w.ends # <<>> =>
        /\ Around(frame, w.ends)
        /\ Tiled(w.position, w.ends[Len(w.ends)], SpansOf(frame)[MaxBerDepth - Len(w.ends)])

\* The stack and the position lie in the frame, the inner containers in the outer.
StackOK(frame, ends, position) ==
    /\ ends \in Seq(0..Len(frame)) /\ position \in 0..Len(frame)
    /\ Len(ends) <= MaxBerDepth
    /\ \A k \in 1..(Len(ends) - 1) : ends[k + 1] <= ends[k]
    /\ ends # <<>> => position <= ends[Len(ends)]

WalkOK(frame, w) ==
    /\ w = [is |-> w.is, ends |-> w.ends, position |-> w.position]
    /\ w.is \in {"walking", "bad"}
    /\ StackOK(frame, w.ends, w.position)

\* The walk may still succeed.
Hopeful(frame, w) == w.is = "walking" /\ RestTiled(frame, w)

\* A container on top of the stack.
LEMMA AroundAppend ==
    ASSUME NEW frame, NEW ends \in Seq(Nat), ends # <<>>, NEW b \in Nat
    PROVE  Around(frame, Append(ends, b)) <=>
              /\ Around(frame, ends)
              /\ Tiled(b, ends[Len(ends)], SpansOf(frame)[MaxBerDepth - Len(ends)])
<1> DEFINE n == Len(ends)
           a == Append(ends, b)
<1>1. n \in Nat /\ n >= 1 /\ Len(a) = n + 1 /\ a[n + 1] = b /\ \A k \in 1..n : a[k] = ends[k]
  BY LenProperties, AppendProperties
<1> HIDE DEF n, a
<1> DEFINE P(k) == Tiled(a[k + 1], a[k], SpansOf(frame)[MaxBerDepth - k])
           Q(k) == Tiled(ends[k + 1], ends[k], SpansOf(frame)[MaxBerDepth - k])
<1>2. Around(frame, a) <=> \A k \in 1..((n + 1) - 1) : P(k)
  BY <1>1 DEF Around
<1>3. Around(frame, ends) <=> \A k \in 1..(n - 1) : Q(k)
  BY DEF Around, n
<1>4. \A k \in 1..(n - 1) : P(k) <=> Q(k)
  <2> TAKE k \in 1..(n - 1)
  <2>1. k \in 1..n /\ k + 1 \in 1..n
    BY <1>1
  <2>2. a[k] = ends[k] /\ a[k + 1] = ends[k + 1]
    BY <1>1, <2>1
  <2> QED BY <2>2
<1>5. P(n) <=> Tiled(b, ends[n], SpansOf(frame)[MaxBerDepth - n])
  <2>1. n \in 1..n
    BY <1>1
  <2> QED BY <1>1, <2>1
<1> HIDE DEF P, Q
<1>6. 1..((n + 1) - 1) = 1..(n - 1) \cup {n}
  BY <1>1
<1> QED BY <1>2, <1>3, <1>4, <1>5, <1>6 DEF n, a

\* The stack without its top.
LEMMA FrontIs ==
    ASSUME NEW S, NEW ends \in Seq(S), ends # <<>>
    PROVE  /\ Front(ends) \in Seq(S) /\ Len(Front(ends)) = Len(ends) - 1
           /\ \A k \in 1..(Len(ends) - 1) : Front(ends)[k] = ends[k]
           /\ ends = Append(Front(ends), ends[Len(ends)])
           /\ ends[Len(ends)] \in S /\ Len(ends) \in Nat /\ Len(ends) >= 1
<1> DEFINE n == Len(ends)
           f == Front(ends)
<1>1. n \in Nat /\ n >= 1 /\ ends \in [1..n -> S]
  BY LenProperties
<1>2. f = SubSeq(ends, 1, n - 1)
  BY DEF Front
<1> HIDE DEF f, n
<1>3. IsSequence(f) /\ Len(f) = n - 1 /\ \A k \in 1..(n - 1) : f[k] = ends[k]
  <2>1. 1 \in Int /\ n - 1 \in Int /\ 1 <= (n - 1) + 1 /\ (n - 1) - 1 + 1 = n - 1
    BY <1>1
  <2>2. \A k \in 1..(n - 1) : 1 + k - 1 = k
    OBVIOUS
  <2> QED BY <1>2, <2>1, <2>2, SubSeqIs
<1>4. f \in Seq(S)
  <2>1. f = [k \in 1..(n - 1) |-> f[k]]
    BY <1>3, SequenceIs
  <2>2. f \in [1..(n - 1) -> S] /\ n - 1 \in Nat
    BY <1>1, <1>3, <2>1
  <2> QED BY <2>2
<1>5. ends[n] \in S
  BY <1>1
<1>6. ends = Append(f, ends[n])
  <2> DEFINE a == Append(f, ends[n])
  <2>1. a \in Seq(S) /\ Len(a) = n /\ a[n] = ends[n] /\ \A k \in 1..(n - 1) : a[k] = f[k]
    <3>1. Len(f) + 1 = n
      BY <1>1, <1>3
    <3> QED BY <1>3, <1>4, <1>5, <3>1, AppendProperties
  <2> HIDE DEF a
  <2>2. \A k \in 1..n : a[k] = ends[k]
    BY <1>1, <1>3, <2>1
  <2>3. a \in [1..n -> S]
    BY <2>1, LenProperties
  <2> QED BY <1>1, <2>2, <2>3 DEF a
<1> QED BY <1>1, <1>3, <1>4, <1>5, <1>6 DEF n, f

\* A container that ends where the walk is, is left.
LEMMA PopIs ==
    ASSUME NEW frame, Len(frame) \in Nat, NEW ends, NEW p, StackOK(frame, ends, p),
           ends # <<>>, p = ends[Len(ends)], NEW w, NEW v,
           w.ends = ends, w.position = p, v.ends = Front(ends), v.position = p
    PROVE  StackOK(frame, v.ends, p) /\ (RestTiled(frame, w) <=> RestTiled(frame, v))
<1> DEFINE n == Len(ends)
           f == Front(ends)
<1>1. /\ ends \in Seq(0..Len(frame)) /\ p \in 0..Len(frame) /\ n <= MaxBerDepth
      /\ \A k \in 1..(n - 1) : ends[k + 1] <= ends[k]
  BY DEF StackOK
<1>2. /\ f \in Seq(0..Len(frame)) /\ Len(f) = n - 1
      /\ \A k \in 1..(n - 1) : f[k] = ends[k]
      /\ ends = Append(f, p) /\ n \in Nat /\ n >= 1
  BY <1>1, FrontIs
<1> HIDE DEF f, n
<1>3. Tiled(p, p, SpansOf(frame)[MaxBerDepth - n])
  BY <1>1, TiledEmpty
<1>4. RestTiled(frame, w) <=> Around(frame, ends)
  BY <1>3 DEF RestTiled, n
<1>5. CASE f = <<>>
  <2>1. n = 1
    BY <1>2, <1>5
  <2>2. Around(frame, ends)
    BY <2>1 DEF Around, n
  <2>3. StackOK(frame, f, p)
    BY <1>1, <1>2, <1>5, BerAssumption DEF StackOK
  <2> QED BY <1>4, <1>5, <2>2, <2>3 DEF RestTiled, f
<1>6. CASE f # <<>>
  <2>1. n - 1 >= 1
    BY <1>2, <1>6
  <2>2. Around(frame, ends) <=>
           Around(frame, f) /\ Tiled(p, f[Len(f)], SpansOf(frame)[MaxBerDepth - Len(f)])
    <3>1. f \in Seq(Nat) /\ p \in Nat
      <4>1. 0..Len(frame) \subseteq Nat
        OBVIOUS
      <4> QED BY <1>1, <1>2, <4>1, SeqMonotonic
    <3> QED BY <1>2, <1>6, <3>1, AroundAppend
  <2>3. RestTiled(frame, v) <=> Around(frame, ends)
    BY <1>6, <2>2 DEF RestTiled, f
  <2>4. p <= f[n - 1]
    <3>1. n - 1 \in 1..(n - 1) /\ (n - 1) + 1 = n
      BY <1>2, <2>1
    <3>2. ends[n] <= ends[n - 1] /\ f[n - 1] = ends[n - 1]
      BY <1>1, <1>2, <3>1
    <3> QED BY <3>2 DEF n
  <2>5. \A k \in 1..((n - 1) - 1) : f[k + 1] <= f[k]
    <3> TAKE k \in 1..((n - 1) - 1)
    <3>1. k \in 1..(n - 1) /\ k + 1 \in 1..(n - 1)
      BY <1>2
    <3> QED BY <1>1, <1>2, <3>1
  <2>6. n - 1 <= MaxBerDepth
    BY <1>1, <1>2, BerAssumption
  <2>7. StackOK(frame, f, p)
    BY <1>1, <1>2, <2>4, <2>5, <2>6 DEF StackOK
  <2> QED BY <1>4, <2>3, <2>7 DEF f
<1> QED BY <1>5, <1>6

\* Where the next value ends, if there is one: nothing else starts at p.
LEMMA NextValue ==
    ASSUME NEW frame \in Seq(Byte), NEW p \in Nat, NEW end \in Nat, p < end, end <= Len(frame),
           NEW d \in 0..(MaxBerDepth - 1), NEW h, h = BerHeader(SubSeq(frame, p + 1, end))
    PROVE  LET S == SpansOf(frame)[d]
               b == p + h.header + h.body
           IN  /\ h.is # "header" \/ b > end => ~Tiled(p, end, S)
               /\ h.is = "header" /\ ~(b > end) =>
                     /\ h.header \in Nat /\ h.header >= 2 /\ h.body \in Nat /\ b \in Nat
                     /\ Tiled(p, end, S) <=> Begins(frame, p, h, d, b) /\ Tiled(b, end, S)
<1> DEFINE S == SpansOf(frame)[d]
           b == p + h.header + h.body
<1>1. h.is = "header" => h.header \in Nat /\ h.header >= 2 /\ h.body \in Nat /\ b \in Nat /\ p < b
  <2>1. Heads(h, frame, p, end)
    BY HeaderIs
  <2>2. h.is = "header" => h.header \in Nat /\ h.header >= 2 /\ h.body \in Nat
    BY <2>1 DEF Heads
  <2> QED BY <2>2
<1>2. Tiled(p, end, S) <=> \E c \in (p + 1)..end : <<p, c>> \in S /\ Tiled(c, end, S)
  BY TiledSplits
<1>3. ASSUME NEW c \in (p + 1)..end
      PROVE  <<p, c>> \in S <=> Begins(frame, p, h, d, c)
  <2>1. c \in Nat /\ p < c /\ c <= end /\ p <= end
    OBVIOUS
  <2> QED BY <2>1, ValueStarts
<1>4. \A c : Begins(frame, p, h, d, c) => h.is = "header" /\ c = b
  BY DEF Begins
<1> HIDE DEF S, b
<1>5. ASSUME h.is # "header" \/ b > end PROVE ~Tiled(p, end, S)
  <2> SUFFICES ASSUME Tiled(p, end, S) PROVE FALSE
    OBVIOUS
  <2>1. PICK c \in (p + 1)..end : <<p, c>> \in S
    BY <1>2
  <2>2. h.is = "header" /\ c = b
    BY <1>3, <1>4, <2>1
  <2>3. c <= end
    OBVIOUS
  <2> QED BY <1>1, <1>5, <2>2, <2>3
<1>6. ASSUME h.is = "header", ~(b > end)
      PROVE  Tiled(p, end, S) <=> Begins(frame, p, h, d, b) /\ Tiled(b, end, S)
  <2>1. b \in (p + 1)..end
    BY <1>1, <1>6
  <2> QED BY <1>2, <1>3, <1>4, <2>1
<1> QED BY <1>1, <1>5, <1>6 DEF S, b

\* A turn of the walk keeps the stack in order and the outcome open or not, and gets
\* on: it passes two bytes or more for every container it opens.
TurnKeeps(frame, w, v) ==
    /\ WalkOK(frame, v)
    /\ Hopeful(frame, w) <=> Hopeful(frame, v)
    /\ v.is = "walking" /\ v.ends # <<>> =>
          /\ w.is = "walking" /\ w.ends # <<>>
          /\ v.position - Len(v.ends) >= w.position - Len(w.ends) + 1

\* One turn of the loop of validate_ber_structure.
LEMMA TurnIs ==
    ASSUME NEW frame \in Seq(Byte), NEW w, WalkOK(frame, w), w.is = "walking", w.ends # <<>>
    PROVE  TurnKeeps(frame, w, Turn(frame, w))
<1> DEFINE L == Len(frame)
           ends == w.ends
           n == Len(ends)
           p == w.position
           end == ends[n]
           d == MaxBerDepth - n
           S == SpansOf(frame)
           remaining == SubSeq(frame, p + 1, end)
           h == BerHeader(remaining)
           b == p + h.header + h.body
           v == Turn(frame, w)
<1>0. L \in Nat /\ 0..L \subseteq Nat
  BY LenProperties
<1>1. /\ StackOK(frame, ends, p) /\ ends \in Seq(0..L) /\ p \in 0..L /\ n <= MaxBerDepth
      /\ p <= end /\ \A k \in 1..(n - 1) : ends[k + 1] <= ends[k]
  BY DEF WalkOK, StackOK
<1>2. n \in Nat /\ n >= 1 /\ end \in 0..L /\ end \in Nat /\ end <= L /\ p \in Nat
  BY <1>0, <1>1, FrontIs
<1>3. MaxBerDepth \in Nat /\ d \in 0..(MaxBerDepth - 1)
  BY <1>1, <1>2, BerAssumption
<1>4. w = [is |-> "walking", ends |-> ends, position |-> p]
  BY DEF WalkOK
<1>5. v = IF p = end THEN [w EXCEPT !.ends = Front(@)]
          ELSE IF h.is # "header" \/ b > end THEN [w EXCEPT !.is = "bad"]
          ELSE IF ~Constructed(remaining[1]) THEN [w EXCEPT !.position = b]
          ELSE IF TooDeep(ends) THEN [w EXCEPT !.is = "bad"]
          ELSE [w EXCEPT !.ends = Append(@, b), !.position = p + h.header]
  BY DEF Turn, Last
<1> HIDE DEF v
<1>6. Hopeful(frame, w) <=> Around(frame, ends) /\ Tiled(p, end, S[d])
  BY DEF Hopeful, RestTiled
<1>7. ASSUME v = [w EXCEPT !.is = "bad"], ~Tiled(p, end, S[d])
      PROVE  TurnKeeps(frame, w, v)
  <2>1. v = [is |-> "bad", ends |-> ends, position |-> p]
    BY <1>4, <1>7
  <2>2. v.is = "bad" /\ v.ends = ends /\ v.position = p
    BY <2>1
  <2>3. WalkOK(frame, v)
    BY <1>1, <2>1, <2>2 DEF WalkOK
  <2> QED BY <1>6, <1>7, <2>2, <2>3 DEF TurnKeeps, Hopeful
<1>8. CASE p = end
  <2>1. v = [is |-> "walking", ends |-> Front(ends), position |-> p]
    BY <1>4, <1>5, <1>8
  <2>2. v.is = "walking" /\ v.ends = Front(ends) /\ v.position = p
    BY <2>1
  <2>3. StackOK(frame, v.ends, p) /\ (RestTiled(frame, w) <=> RestTiled(frame, v))
    BY <1>0, <1>1, <1>8, <2>2, PopIs
  <2>4. WalkOK(frame, v)
    BY <2>1, <2>2, <2>3 DEF WalkOK
  <2>5. Len(v.ends) = n - 1
    BY <1>1, <2>2, FrontIs
  <2>6. v.position - Len(v.ends) >= w.position - Len(w.ends) + 1
    BY <1>2, <2>2, <2>5
  <2>7. TurnKeeps(frame, w, v)
    BY <2>2, <2>3, <2>4, <2>6 DEF TurnKeeps, Hopeful
  <2> QED BY <2>7 DEF v
<1>9. CASE p # end
  <2>0. p < end /\ p <= end
    BY <1>1, <1>2, <1>9
  <2>1. /\ h.is # "header" \/ b > end => ~Tiled(p, end, S[d])
        /\ h.is = "header" /\ ~(b > end) =>
              /\ h.header \in Nat /\ h.header >= 2 /\ h.body \in Nat /\ b \in Nat
              /\ Tiled(p, end, S[d]) <=> Begins(frame, p, h, d, b) /\ Tiled(b, end, S[d])
    BY <1>2, <1>3, <2>0, NextValue
  <2>2. remaining[1] = frame[p + 1]
    <3>1. 1 \in 1..(end - p)
      BY <1>2, <2>0
    <3> QED BY <1>2, <2>0, <3>1, StretchIs
  <2> HIDE DEF h, b, remaining
  <2>3. CASE h.is # "header" \/ b > end
    <3>1. v = [w EXCEPT !.is = "bad"]
      BY <1>5, <1>9, <2>3
    <3> QED BY <1>7, <2>1, <2>3, <3>1 DEF v
  <2>4. CASE h.is = "header" /\ ~(b > end)
    <3>0. /\ h.header \in Nat /\ h.header >= 2 /\ h.body \in Nat /\ b \in Nat /\ b <= end
          /\ p + h.header \in Nat /\ p + h.header <= b /\ p + 2 <= b /\ b = (p + h.header) + h.body
      BY <1>2, <2>1, <2>4 DEF b
    <3>00. b \in 0..L /\ p + h.header \in 0..L
      BY <1>0, <1>2, <3>0
    <3>1. Begins(frame, p, h, d, b) <=>
             (Constructed(frame[p + 1]) => d > 0 /\ Tiled(p + h.header, b, S[d - 1]))
      BY <2>4 DEF Begins, b
    <3>2. CASE ~Constructed(frame[p + 1])
      <4>1. v = [is |-> "walking", ends |-> ends, position |-> b]
        BY <1>4, <1>5, <1>9, <2>2, <2>4, <3>2
      <4>2. v.is = "walking" /\ v.ends = ends /\ v.position = b
        BY <4>1
      <4>3. WalkOK(frame, v)
        BY <1>1, <3>0, <3>00, <4>1, <4>2 DEF WalkOK, StackOK
      <4>4. Hopeful(frame, v) <=> Around(frame, ends) /\ Tiled(b, end, S[d])
        BY <4>2 DEF Hopeful, RestTiled
      <4>5. Hopeful(frame, w) <=> Hopeful(frame, v)
        BY <1>6, <2>1, <2>4, <3>1, <3>2, <4>4
      <4>6. v.position - Len(v.ends) >= w.position - Len(w.ends) + 1
        BY <1>2, <3>0, <4>2
      <4> QED BY <4>3, <4>5, <4>6 DEF TurnKeeps, v
    <3>3. CASE Constructed(frame[p + 1]) /\ TooDeep(ends)
      <4>1. v = [w EXCEPT !.is = "bad"]
        BY <1>5, <1>9, <2>2, <2>4, <3>3
      <4>2. ~(d > 0)
        BY <1>2, <1>3, <3>3 DEF TooDeep
      <4>3. ~Tiled(p, end, S[d])
        BY <2>1, <2>4, <3>1, <3>3, <4>2
      <4> QED BY <1>7, <4>1, <4>3 DEF v
    <3>4. CASE Constructed(frame[p + 1]) /\ ~TooDeep(ends)
      <4> DEFINE a == Append(ends, b)
                 q == p + h.header
      <4>1. v = [is |-> "walking", ends |-> a, position |-> q]
        BY <1>4, <1>5, <1>9, <2>2, <2>4, <3>4
      <4>2. /\ a \in Seq(0..L) /\ Len(a) = n + 1 /\ a[n + 1] = b /\ \A k \in 1..n : a[k] = ends[k]
            /\ a # <<>>
        BY <1>1, <3>00, AppendProperties
      <4>3. d > 0 /\ n + 1 <= MaxBerDepth /\ MaxBerDepth - (n + 1) = d - 1
        BY <1>2, <1>3, <3>4 DEF TooDeep
      <4> HIDE DEF a, q
      <4>4. v.is = "walking" /\ v.ends = a /\ v.position = q
        BY <4>1
      <4>5. \A k \in 1..((n + 1) - 1) : a[k + 1] <= a[k]
        <5> TAKE k \in 1..((n + 1) - 1)
        <5>1. CASE k = n
          <6>1. a[k + 1] = b /\ a[k] = end
            BY <1>2, <4>2, <5>1
          <6> QED BY <3>0, <6>1
        <5>2. CASE k # n
          <6>1. k \in 1..(n - 1) /\ k \in 1..n /\ k + 1 \in 1..n
            BY <1>2, <5>2
          <6> QED BY <1>1, <4>2, <6>1
        <5> QED BY <5>1, <5>2
      <4>6. WalkOK(frame, v)
        <5>1. q <= a[Len(a)] /\ q \in 0..L
          BY <3>0, <3>00, <4>2 DEF q
        <5> QED BY <4>1, <4>2, <4>3, <4>4, <4>5, <5>1 DEF WalkOK, StackOK
      <4>7. Around(frame, a) <=> Around(frame, ends) /\ Tiled(b, end, S[d])
        <5>1. ends \in Seq(Nat) /\ b \in Nat
          BY <1>0, <1>1, <3>0, SeqMonotonic
        <5> QED BY <5>1, AroundAppend DEF a
      <4>8. Hopeful(frame, v) <=> Around(frame, a) /\ Tiled(q, b, S[d - 1])
        BY <4>2, <4>3, <4>4 DEF Hopeful, RestTiled
      <4>9. Hopeful(frame, w) <=> Hopeful(frame, v)
        BY <1>6, <2>1, <2>4, <3>1, <3>4, <4>3, <4>7, <4>8 DEF q
      <4>10. v.position - Len(v.ends) >= w.position - Len(w.ends) + 1
        <5>1. Len(v.ends) = n + 1 /\ v.position = p + h.header
          BY <4>2, <4>4 DEF q
        <5> HIDE DEF n, p
        <5>2. (p + h.header) - (n + 1) >= p - n + 1
          BY <1>2, <3>0
        <5> QED BY <5>1, <5>2 DEF n, p
      <4> QED BY <4>6, <4>9, <4>10 DEF TurnKeeps, v
    <3> QED BY <3>2, <3>3, <3>4
  <2> QED BY <2>3, <2>4
<1> QED BY <1>8, <1>9 DEF v

Outset(frame) == [is |-> "walking", ends |-> <<Len(frame)>>, position |-> 0]

\* f[n] is the walk after n turns, for n up to m.
Walks(f, frame, m) ==
    f = [n \in 0..m |-> IF n = 0 THEN Outset(frame) ELSE Turn(frame, f[n - 1])]

\* There is a walk of every length.
LEMMA WalksExist == ASSUME NEW frame, NEW m \in Nat PROVE \E f : Walks(f, frame, m)
<1> DEFINE N == {k \in Nat : \E f : Walks(f, frame, k)}
<1>1. 0 \in N
  <2> DEFINE f == [n \in 0..0 |-> Outset(frame)]
  <2>1. f = [n \in 0..0 |-> IF n = 0 THEN Outset(frame) ELSE Turn(frame, f[n - 1])]
    OBVIOUS
  <2> QED BY <2>1 DEF Walks
<1>2. ASSUME NEW k \in N PROVE k + 1 \in N
  <2>1. PICK f : Walks(f, frame, k)
    OBVIOUS
  <2> DEFINE g == [n \in 0..(k + 1) |-> IF n <= k THEN f[n] ELSE Turn(frame, f[n - 1])]
  <2>2. ASSUME NEW n \in 0..(k + 1)
        PROVE  g[n] = IF n = 0 THEN Outset(frame) ELSE Turn(frame, g[n - 1])
    <3>1. n # 0 => n - 1 \in 0..(k + 1) /\ n - 1 <= k
      OBVIOUS
    <3>2. n # 0 => g[n - 1] = f[n - 1]
      BY <3>1
    <3>3. CASE n <= k
      <4>1. n \in 0..k
        BY <3>3
      <4>2. f[n] = IF n = 0 THEN Outset(frame) ELSE Turn(frame, f[n - 1])
        BY <2>1, <4>1 DEF Walks
      <4>3. g[n] = f[n]
        BY <3>3
      <4> HIDE DEF g
      <4> QED BY <3>2, <4>2, <4>3
    <3>4. CASE ~(n <= k)
      <4>1. g[n] = Turn(frame, f[n - 1]) /\ n # 0
        BY <3>4
      <4> HIDE DEF g
      <4> QED BY <3>2, <4>1
    <3> QED BY <3>3, <3>4
  <2>3. g = [n \in 0..(k + 1) |-> g[n]]
    OBVIOUS
  <2> HIDE DEF g
  <2>4. Walks(g, frame, k + 1)
    BY <2>2, <2>3 DEF Walks
  <2> QED BY <2>4
<1> HIDE DEF N
<1>3. N = Nat
  <2>1. N \in SUBSET Nat
    BY DEF N
  <2> QED BY <1>1, <1>2, <2>1, NatInd
<1> QED BY <1>3 DEF N

\* After n turns: the stack is in order, the walk is hopeful exactly if the frame is
\* well nested, and while a container is open it has got on.
AfterTurns(frame, w, n) ==
    /\ WalkOK(frame, w)
    /\ Hopeful(frame, w) <=> WellNested(frame)
    /\ w.is = "walking" /\ w.ends # <<>> => n <= w.position + 1 - Len(w.ends)

\* The start of the walk.
LEMMA OutsetIs ==
    ASSUME NEW frame \in Seq(Byte)
    PROVE  AfterTurns(frame, Outset(frame), 0)
<1> DEFINE L == Len(frame)
           w == Outset(frame)
           ends == <<L>>
<1>1. L \in Nat /\ MaxBerDepth \in Nat /\ MaxBerDepth >= 1
  BY LenProperties, BerAssumption
<1>2. w = [is |-> "walking", ends |-> ends, position |-> 0]
  BY DEF Outset
<1>3. Len(ends) = 1 /\ ends[1] = L /\ ends # <<>> /\ ends \in Seq(0..L)
  BY <1>1
<1> HIDE DEF ends, w
<1>4. w.is = "walking" /\ w.ends = ends /\ w.position = 0
  BY <1>2
<1>5. WalkOK(frame, w)
  <2>1. /\ 0 \in 0..L /\ Len(ends) <= MaxBerDepth /\ 0 <= ends[Len(ends)]
        /\ \A k \in 1..(Len(ends) - 1) : ends[k + 1] <= ends[k]
    BY <1>1, <1>3
  <2>2. StackOK(frame, ends, 0)
    BY <1>3, <2>1 DEF StackOK
  <2> QED BY <1>2, <1>4, <2>2 DEF WalkOK
<1>6. Around(frame, ends)
  BY <1>3 DEF Around
<1>7. Hopeful(frame, w) <=> WellNested(frame)
  BY <1>3, <1>4, <1>6, SpansAre DEF Hopeful, RestTiled
<1>8. 0 <= w.position + 1 - Len(w.ends)
  <2>1. w.position = 0 /\ Len(w.ends) = 1
    BY <1>3, <1>4
  <2> QED BY <2>1
<1> QED BY <1>5, <1>7, <1>8 DEF AfterTurns, w

\* The walk after every number of turns.
LEMMA WalkIs ==
    ASSUME NEW frame \in Seq(Byte), NEW m \in Nat, NEW f, Walks(f, frame, m), NEW n \in 0..m
    PROVE  AfterTurns(frame, f[n], n)
<1> DEFINE N == {k \in Nat : k <= m => AfterTurns(frame, f[k], k)}
<1>1. 0 \in N
  <2>1. f[0] = Outset(frame)
    BY DEF Walks
  <2> QED BY <2>1, OutsetIs
<1>2. ASSUME NEW k \in N PROVE k + 1 \in N
  <2> SUFFICES ASSUME k + 1 <= m PROVE AfterTurns(frame, f[k + 1], k + 1)
    OBVIOUS
  <2>1. PICK w, v : w = f[k] /\ v = f[k + 1]
    OBVIOUS
  <2>2. AfterTurns(frame, w, k) /\ v = Turn(frame, w)
    <3>1. k + 1 \in 0..m /\ k + 1 # 0 /\ (k + 1) - 1 = k /\ k <= m
      OBVIOUS
    <3> QED BY <2>1, <3>1 DEF Walks
  <2>3. CASE w.is # "walking" \/ w.ends = <<>>
    <3>1. v = w
      BY <2>2, <2>3 DEF Turn
    <3> QED BY <2>1, <2>2, <2>3, <3>1 DEF AfterTurns
  <2>4. CASE w.is = "walking" /\ w.ends # <<>>
    <3>1. TurnKeeps(frame, w, v)
      BY <2>2, <2>4, TurnIs DEF AfterTurns
    <3>2. ASSUME v.is = "walking", v.ends # <<>> PROVE k + 1 <= v.position + 1 - Len(v.ends)
      <4>1. k <= w.position + 1 - Len(w.ends)
        BY <2>2, <2>4 DEF AfterTurns
      <4>2. v.position - Len(v.ends) >= w.position - Len(w.ends) + 1
        BY <3>1, <3>2 DEF TurnKeeps
      <4>3. w.position \in Int /\ Len(w.ends) \in Int /\ v.position \in Int /\ Len(v.ends) \in Int
        <5>1. Len(frame) \in Nat
          BY LenProperties
        <5> QED BY <2>2, <3>1, <5>1, LenProperties DEF AfterTurns, TurnKeeps, WalkOK, StackOK
      <4> QED BY <4>1, <4>2, <4>3
    <3> QED BY <2>1, <2>2, <3>1, <3>2 DEF AfterTurns, TurnKeeps
  <2> QED BY <2>3, <2>4
<1> HIDE DEF N
<1>3. N = Nat
  <2>1. N \in SUBSET Nat
    BY DEF N
  <2> QED BY <1>1, <1>2, <2>1, NatInd
<1> QED BY <1>3 DEF N

\* validate_ber_structure passes exactly the frames that are well nested.
LEMMA ValidIsWellNested ==
    ASSUME NEW frame \in Seq(Byte)
    PROVE  ValidBerStructure(frame) <=> WellNested(frame)
<1> DEFINE m == Len(frame) + 1
           f == CHOOSE g : Walks(g, frame, m)
           w == f[m]
<1>1. Len(frame) \in Nat /\ m \in Nat /\ m \in 0..m
  BY LenProperties
<1>2. Walks(f, frame, m)
  BY <1>1, WalksExist
<1>3. ValidBerStructure(frame) <=> w.is = "walking"
  BY DEF ValidBerStructure, Walks, Outset
<1> HIDE DEF f
<1>4. AfterTurns(frame, w, m)
  BY <1>1, <1>2, WalkIs
<1> HIDE DEF w
<1>5. ASSUME w.is = "walking" PROVE w.ends = <<>>
  <2> SUFFICES ASSUME w.ends # <<>> PROVE FALSE
    OBVIOUS
  <2>1. m <= w.position + 1 - Len(w.ends)
    BY <1>4, <1>5 DEF AfterTurns
  <2>2. w.ends \in Seq(0..Len(frame)) /\ w.position \in 0..Len(frame)
    BY <1>4 DEF AfterTurns, WalkOK, StackOK
  <2>3. Len(w.ends) \in Nat /\ Len(w.ends) >= 1
    BY <2>2, FrontIs
  <2> QED BY <1>1, <2>1, <2>2, <2>3
<1>6. w.is = "walking" <=> Hopeful(frame, w)
  BY <1>5 DEF Hopeful, RestTiled
<1> QED BY <1>3, <1>4, <1>6 DEF AfterTurns

-----------------------------------------------------------------------------
(* BoundedLdapCodec *)

\* usize holds the largest frame.
LEMMA UsizeIs == MaxBerSize \in Nat /\ MaxBerSize >= 2 /\ \A n \in Nat : n >= Usize => n > MaxBerSize
BY BerAssumption DEF Usize

\* The bytes a header with the length byte o has.
HeaderBytes(o) == IF o < 128 THEN 2 ELSE o - 126

\* How ber_header reads what has come so far.
LEMMA HeaderOfBuffer ==
    ASSUME NEW buf \in Seq(Byte), Len(buf) >= 2, NEW h, h = BerHeader(buf)
    PROVE  /\ h.is = "bad" <=> buf[2] \in {128} \cup (129 + UsizeOctets)..255
           /\ h.is = "header" => /\ h.header = HeaderBytes(buf[2])
                                 /\ Len(buf) >= HeaderBytes(buf[2])
                                 /\ h.body = IF h.header = 2 THEN buf[2]
                                             ELSE BigEndian(SubSeq(buf, 3, h.header))
           /\ h.is = "more" => ~(Len(buf) >= HeaderBytes(buf[2]))
           /\ h.is \in {"bad", "header", "more"}
<1> DEFINE o == buf[2]
           n == Len(buf)
           m == o % 128
<1>0. n \in Nat /\ UsizeOctets \in Nat /\ o \in 0..255
  <2>1. Len(buf) \in Nat /\ \A k \in 1..Len(buf) : buf[k] \in Byte
    BY LenProperties
  <2>2. 2 \in 1..Len(buf)
    BY <2>1
  <2> QED BY <2>1, <2>2, BerAssumption DEF Byte
<1>1. h = IF o < 128 THEN [is |-> "header", header |-> 2, body |-> o]
          ELSE IF m \notin 1..UsizeOctets THEN Bad
          ELSE IF n < 2 + m THEN More
          ELSE [is |-> "header", header |-> 2 + m, body |-> BigEndian(SubSeq(buf, 3, 2 + m))]
  BY <1>0 DEF BerHeader
<1> HIDE DEF o, n
<1>2. CASE o < 128
  <2>1. h.is = "header" /\ h.header = 2 /\ h.body = o
    BY <1>1, <1>2
  <2>2. o \notin {128} \cup (129 + UsizeOctets)..255 /\ HeaderBytes(o) = 2 /\ n >= 2
    BY <1>0, <1>2 DEF HeaderBytes, n
  <2> QED BY <2>1, <2>2 DEF o, n
<1>3. CASE o >= 128
  <2>1. m \in Nat /\ o = 128 + m /\ ~(o < 128)
    BY <1>0, <1>3
  <2> HIDE DEF m
  <2>2. /\ HeaderBytes(o) = 2 + m
        /\ m \notin 1..UsizeOctets <=> o \in {128} \cup (129 + UsizeOctets)..255
    BY <1>0, <2>1 DEF HeaderBytes
  <2>3. CASE m \notin 1..UsizeOctets
    <3>1. h.is = "bad"
      BY <1>1, <2>1, <2>3 DEF Bad
    <3> QED BY <2>2, <2>3, <3>1 DEF o
  <2>4. CASE m \in 1..UsizeOctets /\ n < 2 + m
    <3>1. h.is = "more"
      BY <1>1, <2>1, <2>4 DEF More
    <3>2. ~(n >= 2 + m)
      BY <1>0, <2>1, <2>4
    <3> QED BY <2>2, <2>4, <3>1, <3>2 DEF o, n
  <2>5. CASE m \in 1..UsizeOctets /\ ~(n < 2 + m)
    <3>1. h.is = "header" /\ h.header = 2 + m /\ h.body = BigEndian(SubSeq(buf, 3, 2 + m))
      BY <1>1, <2>1, <2>5
    <3>2. n >= 2 + m /\ 2 + m # 2
      BY <1>0, <2>1, <2>5
    <3> QED BY <2>2, <2>5, <3>1, <3>2 DEF o, n
  <2> QED BY <2>3, <2>4, <2>5
<1> QED BY <1>0, <1>2, <1>3

\* BoundedLdapCodec::decode takes exactly the frames, and fails exactly when what
\* came can no longer become one.
LEMMA DecodeDecides ==
    ASSUME NEW buf \in Seq(Byte)
    PROVE  /\ Decode(buf).is = "frame" <=> IsFrame(buf)
           /\ Decode(buf).is = "bad" <=> IsHopeless(buf)
<1> DEFINE n == Len(buf)
           h == BerHeader(buf)
           length == h.header + h.body
           v == Decode(buf)
<1>0. n \in Nat
  BY LenProperties
<1>1. Heads(h, buf, 0, n)
  <2>1. buf = SubSeq(buf, 0 + 1, n)
    <3>1. /\ SubSeq(buf, 0 + 1, n) \in Seq(Byte) /\ Len(SubSeq(buf, 0 + 1, n)) = n - 0
          /\ \A k \in 1..(n - 0) : SubSeq(buf, 0 + 1, n)[k] = buf[0 + k]
      BY <1>0, StretchIs
    <3>2. n - 0 = n /\ \A k \in 1..n : 0 + k = k
      BY <1>0
    <3> DEFINE s == SubSeq(buf, 0 + 1, n)
    <3> HIDE DEF s
    <3>3. s \in Seq(Byte) /\ Len(s) = n /\ \A k \in 1..n : s[k] = buf[k]
      BY <3>1, <3>2 DEF s
    <3>4. s \in [1..n -> Byte] /\ buf \in [1..n -> Byte]
      BY <3>3, LenProperties
    <3>5. s = buf
      BY <3>3, <3>4
    <3> QED BY <3>5 DEF s
  <2>2. 0 \in Nat /\ 0 <= n /\ n <= Len(buf)
    BY <1>0
  <2>3. Heads(BerHeader(SubSeq(buf, 0 + 1, n)), buf, 0, n)
    BY <1>0, <2>2, HeaderIs
  <2> QED BY <2>1, <2>3
<1>2. v = IF h.is # "header" THEN h
          ELSE IF length >= Usize \/ length > MaxBerSize THEN Bad
          ELSE IF n < length THEN More
          ELSE IF ValidBerStructure(SubSeq(buf, 1, length)) THEN [is |-> "frame", length |-> length]
          ELSE Bad
  BY DEF Decode
<1> HIDE DEF v, h
<1>3. h.is = "header" => length \in Nat /\ length >= 2
  BY <1>1 DEF Heads
<1>4. IsFrame(buf) <=>
         h.is = "header" /\ length <= n /\ length <= MaxBerSize /\ WellNested(SubSeq(buf, 1, length))
  <2>1. ASSUME IsFrame(buf)
        PROVE  /\ h.is = "header" /\ length <= n /\ length <= MaxBerSize
               /\ WellNested(SubSeq(buf, 1, length))
    <3>1. PICK k \in 2..n :
             /\ k <= MaxBerSize
             /\ \E header \in 2..k : HeaderAt(buf, 0, header, k - header)
             /\ WellNested(SubSeq(buf, 1, k))
      BY <2>1 DEF IsFrame
    <3>2. PICK header \in 2..k : HeaderAt(buf, 0, header, k - header)
      BY <3>1
    <3>3. header \in Nat /\ k - header \in Nat /\ header >= 2 /\ 0 + header <= n /\ k \in Nat /\ k <= n
      BY <1>0
    <3>4. h.is = "header" /\ h.header = header /\ h.body = k - header
      BY <1>1, <3>2, <3>3 DEF Heads
    <3>5. length = k
      BY <3>3, <3>4
    <3> QED BY <3>1, <3>3, <3>4, <3>5
  <2>2. ASSUME h.is = "header", length <= n, length <= MaxBerSize, WellNested(SubSeq(buf, 1, length))
        PROVE  IsFrame(buf)
    <3>1. h.header \in Nat /\ h.body \in Nat /\ h.header >= 2 /\ HeaderAt(buf, 0, h.header, h.body)
      BY <1>1, <2>2 DEF Heads
    <3>2. length \in 2..n /\ h.header \in 2..length /\ length - h.header = h.body
      BY <1>0, <1>3, <2>2, <3>1
    <3> HIDE DEF length
    <3> QED BY <2>2, <3>1, <3>2 DEF IsFrame
  <2> QED BY <2>1, <2>2
<1>5. h.is = "header" /\ length <= n =>
         (ValidBerStructure(SubSeq(buf, 1, length)) <=> WellNested(SubSeq(buf, 1, length)))
  <2> SUFFICES ASSUME h.is = "header", length <= n
               PROVE  ValidBerStructure(SubSeq(buf, 1, length)) <=> WellNested(SubSeq(buf, 1, length))
    OBVIOUS
  <2>1. length \in Nat /\ 0 \in Nat /\ 0 <= length /\ length <= Len(buf) /\ 0 + 1 = 1
    BY <1>3
  <2> HIDE DEF length
  <2>2. SubSeq(buf, 1, length) \in Seq(Byte)
    BY <2>1, StretchIs
  <2> QED BY <2>2, ValidIsWellNested
<1>6. IsHopeless(buf) <=>
         \/ h.is = "bad"
         \/ /\ h.is = "header"
            /\ length > MaxBerSize \/ (n >= length /\ ~WellNested(SubSeq(buf, 1, length)))
  <2>1. CASE n < 2
    <3>1. ~IsHopeless(buf)
      BY <1>0, <2>1 DEF IsHopeless
    <3>2. h.is = "more"
      BY <2>1 DEF h, BerHeader, More
    <3> QED BY <3>1, <3>2
  <2>2. CASE n >= 2
    <3> DEFINE o == buf[2]
               header == HeaderBytes(o)
               k == header + (IF header = 2 THEN o ELSE BigEndian(SubSeq(buf, 3, header)))
    <3>1. IsHopeless(buf) <=>
             \/ o \in {128} \cup (129 + UsizeOctets)..255
             \/ n >= header /\ (k > MaxBerSize \/ (n >= k /\ ~WellNested(SubSeq(buf, 1, k))))
      BY <2>2 DEF IsHopeless, HeaderBytes
    <3>2. /\ h.is = "bad" <=> o \in {128} \cup (129 + UsizeOctets)..255
          /\ h.is = "header" => /\ h.header = header /\ n >= header
                                /\ h.body = IF h.header = 2 THEN o
                                            ELSE BigEndian(SubSeq(buf, 3, h.header))
          /\ h.is = "more" => ~(n >= header)
          /\ h.is \in {"bad", "header", "more"}
      BY <2>2, HeaderOfBuffer DEF h
    <3> HIDE DEF o, header
    <3>3. h.is = "header" => length = k
      BY <3>2
    <3> HIDE DEF k, length
    <3> QED BY <3>1, <3>2, <3>3
  <2> QED BY <1>0, <2>1, <2>2
<1> HIDE DEF length
<1>7. h.is \in {"header", "more", "bad"}
  BY <1>1 DEF Heads
<1>8. CASE h.is # "header"
  <2>1. v = h
    BY <1>2, <1>8
  <2>2. v.is # "frame" /\ (v.is = "bad" <=> h.is = "bad")
    BY <1>7, <1>8, <2>1
  <2> QED BY <1>4, <1>6, <1>8, <2>2 DEF v
<1>9. CASE h.is = "header" /\ (length >= Usize \/ length > MaxBerSize)
  <2>1. v.is = "bad"
    BY <1>2, <1>9 DEF Bad
  <2>2. length > MaxBerSize /\ ~(length <= MaxBerSize)
    BY <1>3, <1>9, UsizeIs
  <2> QED BY <1>4, <1>6, <1>9, <2>1, <2>2 DEF v
<1>10. CASE h.is = "header" /\ ~(length >= Usize \/ length > MaxBerSize)
  <2>0. length \in Nat /\ length <= MaxBerSize /\ ~(length > MaxBerSize)
    BY <1>3, <1>10, UsizeIs
  <2>1. CASE n < length
    <3>1. v.is = "more"
      BY <1>2, <1>10, <2>1 DEF More
    <3>2. ~(length <= n) /\ ~(n >= length)
      BY <1>0, <2>0, <2>1
    <3> QED BY <1>4, <1>6, <1>10, <2>0, <3>1, <3>2 DEF v
  <2>2. CASE ~(n < length)
    <3>1. length <= n /\ n >= length
      BY <1>0, <2>0, <2>2
    <3>2. CASE WellNested(SubSeq(buf, 1, length))
      <4>1. v.is = "frame"
        BY <1>2, <1>5, <1>10, <2>2, <3>1, <3>2
      <4> QED BY <1>4, <1>6, <1>10, <2>0, <3>1, <3>2, <4>1 DEF v
    <3>3. CASE ~WellNested(SubSeq(buf, 1, length))
      <4>1. v.is = "bad"
        BY <1>2, <1>5, <1>10, <2>2, <3>1, <3>3 DEF Bad
      <4> QED BY <1>4, <1>6, <1>10, <2>0, <3>1, <3>3, <4>1 DEF v
    <3> QED BY <3>2, <3>3
  <2> QED BY <2>1, <2>2
<1> QED BY <1>7, <1>8, <1>9, <1>10

=============================================================================
