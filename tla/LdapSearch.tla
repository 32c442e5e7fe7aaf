------------------------------ MODULE LdapSearch ------------------------------
(***************************************************************************)
(* What an LDAP search returns (ldap/schema.rs, ldap/filter.rs and          *)
(* handle_search).  A name is a sequence of letters, a DN the sequence of   *)
(* its RDNs <<attribute, name>>, the leaf first, as parse_dn builds it; the *)
(* text of a DN is not modelled, except that it may not parse (BadDn).      *)
(***************************************************************************)
EXTENDS Integers, Sequences, SequencesExt

CONSTANTS
    Upper,        \* the upper-case letters, each with its lower-case one
    Persons,      \* the users: [uid, mail, roles]
    RoleNames,    \* the roles
    BadDn         \* text that parse_dn refuses

IsSequence(s) == s \in Seq({s[i] : i \in DOMAIN s})

\* What is stored has names.
ASSUME DirectoryAssumption ==
    /\ \A u \in Persons : IsSequence(u.uid) /\ \A m \in u.mail : IsSequence(m)
    /\ \A r \in RoleNames : IsSequence(r)

\* to_ascii_lowercase, and with it eq_ignore_ascii_case.
Lower(name) == [i \in DOMAIN name |-> IF name[i] \in DOMAIN Upper THEN Upper[name[i]] ELSE name[i]]
SameName(a, b) == Lower(a) = Lower(b)

-----------------------------------------------------------------------------
(* DNs *)

SameRdn(a, b) == a[1] = b[1] /\ SameName(a[2], b[2])

\* Dn::equals.
DnEquals(a, b) == Len(a) = Len(b) /\ \A i \in DOMAIN a : SameRdn(a[i], b[i])

\* Dn::is_under.
IsUnder(dn, suffix) ==
    /\ Len(dn) >= Len(suffix)
    /\ \A i \in DOMAIN suffix : SameRdn(dn[Len(dn) - Len(suffix) + i], suffix[i])

\* Dn::depth_under = Some(n).
DepthUnder(dn, suffix, n) == IsUnder(dn, suffix) /\ Len(dn) - Len(suffix) = n

PeopleDn(base_dn) == <<<<"ou", <<"p">>>>>> \o base_dn
GroupsDn(base_dn) == <<<<"ou", <<"g">>>>>> \o base_dn
ServiceDn(base_dn) == <<<<"cn", <<"s">>>>>> \o base_dn
UserDn(uid, base_dn) == <<<<"uid", uid>>>> \o PeopleDn(base_dn)
GroupDn(name, base_dn) == <<<<"cn", name>>>> \o GroupsDn(base_dn)

-----------------------------------------------------------------------------
(* Entries: the attributes that depend on what is in the directory. *)

\* A function on the attributes an entry has, without those that have no values.
Having(attrs) == [a \in {b \in DOMAIN attrs : attrs[b] # {}} |-> attrs[a]]

\* The role lookups that failed in a search: of a user, for the user's own entry,
\* and of a user once more for the entry of each role.  A failed lookup is logged
\* or not, and taken for a user without roles.
Lookups == [users : SUBSET Persons, members : SUBSET (RoleNames \X Persons)]
NoneLost == [users |-> {}, members |-> {}]

UserEntry(u, base_dn, lost) ==
    [dn |-> UserDn(u.uid, base_dn),
     attrs |-> Having([uid |-> {u.uid}, mail |-> u.mail,
                       memberOf |-> IF u \in lost.users THEN {}
                                    ELSE {GroupDn(r, base_dn) : r \in u.roles}])]

Members(r, lost) == {u \in Persons : r \in u.roles /\ <<r, u>> \notin lost.members}

GroupEntry(r, base_dn, lost) ==
    [dn |-> GroupDn(r, base_dn),
     attrs |-> [cn |-> {r},
                member |-> IF Members(r, lost) = {} THEN {<<<<"cn", <<"x">>>>>> \o base_dn}
                           ELSE {UserDn(u.uid, base_dn) : u \in Members(r, lost)}]]

RootDse(base_dn) == [dn |-> <<>>, attrs |-> [namingContexts |-> {base_dn}]]

-----------------------------------------------------------------------------
(* Filters: atoms, and one level of and, or and not over them. *)

StartsWith(name, needle) == IsPrefix(needle, name)
EndsWith(name, needle) == IsSuffix(needle, name)

\* Where needle occurs in name after the cursor.
Occurrences(name, needle, cursor) ==
    {i \in cursor..(Len(name) - Len(needle)) : SubSeq(name, i + 1, i + Len(needle)) = needle}

\* Mutant: the last place.
FindLast(places) == CHOOSE i \in places : \A j \in places : i >= j

\* str::find, which returns the first place.
Find(places) == CHOOSE i \in places : \A j \in places : i <= j

\* One round of the loop of substring_matches: the part is taken at the first
\* place it is found; -1 once a part was not found.
Advance(lower, cursor, any) ==
    LET places == Occurrences(lower, Lower(any), cursor) IN
    IF cursor < 0 \/ places = {} THEN -1 ELSE Find(places) + Len(any)

\* substring_matches
SubstringMatches(name, f) ==
    LET lower == Lower(name)
        cursor == FoldLeft(LAMBDA c, any : Advance(lower, c, any), Len(f.initial), f.any)
    IN  /\ StartsWith(lower, Lower(f.initial))
        /\ cursor >= 0
        /\ EndsWith(SubSeq(lower, cursor + 1, Len(lower)), Lower(f.final))

\* An atom: present, equality and approx, substring, or what is never matched.
AtomMatches(entry, f) ==
    CASE f.op = "present" -> f.attr \in DOMAIN entry.attrs
      [] f.op = "equality" ->
            f.attr \in DOMAIN entry.attrs /\ \E v \in entry.attrs[f.attr] : SameName(v, f.value)
      [] f.op = "member" ->
            f.attr \in DOMAIN entry.attrs /\ \E v \in entry.attrs[f.attr] : DnEquals(v, f.value)
      [] f.op = "substring" ->
            f.attr \in DOMAIN entry.attrs /\ \E v \in entry.attrs[f.attr] : SubstringMatches(v, f)
      [] OTHER -> FALSE

\* filter::matches.
Matches(entry, f) ==
    CASE f.op = "and" -> \A i \in DOMAIN f.of : AtomMatches(entry, f.of[i])
      [] f.op = "or" -> \E i \in DOMAIN f.of : AtomMatches(entry, f.of[i])
      [] f.op = "not" -> ~AtomMatches(entry, f.of[1])
      [] OTHER -> AtomMatches(entry, f)

\* A filter, and a search, as the parser makes them.
AtomParses(f) ==
    f.op = "substring" =>
        /\ IsSequence(f.initial) /\ IsSequence(f.any) /\ IsSequence(f.final)
        /\ \A i \in DOMAIN f.any : IsSequence(f.any[i])

FilterParses(f) ==
    IF f.op \in {"and", "or", "not"}
    THEN /\ \A i \in DOMAIN f.of : AtomParses(f.of[i])
         /\ f.op = "not" => 1 \in DOMAIN f.of
    ELSE AtomParses(f)

SearchParses(s) ==
    /\ s.base = BadDn \/ IsSequence(s.base)
    /\ s.scope \in {"base", "one", "subtree", "children"}
    /\ FilterParses(s.filter)

-----------------------------------------------------------------------------
(* The search *)

\* Mutant: a search from above the unit does not reach into it.
IncludesBelow(unit, base, scope) ==
    CASE scope = "base" -> DnEquals(base, unit) \/ DepthUnder(base, unit, 1)
      [] scope = "one" -> DnEquals(base, unit)
      [] OTHER -> IsUnder(base, unit)

\* include_users and include_groups: whether to look below the unit at all.
Includes(unit, base, scope) ==
    CASE scope = "base" -> DnEquals(base, unit) \/ DepthUnder(base, unit, 1)
      [] scope = "one" -> DnEquals(base, unit)
      [] OTHER -> IsUnder(base, unit) \/ IsUnder(unit, base)

EntryInScope(dn, base, scope) ==
    CASE scope = "base" -> DnEquals(dn, base)
      [] scope = "one" -> DepthUnder(dn, base, 1)
      [] scope = "subtree" -> IsUnder(dn, base)
      [] scope = "children" -> IsUnder(dn, base) /\ ~DnEquals(dn, base)

Found(all, s) == {e \in all : EntryInScope(e.dn, s.base, s.scope) /\ Matches(e, s.filter)}

UserEntries(base_dn, lost) == {UserEntry(u, base_dn, lost) : u \in Persons}
GroupEntries(base_dn, lost) == {GroupEntry(r, base_dn, lost) : r \in RoleNames}

\* What is sent; lost is not, it is kept beside it.
Reply(code, entries, lost) == [code |-> code, entries |-> entries, lost |-> lost]
Done(code, entries) == Reply(code, entries, NoneLost)

\* handle_search before it opens the database: a reply, or Done("scan", {}).
SearchStart(anonymous, base_dn, s) ==
    LET includes == \/ Includes(PeopleDn(base_dn), s.base, s.scope)
                    \/ Includes(GroupsDn(base_dn), s.base, s.scope)
    IN  IF anonymous /\ s.base # <<>> THEN Done("insufficient", {})
        ELSE IF s.base = <<>> /\ s.scope = "base" THEN Done("success", {RootDse(base_dn)})
        ELSE IF s.base = BadDn THEN Done("invalid_dn", {})
        ELSE IF includes THEN Done("scan", {})
        ELSE IF ~IsUnder(s.base, base_dn) THEN Done("no_such_object", {})
        ELSE Done("success", {})

\* The lookups that may fail: those of the units it looks below.
MayLose(base_dn, s) ==
    {lost \in Lookups :
        /\ lost.users # {} => Includes(PeopleDn(base_dn), s.base, s.scope)
        /\ lost.members # {} => Includes(GroupsDn(base_dn), s.base, s.scope)}

\* The entries it returns once it has.
SearchScan(base_dn, s, lost) ==
    (IF Includes(PeopleDn(base_dn), s.base, s.scope)
     THEN Found(UserEntries(base_dn, lost), s) ELSE {})
    \cup
    (IF Includes(GroupsDn(base_dn), s.base, s.scope)
     THEN Found(GroupEntries(base_dn, lost), s) ELSE {})

-----------------------------------------------------------------------------
(* The reference: what a search should return. *)

\* dn lies n levels below base.
Below(dn, base, n) == n \in 0..Len(dn) /\ DnEquals(SubSeq(dn, n + 1, Len(dn)), base)

Levels(scope) ==
    CASE scope = "base" -> {0}
      [] scope = "one" -> {1}
      [] scope = "subtree" -> Nat
      [] scope = "children" -> Nat \ {0}

\* Some way to cut the name into the parts of the filter, with anything between.
Cut(name, f) ==
    \E at \in [DOMAIN f.any -> 0..Len(name)] :
        LET lower == Lower(name)
            ends(i) == IF i = 0 THEN Len(f.initial) ELSE at[i] + Len(f.any[i])
        IN  /\ StartsWith(lower, Lower(f.initial))
            /\ \A i \in DOMAIN f.any :
                  /\ at[i] >= ends(i - 1) /\ ends(i) <= Len(name)
                  /\ SubSeq(lower, at[i] + 1, ends(i)) = Lower(f.any[i])
            /\ ends(Len(f.any)) + Len(f.final) <= Len(name)
            /\ EndsWith(lower, Lower(f.final))

AtomSatisfies(entry, f) ==
    IF f.op = "substring"
    THEN f.attr \in DOMAIN entry.attrs /\ \E v \in entry.attrs[f.attr] : Cut(v, f)
    ELSE AtomMatches(entry, f)

Satisfies(entry, f) ==
    CASE f.op = "and" -> \A i \in DOMAIN f.of : AtomSatisfies(entry, f.of[i])
      [] f.op = "or" -> \E i \in DOMAIN f.of : AtomSatisfies(entry, f.of[i])
      [] f.op = "not" -> ~AtomSatisfies(entry, f.of[1])
      [] OTHER -> AtomSatisfies(entry, f)

\* The filter does not ask who is in a role.
AtomRoleBlind(f) == f.attr \notin {"memberOf", "member"}
RoleBlind(f) ==
    IF f.op \in {"and", "or", "not"} THEN \A i \in DOMAIN f.of : AtomRoleBlind(f.of[i])
    ELSE AtomRoleBlind(f)

\* The entries of the tree in the scope and of the filter, where the lookups in
\* lost found no role.
Answer(base_dn, s, lost) ==
    {e \in UserEntries(base_dn, lost) \cup GroupEntries(base_dn, lost) :
        /\ \E n \in Levels(s.scope) \cap (0..Len(e.dn)) : Below(e.dn, s.base, n)
        /\ Satisfies(e, s.filter)}

Names(entries) == {e.dn : e \in entries}

=============================================================================
