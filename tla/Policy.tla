------------------------------- MODULE Policy -------------------------------
(***************************************************************************)
(* Which forward-auth application decides about a request: the canonical    *)
(* path of handlers/auth.rs (ForwardTarget::parse, normalize_policy_path)   *)
(* and the selection of application.rs (find_matching).  Pure operators;    *)
(* ForwardAuth uses them.                                                   *)
(*                                                                          *)
(* A path is the list of what stands between its slashes, after the leading *)
(* one.  Of each such piece it says how many percent-encodings it is        *)
(* wrapped in, and the segments it decodes to: more than one when it has    *)
(* encoded slashes.  A canonical path and a path prefix are sequences of    *)
(* tokens, a slash or a segment, so that starts_with is IsPrefix.           *)
(***************************************************************************)
EXTENDS Naturals, Sequences, FiniteSets, SequencesExt

CONSTANTS
    Apps,           \* rows of the applications table
    NoApplication,  \* no row, or no application selected
    Hosts,          \* hosts with their port; an origin is https:// and a host
    Roles,          \* role names
    Names,          \* ordinary path segments
    PathPrefixes,       \* path_prefix values, sequences of tokens
    Paths           \* paths of the URLs that browsers and the proxy send

DecodeRounds == 5
Segment == Names \cup {"", ".", ".."}

\* Only an encoded piece can hold a slash, and nothing is not encoded.
Piece ==
    {x \in [depth : Nat, segs : Seq(Segment) \ {<<>>}] :
        /\ x.depth = 0 => Len(x.segs) = 1
        /\ x.segs = <<"">> => x.depth = 0}

\* A segment cannot hold a slash, and "", "." and ".." are no names.
ASSUME NamesAssumption == Names \cap {"/", "", ".", ".."} = {}

ASSUME PathsAssumption == Paths \subseteq Seq(Piece) \ {<<>>}

\* The table has finitely many rows, and a prefix is a sequence of tokens.
ASSUME RowsAssumption ==
    /\ IsFiniteSet(Apps)
    /\ PathPrefixes \subseteq Seq(Names \cup {"/"})
    /\ NoApplication \notin Apps

\* The result for a path that is refused; every canonical path has a token.
Refused == <<>>

-----------------------------------------------------------------------------
(* ForwardTarget::parse *)

\* One round of a loop over segments, and the loop: what `opens' is put on the
\* stack, what `closes' takes the last off again, the rest is passed over.
Round(opens, closes, stack, s) ==
    CASE s \in closes -> IF stack = <<>> THEN <<>> ELSE Front(stack)
      [] s \in opens -> Append(stack, s)
      [] OTHER -> stack

Loop(opens, closes, segs) ==
    FoldLeft(LAMBDA stack, s : Round(opens, closes, stack, s), <<>>, segs)

\* safe_local_path: the path does not begin with two slashes.
SafeLocalPath(p) == p[1].segs = <<"">> => Len(p) = 1

\* url::Url::parse takes out the dot segments it sees, %2e forms included: `..'
\* with whatever piece is before it, an empty one too.  A dot segment at the
\* end leaves a slash there.
Dots == [depth : {0, 1}, segs : {<<".">>}]
DoubleDots == [depth : {0, 1}, segs : {<<"..">>}]
Kept == Piece \ (Dots \cup DoubleDots)
Nothing == [depth |-> 0, segs |-> <<"">>]
FinalSlash(p) == IF Last(p) \in Dots \cup DoubleDots THEN <<Nothing>> ELSE <<>>

UrlPath(p) == Loop(Kept, DoubleDots, p) \o FinalSlash(p)

\* normalize_policy_path: what decoded.split('/') yields after the leading slash.
Decoded(p) == FlattenSeq([i \in DOMAIN p |-> p[i].segs])

\* After five rounds of decoding a `%' is left, or two slashes meet.
Ambiguous(p) ==
    \/ \E i \in DOMAIN p : p[i].depth > DecodeRounds
    \/ \E i \in 1 .. Len(Decoded(p)) - 1 : Decoded(p)[i] = ""

\* Mutant: `..' is dropped like `.'.
ResolveKeepingParent(segs) == Loop(Names, {}, segs)

\* The loop over the segments.
Resolve(segs) == Loop(Names, {".."}, segs)

\* format!("/{}", segments.join("/")), as tokens.
Joined(segs) ==
    IF segs = <<>> THEN <<"/">>
    ELSE [i \in 1 .. 2 * Len(segs) |-> IF i % 2 = 1 THEN "/" ELSE segs[i \div 2]]

NormalizePolicyPath(p) ==
    LET segs == Decoded(p)
        joined == Joined(Resolve(segs))
    IN  IF Ambiguous(p) THEN Refused
        ELSE IF Last(segs) = "" /\ joined # <<"/">> THEN Append(joined, "/") ELSE joined

\* The paths sent, and what they are once parsed: a parsed path is sent on.
AllPaths == Paths \cup {UrlPath(p) : p \in Paths}
ParsedPath == [p \in AllPaths |-> UrlPath(p)]
PolicyPath == [p \in AllPaths |-> NormalizePolicyPath(ParsedPath[p])]

-----------------------------------------------------------------------------
(* Application::find_matching *)

\* The columns a policy consists of: `hosts' are the hosts host_pattern
\* matches, one of them when the pattern is literal.
ForwardApp == [enabled : BOOLEAN, required_roles : SUBSET Roles, hosts : SUBSET Hosts,
               literal : BOOLEAN, prefix : PathPrefixes]

Matches(a, host, path) == host \in a.hosts /\ IsPrefix(a.prefix, path)

\* rank: the length of the prefix, then a literal host over a regex.
Outranks(a, b) ==
    \/ Len(a.prefix) > Len(b.prefix)
    \/ Len(a.prefix) = Len(b.prefix) /\ a.literal /\ ~b.literal

\* Mutant: list_enabled instead of list.
VisitEnabled(app, host, path, best, a) ==
    IF app[a] = NoApplication \/ ~Matches(app[a], host, path) \/ ~app[a].enabled THEN best
    ELSE IF best.id = NoApplication \/ Outranks(app[a], app[best.id])
         THEN [id |-> a, ambiguous |-> FALSE]
    ELSE IF Outranks(app[best.id], app[a]) THEN best
    ELSE [best EXCEPT !.ambiguous = TRUE]

\* One round of the loop, which keeps the best row so far and whether another
\* row has the same rank.
Visit(app, host, path, best, a) ==
    IF app[a] = NoApplication \/ ~Matches(app[a], host, path) THEN best
    ELSE IF best.id = NoApplication \/ Outranks(app[a], app[best.id])
         THEN [id |-> a, ambiguous |-> FALSE]
    ELSE IF Outranks(app[best.id], app[a]) THEN best
    ELSE [best EXCEPT !.ambiguous = TRUE]

\* The application a target selects, from the rows in the order of `listing'
\* (ORDER BY name).
FindMatching(app, listing, host, path) ==
    LET best == FoldLeft(LAMBDA b, a : Visit(app, host, path, b, a),
                         [id |-> NoApplication, ambiguous |-> FALSE], listing)
    IN  IF best.id = NoApplication \/ best.ambiguous \/ ~app[best.id].enabled
        THEN NoApplication ELSE best.id

Listings == SetToSeqs(Apps)

-----------------------------------------------------------------------------
(* References *)

\* What opens survives unless something later closes it, as brackets do.
Among(segs, i, j, S) == {k \in i .. j : segs[k] \in S}
Survives(opens, closes, segs, i) ==
    /\ segs[i] \in opens
    /\ \A j \in i + 1 .. Len(segs) :
          Cardinality(Among(segs, i + 1, j, closes)) <= Cardinality(Among(segs, i + 1, j, opens))
Surviving(opens, closes, segs) == {i \in 1 .. Len(segs) : Survives(opens, closes, segs, i)}

\* The members of a finite set of numbers, the least first.
Ascending(S) ==
    {order \in [1 .. Cardinality(S) -> S] :
        /\ \A k, l \in DOMAIN order : k < l => order[k] < order[l]
        /\ \A i \in S : \E k \in DOMAIN order : order[k] = i}

\* The ways to list what survives: there is one.
Survivors(opens, closes, segs) ==
    {[k \in DOMAIN order |-> segs[order[k]]] : order \in Ascending(Surviving(opens, closes, segs))}

\* The one enabled policy that outranks every other matching one.
Decides(app, host, path, a) ==
    /\ app[a] # NoApplication
    /\ Matches(app[a], host, path)
    /\ app[a].enabled
    /\ \A b \in Apps \ {a} : (app[b] # NoApplication /\ Matches(app[b], host, path)) =>
          Outranks(app[a], app[b])

=============================================================================
