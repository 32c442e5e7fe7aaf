---------------------------- MODULE MCForwardAuth ----------------------------
(* A small instance of ForwardAuth for TLC. *)
EXTENDS ForwardAuth, TLC

CONSTANTS u1, l1, l2, b1, b2, r1, site, a1, a2

\* A session from before session versions existed.
MCLegacy == {[login |-> l1, user |-> u1, iat |-> 0, exp |-> 1, session_exp |-> 1,
              session_version |-> NoVersion, auth_time |-> 0]}

\* The start page of the site; a part of it, sent as /b/%252e%252e/a.
MCTop == <<Nothing>>
MCBelow == <<[depth |-> 0, segs |-> <<"b">>], [depth |-> 2, segs |-> <<"..">>],
             [depth |-> 0, segs |-> <<"a">>]>>
\* Paths of up to three pieces: a name, an empty one, .. plain, as %2e%2e and as
\* %252e%252e, a%2f..; /a//../a, some with `.', one that was encoded too often.
MCName == [depth |-> 0, segs |-> <<"a">>]
MCUp(n) == [depth |-> n, segs |-> <<"..">>]
MCDot(n) == [depth |-> n, segs |-> <<".">>]
MCPieces == {Nothing, MCName, MCUp(1), MCUp(2), [depth |-> 1, segs |-> <<"a", "..">>]}
MCAllPaths ==
    UNION {[1 .. n -> MCPieces] : n \in 1 .. 2}
    \cup {<<MCName, x, y>> : x \in {Nothing, MCUp(0), MCUp(2)}, y \in {Nothing, MCName, MCUp(0)}}
    \cup {<<MCName, Nothing, MCUp(0), MCName>>, <<MCDot(0)>>, <<MCDot(5), Nothing>>,
          <<MCDot(1), [depth |-> 5, segs |-> <<"a", "">>]>>, <<[depth |-> 6, segs |-> <<"a">>]>>}
MCPaths == {MCTop, MCBelow} \cup MCAllPaths
MCPrefixes == {<<>>, <<"/", "a">>}

\* For everybody on any host, and below /a for members of a role.
MCWhole == [enabled |-> TRUE, required_roles |-> {}, hosts |-> Hosts, literal |-> FALSE,
            prefix |-> <<>>]
MCPart == [enabled |-> TRUE, required_roles |-> {r1}, hosts |-> {site}, literal |-> TRUE,
           prefix |-> <<"/", "a">>]
MCConfigurations == {MCWhole, MCPart, [MCWhole EXCEPT !.hosts = {site}, !.literal = TRUE]}
MCInstallations == {(a1 :> MCWhole) @@ (a2 :> MCPart)}
\* Sessions end while two browsers sign in; policies change; every path; two
\* protected hosts.
MCWorkloads ==
    {[uses |-> {"sessions"}, browsers |-> {b1, b2}, apps |-> {}, requests |-> 2, nonces |-> 2,
      hosts |-> {site}, paths |-> {MCBelow}],
     [uses |-> {"policies"}, browsers |-> {b1}, apps |-> {a2}, requests |-> 2, nonces |-> 1,
      hosts |-> {site}, paths |-> {MCTop, MCBelow}],
     [uses |-> {}, browsers |-> {b1}, apps |-> {}, requests |-> 1, nonces |-> 1,
      hosts |-> {site}, paths |-> MCAllPaths],
     [uses |-> {}, browsers |-> {b1, b2}, apps |-> {}, requests |-> 2, nonces |-> 2,
      hosts |-> Hosts, paths |-> {MCTop}]}

Symmetry == Permutations(Requests) \cup Permutations(Nonces)
=============================================================================
