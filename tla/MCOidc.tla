------------------------------- MODULE MCOidc -------------------------------
(* A small instance of Oidc for TLC. *)
EXTENDS Oidc, TLC

CONSTANTS u1, l1, r1, w1, w2, v1, v2, h1, h2

\* A session from before session versions existed.
MCLegacy == {[login |-> l1, user |-> u1, iat |-> 0, exp |-> 1, session_exp |-> 2,
              session_version |-> NoVersion, auth_time |-> 0]}

MCS256 == [v \in Verifiers |-> CASE v = v1 -> h1 [] OTHER -> h2]

\* For members of a role; out of service, without redirect URIs.
MCConfigurations ==
    {[enabled |-> TRUE, required_roles |-> {r1}, redirect_uris |-> {w1, w2}],
     [enabled |-> FALSE, required_roles |-> {}, redirect_uris |-> {}]}

\* Exchanging the two verifiers together with their challenges changes nothing.
PkceSwap == (v1 :> v2) @@ (v2 :> v1) @@ (h1 :> h2) @@ (h2 :> h1)

Symmetry == Permutations(Requests) \cup Permutations(Clients)
            \cup Permutations(RedirectUris) \cup {PkceSwap}
=============================================================================
