----------------------------- MODULE MCSessions -----------------------------
(* Small instances of Sessions for TLC. *)
EXTENDS Sessions, TLC

\* Requests are interchangeable, and so are the pairs not yet issued at Init.
Symmetry == Permutations(Tokens \ LegacyPairs) \cup Permutations(Requests)
=============================================================================
