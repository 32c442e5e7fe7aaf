------------------------------- MODULE MCTotp -------------------------------
(* Small instances of Totp for TLC. *)
EXTENDS Totp, TLC

CONSTANTS sA, sB, d0, d1, d2

\* Codes repeat after three steps, so that inside a drift window they are
\* distinct and later an old code matches a new step; the secrets differ by an
\* offset, so that a code of one can be a code of another.
MCHotp ==
    LET cycle == [i \in 0 .. 2 |-> CASE i = 0 -> d0 [] i = 1 -> d1 [] OTHER -> d2]
        offset == [s \in Secrets |-> CASE s = sA -> 0 [] OTHER -> 1]
    IN  [x \in Secrets \X Steps |-> cycle[(x[2] + offset[x[1]]) % 3]]

Symmetry == Permutations(Requests)
=============================================================================
