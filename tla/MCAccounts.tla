------------------------------ MODULE MCAccounts ------------------------------
(* A small instance of Accounts for TLC. *)
EXTENDS Accounts, TLC

CONSTANTS u1, u2, u3, l1, l2

\* The admins are signed in when a behaviour starts.
MCSession(n, u) == [login |-> n, user |-> u, iat |-> 0, exp |-> 1, session_exp |-> 1,
                    session_version |-> NoVersion, auth_time |-> 0]
MCLegacy == {MCSession(l1, u1), MCSession(l2, u2)}

\* Two admins at work on the roles.
MCRoleWorkloads == {[uses |-> {"roles"}, admins |-> {u1, u2}, others |-> {}]}

MCWorkloads ==
    MCRoleWorkloads \cup
    {[uses |-> {"accounts"}, admins |-> {}, others |-> {u1}],
     [uses |-> {"invitations"}, admins |-> {u1}, others |-> {}],
     [uses |-> {"passkeys"}, admins |-> {}, others |-> {u1}],
     [uses |-> {"accounts"}, admins |-> {u1}, others |-> {u2}]}

Symmetry == Permutations(Requests) \cup Permutations(Usernames) \cup Permutations(Keys)
            \cup Permutations(Challenges) \cup Permutations(Browsers)
=============================================================================
