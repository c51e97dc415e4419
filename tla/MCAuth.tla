------------------------------- MODULE MCAuth -------------------------------
(* Small instances of Auth for TLC.                                        *)
EXTENDS Auth, TLC

CONSTANTS e1, p1, p2, c1, c2, c3, f1, f2, t1, t2

\* Ids and passwords are compared for equality only.
Symmetry ==
    Permutations(Passwords) \cup Permutations(Calls)
    \cup Permutations(Families) \cup Permutations(Tokens)

=============================================================================
