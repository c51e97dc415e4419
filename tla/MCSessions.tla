----------------------------- MODULE MCSessions -----------------------------
(* Small instances of Sessions for TLC.                                    *)
EXTENDS Sessions, TLC

CONSTANTS u1, u2, f1, f2, t1, t2, t3, r1, r2, r3

\* Ids are compared for equality only.
Symmetry ==
    Permutations(Users) \cup Permutations(Families)
    \cup Permutations(Tokens) \cup Permutations(Reqs)

=============================================================================
