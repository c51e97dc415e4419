----------------------------- MODULE MCAccounts -----------------------------
(* Small instances of Accounts for TLC.                                    *)
EXTENDS Accounts, TLC

CONSTANTS e1, p1, p2, c1, c2, c3, c4, c5

\* Passwords and calls are compared for equality only.
Symmetry == Permutations(Passwords) \cup Permutations(Calls)

=============================================================================
