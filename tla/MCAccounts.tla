----------------------------- MODULE MCAccounts -----------------------------
(* Instances of Accounts for TLC.                                          *)
EXTENDS Accounts, TLC

CONSTANTS r1, r2, r3, i1, i2, n1, n2, p1

Symm == Permutations({r1, r2, r3}) \cup Permutations({i1, i2}) \cup Permutations({n1, n2})
=============================================================================
