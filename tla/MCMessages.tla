----------------------------- MODULE MCMessages -----------------------------
(* Instances of Messages for TLC.                                          *)
EXTENDS Messages, TLC

CONSTANTS r1, r2, r3, r4

Symm == Permutations({r1, r2, r3, r4})
=============================================================================
