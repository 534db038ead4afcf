------------------------------ MODULE MCTyping ------------------------------
(* Instances of Typing for TLC.                                            *)
EXTENDS Typing, TLC

CONSTANTS d1, d2, t1, t2, t3, t4
=============================================================================
