------------------------------ MODULE MCChats ------------------------------
(* Instances of Chats for TLC.                                             *)
EXTENDS Chats, TLC

CONSTANTS u1, u2, r1, r2, r3

\* Users are interchangeable, and so are requests.
Symm == Permutations({u1, u2}) \cup Permutations({r1, r2, r3})
=============================================================================
