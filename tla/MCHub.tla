------------------------------- MODULE MCHub -------------------------------
(* Instances of Hub for TLC: which user each connection belongs to.         *)
EXTENDS Hub, TLC

CONSTANTS c1, c2, c3, u1, u2, t1, t2

Single   == c1 :> u1
TwoUsers == (c1 :> u1) @@ (c2 :> u1) @@ (c3 :> u2)

\* Bounds: two connections at most, which are two devices of one user, next to
\* another sender, or one device of each user; and only c3's peer vanishes.
AtMostTwo == Cardinality({c \in Conn : reader[c] # "none"}) <= 2
OneVanishes == \A c \in {c1, c2} : reader[c] # "none" => c \in peer
PumpsOnly == reader[c3] # "none" => t1 \notin rlock
Bounds == AtMostTwo /\ OneVanishes /\ PumpsOnly

\* The two connections of one user are interchangeable.
Devices == Permutations({c1, c2})
=============================================================================
