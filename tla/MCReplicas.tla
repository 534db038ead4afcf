----------------------------- MODULE MCReplicas -----------------------------
(* Instances of Replicas for TLC: two clients of one user or of two.        *)
EXTENDS Replicas, TLC

CONSTANTS c1, c2, u1, u2, p1, p2

TwoDevices == (c1 :> u1) @@ (c2 :> u1)
TwoUsers   == (c1 :> u1) @@ (c2 :> u2)

\* Replicas are interchangeable, and so are the clients of TwoUsers, each one
\* together with its user, and of TwoDevices.
Symm    == Permutations({p1, p2}) \cup {(c1 :> c2) @@ (c2 :> c1) @@ (u1 :> u2) @@ (u2 :> u1)}
Devices == Permutations({p1, p2}) \cup Permutations({c1, c2})
=============================================================================
