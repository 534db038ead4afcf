----------------------------- MODULE MCTimeline -----------------------------
(* Instances of Timeline for TLC.                                          *)
EXTENDS Timeline, TLC

CONSTANTS s1, s2, s3

\* Messages of one kind are interchangeable.
Symm == Permutations({s1, s2})
=============================================================================
