---------------------------- MODULE MCTimedCaches ----------------------------
(* Instances of TimedCaches for TLC.                                       *)
EXTENDS TimedCaches, TLC

CONSTANTS r1, r2, r3

Interchangeable == Permutations(Requests)
=============================================================================
