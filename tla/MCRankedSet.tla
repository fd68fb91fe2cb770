---------------------------- MODULE MCRankedSet -----------------------------
(* Small instances of RankedSet: two requests under way at once. *)
EXTENDS RankedSet, TLC

CONSTANTS r1, r2

SameRequests == Permutations(Requests)
=============================================================================
