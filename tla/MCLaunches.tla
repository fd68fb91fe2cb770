----------------------------- MODULE MCLaunches -----------------------------
(* Instances of Launches: two players, each a party of their own. *)
EXTENDS Launches, TLC

CONSTANTS p1, p2

KindsOfMatch == {[ranked |-> TRUE, p2p |-> FALSE], [ranked |-> FALSE, p2p |-> TRUE]}
Each == {{p} : p \in Players}
=============================================================================
