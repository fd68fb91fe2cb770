------------------------------ MODULE MCParty -------------------------------
(* Instances of Party. *)
EXTENDS Party

CONSTANTS p1, p2, p3, r1, r2, r3

Duo  == [p \in Players |-> IF p = p2 THEN p1 ELSE p]
Trio == [p \in Players |-> p1]
Nobody == [p \in Players |-> None]

\* The first player has asked the two others to join; one has, or both.
Beginnings == {[home |-> Duo, invite |-> [Nobody EXCEPT ![p3] = p1]], [home |-> Trio, invite |-> Nobody]}

\* Two requests of any kind, and one that gets between their rounds.
KindsOfEach == [r \in Requests |-> IF r = r3 THEN {"mode"} ELSE AllKinds \ {"mode"}]

EitherOrder == Permutations({r1, r2})
=============================================================================
