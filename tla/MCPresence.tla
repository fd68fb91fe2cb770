----------------------------- MODULE MCPresence -----------------------------
(* Presence on small instances: c1, c2 are game sessions, s1.. their sockets. *)
EXTENDS Presence, TLC

\* Nodes and sockets are interchangeable.
Symmetry == Permutations(Sockets) \cup Permutations(Nodes)
=============================================================================
