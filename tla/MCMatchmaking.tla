--------------------------- MODULE MCMatchmaking ---------------------------
(* Instances of Matchmaking for TLC. *)
EXTENDS Matchmaking, TLC
CONSTANTS p1, p2, p3, p4
Ratings == p1 :> 0 @@ p2 :> 300 @@ p3 :> 600 @@ p4 :> 900
Even == [p \in Players |-> 0]
NoBlocks == {}
On(l, all) == [by |-> all[1], all |-> {all[i] : i \in DOMAIN all}, list |-> l]
SoloSearches == {On("1v1", <<p>>) : p \in Players}
PartySearches == {On("2v2", <<p1, p2>>), On("2v2", <<p3>>), On("2v2", <<p2>>), On("2v2", <<p4>>)}
FourSearches == {On("FFA", <<p>>) : p \in Players}
SameRequests == Permutations(Requests)
SameParties == SameRequests \cup Permutations({p3, p4}) \cup Permutations(Workers)
SameGames == Permutations(Requests) \cup Permutations(Players) \cup Permutations(Workers)
=============================================================================
