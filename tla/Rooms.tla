------------------------------- MODULE Rooms --------------------------------
(***************************************************************************)
(* What LobbyStore promises of the lobbies' records: each change is made    *)
(* at one moment to one record, the one that is there at that moment, and a *)
(* record that is gone does not come back.                                  *)
(***************************************************************************)
EXTENDS Lobby

CONSTANT Ids         \* of the lobbies; one made later has one of its own

VARIABLES
    rec,     \* lobby:{id}
    used     \* the ids there have been

vars == <<rec, used>>

Init ==
    /\ used \subseteq Ids
    /\ rec \in [Ids -> Records \cup {None}]
    /\ \A id \in Ids : rec[id] # None => id \in used /\ Distinct(rec[id])

Make(id, p, mode) ==
    /\ id \notin used
    /\ used' = used \cup {id}
    /\ rec' = [rec EXCEPT ![id] = Solo(p, mode)]

\* A change made to the record as it is.
Change(id, change) ==
    /\ rec[id] # None
    /\ ~Keeps(rec[id], change)
    /\ rec' = [rec EXCEPT ![id] = Changed(rec[id], change)]
    /\ UNCHANGED used

Delete(id) ==
    /\ rec' = [rec EXCEPT ![id] = None]
    /\ UNCHANGED used

Next ==
    \E id \in Ids :
        \/ \E p \in Players, mode \in LobbyModes : Make(id, p, mode)
        \/ \E change \in Changes : Change(id, change)
        \/ Delete(id)

Spec == Init /\ [][Next]_vars
=============================================================================
