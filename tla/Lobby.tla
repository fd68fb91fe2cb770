------------------------------- MODULE Lobby --------------------------------
(***************************************************************************)
(* A party lobby's record, lobby:{id} (Lobby.cs), and what each request     *)
(* makes of the one it finds (the lambdas given to LobbyStore.UpdateAsync). *)
(* Names, times and the field nobody reads (joinable) are left out.        *)
(***************************************************************************)
EXTENDS Naturals, SequencesExt

CONSTANTS
    Players,
    Modes,       \* the modes a game asks for
    None

LobbyModes == Modes \cup {"2v2"}

Records == [owner : Players, players : Seq(Players), mode : LobbyModes]

In(lobby) == {lobby.players[i] : i \in DOMAIN lobby.players}

Solo(p, mode) == [owner |-> p, players |-> <<p>>, mode |-> mode]

\* Nobody is in it twice.
Distinct(lobby) == IsInjective(lobby.players)

\* A mode as a duo plays it.
DuoMode(mode) == IF mode = "1v1" THEN "2v2" ELSE mode

\* What a request makes of a record: who it is about, and the mode it asks for.
Changes ==
    [what : {"refresh", "join", "takeOver", "remove", "stepOut", "keepOwner"}, who : Players, value : {None}]
        \cup [what : {"mode"}, who : Players, value : Modes]

\* LobbyWrite.Keep: nothing is written.
Keeps(lobby, change) == change.what = "join" /\ change.who \in In(lobby)

Join(lobby, p) ==
    [lobby EXCEPT !.players = Append(@, p),
                  !.mode = IF Len(lobby.players) = 1 THEN DuoMode(@) ELSE @]

\* The first place of a player among the lobby's.
Place(lobby, p) == CHOOSE i \in 1 .. Len(lobby.players) : lobby.players[i] = p

Without(lobby, p) ==
    IF p \in In(lobby) THEN [lobby EXCEPT !.players = RemoveAt(@, Place(lobby, p))] ELSE lobby

\* The record the change leaves, None when it deletes it.
Changed(lobby, change) ==
    CASE change.what = "refresh"   -> lobby
      [] change.what = "join"      -> Join(lobby, change.who)
      [] change.what = "takeOver"  -> [lobby EXCEPT !.owner = change.who, !.players = <<change.who>>]
      [] change.what = "remove"    -> IF Without(lobby, change.who).players = <<>> THEN None ELSE Without(lobby, change.who)
      [] change.what = "stepOut"   -> Without(lobby, change.who)
      [] change.what = "keepOwner" -> [lobby EXCEPT !.players = <<lobby.owner>>]
      [] change.what = "mode"      -> [lobby EXCEPT !.mode = change.value]
=============================================================================
