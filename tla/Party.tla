------------------------------- MODULE Party --------------------------------
(***************************************************************************)
(* Party lobbies: the requests of the players' games (PartyService), and   *)
(* what is done when a game is gone (LobbyDisconnects), at once, over the   *)
(* records, the pointers and the pending joins in Redis.  A request takes  *)
(* one step per command it awaits: todo is what is left of its handler.  A  *)
(* record is changed by LobbyStore.UpdateAsync's compare-and-set.          *)
(***************************************************************************)
EXTENDS Lobby, FiniteSets

CONSTANTS
    Requests,        \* each made once
    Kinds,           \* bound: what each may be
    Customs,         \* players who are in a custom lobby meanwhile
    Starts,          \* what was done before: whose lobby each player is in, whose invite they have
    Attempts         \* rounds UpdateAsync gives a change

NewIds == 1 .. Cardinality(Requests) * Cardinality(Players)

\* A login's lobby has its player's name here, one made later a number.
Ids == Players \cup NewIds

AllKinds == {"create", "invite", "join", "leave", "disconnect", "mode"}

Asks == [kind : AllKinds, me : Players, lobby : Ids \cup {None}, value : Players \cup Modes \cup {None}]

ASSUME PartyAssumption ==
    /\ IsFiniteSet(Players) /\ IsFiniteSet(Requests)
    /\ Kinds \in [Requests -> SUBSET AllKinds] /\ Customs \subseteq Players
    /\ Starts \subseteq [home : [Players -> Players], invite : [Players -> Players \cup {None}]]
    /\ \A start \in Starts, p \in Players : start.home[start.home[p]] = start.home[p]
    /\ Players \cap NewIds = {}
    /\ None \notin Ids \cup Records \cup Changes \cup Asks
    /\ Attempts \in Nat \ {0}

VARIABLES
    rec,         \* lobby:{id}
    made,        \* how many lobbies were made; the number is the last one's id
    pointer,     \* player_lobby:{player}
    pending,     \* pending_join_lobby:{player}
    online,      \* online_players
    req,         \* the request, once it is made
    todo,        \* the steps it has still to take, each for some players
    at,          \* the lobby it has in hand
    lobby,       \* the record it has in hand
    want,        \* the pending join it read
    change,      \* what UpdateAsync is to make of the record
    seen,        \* the record UpdateAsync read
    tries,       \* the rounds it lost
    landed       \* how often another request wrote the record in its rounds

store == <<rec, made, landed>>
keys  == <<pointer, pending>>
hand  == <<at, lobby, want>>
round == <<change, seen, tries>>
given == <<online, req>>
vars  == <<store, keys, todo, hand, round, given>>

Steps == {"back", "pointer", "invited", "named", "look", "online", "asked", "forget",
          "read", "write", "conflict", "save", "rehome", "delete",
          "point", "clear", "pend", "unpend", "later"}

TypeOK ==
    /\ rec \in [Ids -> Records \cup {None}]
    /\ made \in Nat
    /\ pointer \in [Players -> Ids \cup {None}] /\ pending \in [Players -> Ids \cup {None}]
    /\ online \subseteq Players
    /\ req \in [Requests -> Asks \cup {None}]
    /\ todo \in [Requests -> Seq([do : Steps, of : SUBSET Players])]
    /\ at \in [Requests -> Ids \cup {None}]
    /\ lobby \in [Requests -> Records \cup {None}]
    /\ want \in [Requests -> Ids \cup {None}]
    /\ change \in [Requests -> Changes \cup {None}]
    /\ seen \in [Requests -> Records \cup {None}]
    /\ tries \in [Requests -> 0 .. Attempts]
    /\ landed \in [Requests -> Nat]

\* Everybody logged in; some have joined another's lobby, some have been invited.
Init ==
    /\ \E start \in Starts :
        /\ rec = [id \in Ids |->
                    IF id \in Players /\ start.home[id] = id
                    THEN [Solo(id, "2v2") EXCEPT
                            !.players = @ \o SetToSeq({p \in Players \ {id} : start.home[p] = id})]
                    ELSE None]
        /\ pointer = start.home
        /\ pending = start.invite
    /\ made = 0
    /\ online = Players
    /\ todo = [a \in Requests |-> <<>>]
    /\ req = [a \in Requests |-> None]
    /\ at = req /\ lobby = req /\ want = req /\ change = req /\ seen = req
    /\ tries = [a \in Requests |-> 0] /\ landed = tries

-----------------------------------------------------------------------------
(* What is left of a handler *)

Me(a) == req[a].me
Step(do, of) == IF of = {} THEN <<>> ELSE <<[do |-> do, of |-> of]>>
Mine(a, do) == Step(do, {Me(a)})

At(a, do) == todo[a] # <<>> /\ Head(todo[a]).do = do
Of(a) == Head(todo[a]).of
Do(a, steps) == todo' = [todo EXCEPT ![a] = steps]
Then(a) == Do(a, Tail(todo[a]))
End(a) == Do(a, <<>>)
Rest(a, p) == Step(Head(todo[a]).do, Of(a) \ {p}) \o Tail(todo[a])

Fetch(a, id) == lobby' = [lobby EXCEPT ![a] = rec[id]]

\* The change UpdateAsync is given, and the steps from there.
Update(a, what, value, steps) ==
    /\ change' = [change EXCEPT ![a] = [what |-> what, who |-> Me(a), value |-> value]]
    /\ Do(a, steps)
    /\ UNCHANGED <<seen, tries>>

\* NewLobbyAsync, SoloAnswerAsync: the record, then the pointer.
NewLobby(a) == Mine(a, "save") \o Mine(a, "point")

-----------------------------------------------------------------------------
(* A request is made *)

\* The lobbies a game may show, and so name.
Shown(p) == {id \in Ids : pointer[p] = id \/ (rec[id] # None /\ p \in In(rec[id]))}

Named(kind, p) ==
    CASE kind \in {"create", "disconnect", "mode"} -> {None}
      [] kind = "join" -> {pending[p]}
      [] kind = "leave" -> Shown(p) \cup {None}
      [] kind = "invite" -> Shown(p)

Given(kind, p) ==
    CASE kind = "invite" -> Players \ {p}
      [] kind = "mode" -> Modes
      [] OTHER -> {None}

First(kind, id) ==
    CASE kind \in {"create", "mode"} -> "pointer"
      [] kind = "invite" -> "look"
      [] kind = "join" -> "invited"
      [] kind = "leave" -> IF id = None THEN "pointer" ELSE "named"
      [] kind = "disconnect" -> "back"

\* A game makes a request (its login's first is "create"), or its connection has closed.
Ask(a) ==
    /\ req[a] = None
    /\ \E kind \in Kinds[a], p \in Players : \E id \in Named(kind, p), value \in Given(kind, p) :
        /\ kind \notin {"create", "disconnect"} => p \in online
        /\ req' = [req EXCEPT ![a] = [kind |-> kind, me |-> p, lobby |-> id, value |-> value]]
        /\ at' = [at EXCEPT ![a] = id]
        /\ Do(a, Step(First(kind, id), {p}))
        /\ online' = CASE kind = "create" -> online \cup {p}
                       [] kind = "disconnect" -> online \ {p}
                       [] OTHER -> online
    /\ UNCHANGED <<store, keys, lobby, want, round>>

-----------------------------------------------------------------------------
(* LobbyStore.UpdateAsync *)

Others(record, p) == In(record) \ {p}

\* performGenuineLeave, once only the owner is left: the owner's next join, a lobby of their own for the rest.
Rehomed(record) == Step("pend", {record.owner}) \o Step("rehome", Others(record, record.owner))

\* join_party_lobby, once the player is in; the others are told half a second after the answer.
Joined(a, record) ==
    /\ lobby' = [lobby EXCEPT ![a] = record]
    /\ Do(a, Mine(a, "point") \o (IF want[a] = None THEN <<>> ELSE Mine(a, "unpend"))
                \o (IF change[a].what = "takeOver" \/ Me(a) = record.owner THEN <<>>
                    ELSE Step("later", Others(record, Me(a)))))

\* What follows the change: before is the record it was made to, after what that left (both lobby[a] when there was none).
After(a, before, after) ==
    CASE change[a].what = "refresh" -> Do(a, Step("point", In(after))) /\ UNCHANGED lobby
      [] change[a].what \in {"join", "takeOver"} -> Joined(a, after)
      [] change[a].what = "keepOwner" /\ req[a].kind = "leave" -> Do(a, Rehomed(before)) /\ UNCHANGED lobby
      [] OTHER -> Then(a) /\ UNCHANGED lobby

Write(a, id, record) ==
    /\ rec' = [rec EXCEPT ![id] = record]
    /\ landed' = [b \in Requests |->
                    IF b = a THEN 0
                    ELSE IF At(b, "write") /\ at[b] = id THEN landed[b] + 1 ELSE landed[b]]

StartOver(a) ==
    /\ tries' = [tries EXCEPT ![a] = 0]
    /\ seen' = [seen EXCEPT ![a] = None]

\* The last record a round was given: its change has taken the owner and the rest from it.
LastSeen(a) == IF seen[a] # None THEN seen[a] ELSE lobby[a]

\* Not the code: whether the player is in is looked at before the change only.
ReadBlindly(a) ==
    /\ At(a, "read")
    /\ rec[at[a]] # None
    /\ change[a].what = "join" => ~Keeps(lobby[a], change[a])
    /\ seen' = [seen EXCEPT ![a] = rec[at[a]]]
    /\ Do(a, Mine(a, "write") \o Tail(todo[a]))
    /\ UNCHANGED <<store, keys, hand, change, tries, given>>

\* No lobby, or nothing to write (the player is in already).
Nothing(a) ==
    /\ At(a, "read")
    /\ \/ rec[at[a]] = None /\ After(a, LastSeen(a), lobby[a])
       \/ rec[at[a]] # None /\ Keeps(rec[at[a]], change[a]) /\ After(a, rec[at[a]], rec[at[a]])
    /\ StartOver(a)
    /\ landed' = [landed EXCEPT ![a] = 0]
    /\ UNCHANGED <<rec, made, keys, at, want, change, given>>

Read(a) ==
    /\ At(a, "read")
    /\ rec[at[a]] # None
    /\ ~Keeps(rec[at[a]], change[a])
    /\ seen' = [seen EXCEPT ![a] = rec[at[a]]]
    /\ Do(a, Mine(a, "write") \o Tail(todo[a]))
    /\ UNCHANGED <<store, keys, hand, change, tries, given>>

\* Not the code: the record is written whatever is stored.
LandAnyhow(a) ==
    /\ At(a, "write")
    /\ Write(a, at[a], Changed(seen[a], change[a]))
    /\ After(a, seen[a], Changed(seen[a], change[a]))
    /\ StartOver(a)
    /\ UNCHANGED <<made, keys, at, want, change, given>>

\* The transaction, on the condition that the record is still what was read.
Land(a) ==
    /\ At(a, "write")
    /\ rec[at[a]] = seen[a]
    /\ Write(a, at[a], Changed(seen[a], change[a]))
    /\ After(a, seen[a], Changed(seen[a], change[a]))
    /\ StartOver(a)
    /\ UNCHANGED <<made, keys, at, want, change, given>>

\* Not the code: the record is read once, before the rounds.
LoseUnread(a) ==
    /\ At(a, "write")
    /\ rec[at[a]] # seen[a]
    /\ tries' = [tries EXCEPT ![a] = @ + 1]
    /\ Do(a, IF tries[a] + 1 < Attempts THEN todo[a] ELSE Mine(a, "conflict"))
    /\ UNCHANGED <<store, keys, hand, change, seen, given>>

\* Not the code: a round too many.
LoseOnceMore(a) ==
    /\ At(a, "write")
    /\ rec[at[a]] # seen[a]
    /\ tries' = [tries EXCEPT ![a] = @ + 1]
    /\ Do(a, IF tries[a] < Attempts THEN Mine(a, "read") \o Tail(todo[a]) ELSE Mine(a, "conflict"))
    /\ UNCHANGED <<store, keys, hand, change, seen, given>>

\* Not the code: what the transaction answers is not looked at.
LoseUnnoticed(a) ==
    /\ At(a, "write")
    /\ rec[at[a]] # seen[a]
    /\ After(a, seen[a], Changed(seen[a], change[a]))
    /\ StartOver(a)
    /\ UNCHANGED <<store, keys, at, want, change, given>>

\* LobbyConflictException after the last round; nobody catches it.
Lose(a) ==
    /\ At(a, "write")
    /\ rec[at[a]] # seen[a]
    /\ tries' = [tries EXCEPT ![a] = @ + 1]
    /\ Do(a, IF tries[a] + 1 < Attempts THEN Mine(a, "read") \o Tail(todo[a]) ELSE Mine(a, "conflict"))
    /\ UNCHANGED <<store, keys, hand, change, seen, given>>

-----------------------------------------------------------------------------
(* Handlers: what each reads, and what it decides on that *)

\* ConnectionEvents.BackAsync.
Back(a) ==
    /\ At(a, "back")
    /\ IF Me(a) \in online THEN End(a) ELSE Do(a, Mine(a, "pointer"))
    /\ UNCHANGED <<store, keys, hand, round, given>>

Invited(a) ==
    /\ At(a, "invited")
    /\ want' = [want EXCEPT ![a] = pending[Me(a)]]
    /\ Do(a, Mine(a, "pointer"))
    /\ UNCHANGED <<store, keys, at, lobby, round, given>>

\* An accepted invite wins over the player's own lobby, which wins over what the game sends.
Target(a) ==
    CASE want[a] # None -> want[a]
      [] want[a] = None /\ (pointer[Me(a)] # None \/ req[a].kind # "join") -> pointer[Me(a)]
      [] OTHER -> req[a].lobby

\* LobbyStore.PointerAsync.
Pointer(a) ==
    /\ At(a, "pointer")
    /\ at' = [at EXCEPT ![a] = Target(a)]
    /\ Do(a, IF Target(a) # None THEN Mine(a, "look")
             ELSE CASE req[a].kind = "create" -> NewLobby(a)
                    [] req[a].kind = "disconnect" -> Mine(a, "forget")
                    [] OTHER -> <<>>)
    /\ UNCHANGED <<store, keys, lobby, want, round, given>>

\* create_party_lobby: back to a party, if the others are there, else a lobby of one's own.
CreateLooks(a) ==
    /\ At(a, "look") /\ req[a].kind = "create"
    /\ Fetch(a, at[a])
    /\ Do(a, IF rec[at[a]] # None /\ Len(rec[at[a]].players) > 1 /\ Me(a) \in In(rec[at[a]])
             THEN Mine(a, "online") ELSE NewLobby(a))
    /\ UNCHANGED <<store, keys, at, want, round, given>>

Rejoin(a) ==
    /\ At(a, "online")
    /\ IF Others(lobby[a], Me(a)) \subseteq online
       THEN Update(a, "refresh", None, Mine(a, "read"))
       ELSE Update(a, "remove", None, Mine(a, "read") \o Mine(a, "clear") \o NewLobby(a))
    /\ UNCHANGED <<store, keys, hand, given>>

\* invite_to_player_lobby: refused when the party is full, or the player is in.
InviteLooks(a) ==
    /\ At(a, "look") /\ req[a].kind = "invite"
    /\ Do(a, IF rec[at[a]] # None /\ (Len(rec[at[a]].players) >= 2 \/ req[a].value \in In(rec[at[a]]))
             THEN <<>> ELSE Step("pend", {req[a].value}))
    /\ UNCHANGED <<store, keys, hand, round, given>>

\* join_party_lobby; of an owner who is in a custom lobby, the lobby is left to the player who joins.
JoinLooks(a) ==
    /\ At(a, "look") /\ req[a].kind = "join"
    /\ Fetch(a, at[a])
    /\ IF rec[at[a]] = None THEN End(a) /\ UNCHANGED round
       ELSE Update(a, IF rec[at[a]].owner \in Customs THEN "takeOver" ELSE "join", None, Mine(a, "read"))
    /\ UNCHANGED <<store, keys, at, want, given>>

\* leave_player_lobby of the lobby the game names, when the player is in it.
LeaveNamed(a) ==
    /\ At(a, "named")
    /\ IF rec[at[a]] # None /\ Me(a) \in In(rec[at[a]])
       THEN /\ Fetch(a, at[a])
            /\ Update(a, "remove", None, Mine(a, "read") \o Mine(a, "clear") \o NewLobby(a))
       ELSE Do(a, Mine(a, "pointer")) /\ UNCHANGED <<lobby, round>>
    /\ UNCHANGED <<store, keys, at, want, given>>

\* Otherwise of the player's own.
LeaveLooks(a) ==
    /\ At(a, "look") /\ req[a].kind = "leave"
    /\ Fetch(a, at[a])
    /\ Do(a, Mine(a, IF rec[at[a]] = None THEN "clear" ELSE "asked"))
    /\ UNCHANGED <<store, keys, at, want, round, given>>

\* A step of joining another, or a real leave (performGenuineLeave).
LeaveAsked(a) ==
    /\ At(a, "asked")
    /\ LET pendingJoin == pending[Me(a)] IN
        IF pendingJoin # None
        THEN Update(a, IF pendingJoin = at[a] THEN "stepOut" ELSE "remove", None,
                    Mine(a, "clear") \o Mine(a, "read"))
        ELSE IF Len(lobby[a].players) <= 1
        THEN Do(a, Mine(a, "clear") \o Mine(a, "delete")) /\ UNCHANGED round
        ELSE Update(a, "keepOwner", None, Mine(a, "read"))
    /\ UNCHANGED <<store, keys, hand, given>>

\* PlayerDisconnectedAsync: nothing of a solo lobby; the party of an owner who is gone goes, any other is its owner's.
DisconnectLooks(a) ==
    /\ At(a, "look") /\ req[a].kind = "disconnect"
    /\ Fetch(a, at[a])
    /\ LET record == rec[at[a]] IN
        IF record = None \/ (record # None /\ (Len(record.players) <= 1 \/ Others(record, Me(a)) = {}))
        THEN Do(a, Mine(a, "forget")) /\ UNCHANGED round
        ELSE IF Me(a) = record.owner
        THEN /\ Do(a, Mine(a, "delete") \o Mine(a, "clear")
                        \o Step("rehome", Others(record, Me(a))) \o Mine(a, "forget"))
             /\ UNCHANGED round
        ELSE Update(a, "keepOwner", None, Mine(a, "read") \o Mine(a, "clear")
                        \o Step("pend", {record.owner}) \o Mine(a, "forget"))
    /\ UNCHANGED <<store, keys, at, want, given>>

\* ForgetLobbyAsync.
Forget(a) ==
    /\ At(a, "forget")
    /\ at' = [at EXCEPT ![a] = pointer[Me(a)]]
    /\ IF pointer[Me(a)] = None THEN End(a) /\ UNCHANGED round
       ELSE Update(a, "remove", None, Mine(a, "clear") \o Mine(a, "read"))
    /\ UNCHANGED <<store, keys, lobby, want, given>>

\* set_mode_for_lobby: by the owner only.
ModeLooks(a) ==
    /\ At(a, "look") /\ req[a].kind = "mode"
    /\ IF rec[at[a]] # None /\ rec[at[a]].owner = Me(a)
       THEN Update(a, "mode", req[a].value, Mine(a, "read"))
       ELSE End(a) /\ UNCHANGED round
    /\ UNCHANGED <<store, keys, hand, given>>

-----------------------------------------------------------------------------
(* Single commands, each for the players the step still has *)

SetPointer(p, id) == pointer' = [pointer EXCEPT ![p] = id] /\ UNCHANGED pending
SetPending(p, id) == pending' = [pending EXCEPT ![p] = id] /\ UNCHANGED pointer

Point(a) ==
    /\ At(a, "point")
    /\ \E p \in Of(a) : SetPointer(p, at[a]) /\ Do(a, Rest(a, p))
    /\ UNCHANGED <<store, hand, round, given>>

Clear(a) ==
    /\ At(a, "clear")
    /\ \E p \in Of(a) : SetPointer(p, None) /\ Do(a, Rest(a, p))
    /\ UNCHANGED <<store, hand, round, given>>

Pend(a) ==
    /\ At(a, "pend")
    /\ \E p \in Of(a) : SetPending(p, at[a]) /\ Do(a, Rest(a, p))
    /\ UNCHANGED <<store, hand, round, given>>

Unpend(a) ==
    /\ At(a, "unpend")
    /\ \E p \in Of(a) : SetPending(p, None) /\ Do(a, Rest(a, p))
    /\ UNCHANGED <<store, hand, round, given>>

\* The join's notice, late: each of the others is given a pending join, then a pointer.
Later(a) ==
    /\ At(a, "later")
    /\ \E p \in Of(a) : SetPending(p, at[a]) /\ Do(a, Step("point", {p}) \o Rest(a, p))
    /\ UNCHANGED <<store, hand, round, given>>

\* A solo lobby: in the login's mode, or the one the lobby that was left had (KeptModeAsync).
Make(a, p) ==
    /\ made' = made + 1
    /\ made' \in NewIds
    /\ at' = [at EXCEPT ![a] = made']
    /\ Write(a, made', Solo(p, IF req[a].kind = "create" THEN "2v2" ELSE lobby[a].mode))

Save(a) ==
    /\ At(a, "save")
    /\ \E p \in Of(a) : Make(a, p) /\ Do(a, Rest(a, p))
    /\ UNCHANGED <<keys, lobby, want, round, given>>

Rehome(a) ==
    /\ At(a, "rehome")
    /\ \E p \in Of(a) : Make(a, p) /\ Do(a, Step("point", {p}) \o Step("pend", {p}) \o Rest(a, p))
    /\ UNCHANGED <<keys, lobby, want, round, given>>

\* LobbyStore.DeleteAsync, whatever is stored.
Delete(a) ==
    /\ At(a, "delete")
    /\ Write(a, at[a], None)
    /\ Then(a)
    /\ UNCHANGED <<made, keys, hand, round, given>>

Next ==
    \/ \E a \in Requests :
        \/ Ask(a)
        \/ Nothing(a) \/ Read(a) \/ Land(a) \/ Lose(a)
        \/ Back(a) \/ Invited(a) \/ Pointer(a) \/ Forget(a)
        \/ CreateLooks(a) \/ Rejoin(a) \/ InviteLooks(a) \/ JoinLooks(a) \/ ModeLooks(a)
        \/ LeaveNamed(a) \/ LeaveLooks(a) \/ LeaveAsked(a) \/ DisconnectLooks(a)
        \/ Point(a) \/ Clear(a) \/ Pend(a) \/ Unpend(a) \/ Later(a)
        \/ Save(a) \/ Rehome(a) \/ Delete(a)

Spec == Init /\ [][Next]_vars

-----------------------------------------------------------------------------
(* Properties *)

Promise == INSTANCE Rooms WITH used <- Players \cup 1 .. made

\* "Two players changing one lobby at once both land": of however many requests at once, each changes the record at one
\* moment, as it is at that moment (UpdateAsync), and a record that was deleted is not written back.
RoomsSpec == Promise!Spec

\* A player is in a lobby once, though two of their joins run at once (JoinAsync's change looks again).
NoTwice == \A id \in Ids : rec[id] # None => Distinct(rec[id])

\* UpdateAsync loses a round only to another request's change, and so gives up only after Attempts of those
\* (LobbyConflictException: "changed under 10 attempts in a row").
BeatenOnly ==
    \A a \in Requests :
        /\ tries[a] <= landed[a]
        /\ At(a, "conflict") => tries[a] = Attempts

\* A join that is answered has the player in the lobby, but for one that is deleted under it (JoinAsync, ?? lobby).
JoinLands ==
    [][\A a \in Requests :
        change[a] # None /\ change[a].what = "join" /\ (At(a, "read") \/ At(a, "write")) /\ At(a, "point")'
            => rec'[at[a]] = None \/ Me(a) \in In(rec'[at[a]])]_vars
=============================================================================
