---------------------------- MODULE Matchmaking ----------------------------
(* A party's search for a match: the request that queues its ticket (MatchmakingRequestService, MatchmakingQueue), the  *)
(* cancel, the drop when a game goes away, the matchmaking workers that take tickets off the lists under a lock          *)
(* (MatchmakingWorker), and the end of the search when a match is found (MatchmakingQueue.FoundAsync).                  *)
(*                                                                                                                      *)
(* Everything shared is in Redis and nothing spans two of its commands, so every command (or transaction) that another   *)
(* actor can come between is a step. A ticket is named by its request: the lists hold its JSON and take it out by that   *)
(* text, which no two requests share; a list is the set of its tickets with the order they were pushed in.             *)
(* A party's players are gone through in its lobby's order, which can be any: so any order here. Left out: what a ticket says besides its players, queue, time and skill; the       *)
(* messages' texts; the maps and teams of a match; Ranked 1v1's windows by population (the fixed ranges are modelled,    *)
(* what Matchmaking:Population off uses); Testing Grounds, whose lists are worked as Casual's and emptied as FFA's.      *)
EXTENDS Integers, Sequences, FiniteSetsExt

CONSTANTS
  Players, Workers,
  Requests,   \* the searches that may be asked for, each the id of at most one ticket
  Lists,      \* the queues worked: names among AllLists
  Searches,   \* what may be searched: [by |-> the requester, all |-> the lobby's players, list |-> the queue]
  Skill,      \* each player's rating
  Blocks,     \* <<p, q>>: player:{p}:blocked holds q
  StrictFor, LooseFor, \* seconds of waiting below which a search takes 250, then 500 (5 and 10)
  MaxTime, LastAsk,    \* the clock's last half second, and the last one in which a search begins
  Faults, MaxFaults,   \* which faults may happen, and how many in all
  MaxCancels,          \* cancels the games send
  None

AllLists == {"1v1", "2v2", "casual1v1", "casual2v2", "FFA"}
CasualLists == {"casual1v1", "casual2v2"}
Skilled == {"1v1", "2v2"}
Pairs == {"1v1", "casual1v1"}

ASSUME ListsAssumption == Lists \subseteq AllLists
ASSUME SearchesAssumption == \A s \in Searches : s.list \in Lists /\ s.by \in s.all /\ s.all \subseteq Players
ASSUME BoundsAssumption == {MaxTime, LastAsk, MaxFaults, MaxCancels} \subseteq Nat
ASSUME NoneAssumption == None \notin Players \cup Workers \cup Requests \cup Lists \cup Nat

VARIABLES
  now,        \* half seconds: the events' times are in ms, a ticket's in whole seconds
  conn,       \* realtime:conn:{player} exists
  silent,     \* players with no heartbeat in the last 41 s
  gone,       \* the time of a player's close or replacement the lobbies service has not read yet, or None
  ticket,     \* a request's ticket: its players and queue, its time, and its place in the order of pushes
  list,       \* the queues
  pushes,     \* tickets pushed so far
  held,       \* realtime:queued: who holds which ticket
  status,     \* player:{id} status
  lock,       \* matchmaking:lock:{queue}
  req, wk, job, \* where each request, worker and cancel (or drop) is
  match,      \* the matches made, in order, and how far their players are told
  cancelled,  \* who was sent matchmaking-cancel while holding which ticket
  open,       \* FFA's window
  faults, cancels

queues == <<ticket, list, pushes>>
games == <<conn, silent, gone>>
bounds == <<open, faults, cancels>>
vars == <<now, games, queues, held, status, lock, req, wk, job, match, cancelled, bounds>>

\* Who cancels: a player's game, the drop of a player's ticket, a request that failed, a worker that closes a queue.
Jobs == ({"game", "gone"} \X Players) \cup ({"failed"} \X Requests) \cup ({"closed"} \X Workers)

\* LREM of each of these tickets (each is on one list at most).
Leave(S) == list' = [l \in Lists |-> list[l] \ S]
OnLists == UNION {list[l] : l \in Lists}
PlayersOf(t) == ticket[t].all
GroupPlayers(g) == UNION {PlayersOf(t) : t \in g}
Seconds(t) == t \div 2
Fault(f) == f \in Faults /\ faults < MaxFaults /\ faults' = faults + 1

NoTicket == [all |-> {}, by |-> None, list |-> None, created |-> 0, place |-> 0]
NewRequest == [at |-> "new", stale |-> {}, todo |-> {}, p |-> None]
IdleWorker == [at |-> "idle", l |-> None, read |-> {}, group |-> {}]
IdleJob == [at |-> "none", who |-> {}, todo |-> {}, p |-> None, t |-> None]
Cancelling(S) == [IdleJob EXCEPT !.at = "get", !.who = S, !.todo = S]

Init ==
  /\ now = 0 /\ open = TRUE /\ faults = 0 /\ cancels = 0 /\ pushes = 0
  /\ conn = [p \in Players |-> TRUE] /\ silent = {} /\ gone = [p \in Players |-> None]
  /\ ticket = [r \in Requests |-> NoTicket]
  /\ list = [l \in Lists |-> {}]
  /\ held = [p \in Players |-> None]
  /\ status = [p \in Players |-> "idle"]
  /\ lock = [l \in Lists |-> None]
  /\ req = [r \in Requests |-> NewRequest]
  /\ wk = [w \in Workers |-> IdleWorker]
  /\ job = [j \in Jobs |-> IdleJob]
  /\ match = << >> /\ cancelled = {}

(* ---------------------------------------- The request (MatchmakingRequestService) ------------------------------------ *)

\* The requester's tickets are looked for on every list.
Ask(r) ==
  /\ req[r].at = "new" /\ now <= LastAsk
  /\ \E s \in Searches :
       /\ ticket' = [ticket EXCEPT ![r] = [NoTicket EXCEPT !.all = s.all, !.by = s.by, !.list = s.list]]
       /\ req' = [req EXCEPT ![r].at = "clear", ![r].stale = {t \in OnLists : s.by \in PlayersOf(t)}]
  /\ UNCHANGED <<now, games, list, pushes, held, status, lock, wk, job, match, cancelled, bounds>>

\* They leave them, silently. The request is then answered, or refused (no loadout, an outdated client, a quitter's lock,
\* a teammate who is not connected) with nothing queued.
Clear(r) ==
  /\ req[r].at = "clear"
  /\ Leave(req[r].stale)
  /\ \E at \in {"answered", "done"} : req' = [req EXCEPT ![r].at = at, ![r].stale = {}]
  /\ UNCHANGED <<now, games, ticket, pushes, held, status, lock, wk, job, match, cancelled, bounds>>

\* After the answer: the ticket is made, and its list's tickets that share a player are looked for. The time taken first
\* and the players' reads in between (TicketAsync) are this step's; time passes after it, before the ticket is held.
Queue(r) ==
  /\ req[r].at = "answered"
  /\ ticket' = [ticket EXCEPT ![r].created = Seconds(now)]
  /\ req' = [req EXCEPT ![r].at = "wipe", ![r].stale = {t \in list[ticket[r].list] : PlayersOf(t) \cap PlayersOf(r) # {}}]
  /\ UNCHANGED <<now, games, list, pushes, held, status, lock, wk, job, match, cancelled, bounds>>

Wipe(r) ==
  /\ req[r].at = "wipe"
  /\ Leave(req[r].stale)
  /\ req' = [req EXCEPT ![r].at = "started", ![r].stale = {}, ![r].todo = PlayersOf(r)]
  /\ UNCHANGED <<now, games, ticket, pushes, held, status, lock, wk, job, match, cancelled, bounds>>

\* Each connected player is set queued and sent OnMatchmakerStarted; the others get nothing.
Started(r) ==
  /\ req[r].at = "started"
  /\ \E p \in req[r].todo :
       IF conn[p]
       THEN /\ status' = [status EXCEPT ![p] = "queued"]
            /\ req' = [req EXCEPT ![r].at = "hold", ![r].p = p, ![r].todo = @ \ {p}]
       ELSE /\ req' = [req EXCEPT ![r].todo = @ \ {p}]
            /\ UNCHANGED status
  /\ UNCHANGED <<now, games, queues, held, lock, wk, job, match, cancelled, bounds>>

\* ... and given the ticket (the gateway ticks whoever holds one).
Hold(r) ==
  /\ req[r].at = "hold"
  /\ held' = [held EXCEPT ![req[r].p] = r]
  /\ req' = [req EXCEPT ![r].at = "started", ![r].p = None]
  /\ UNCHANGED <<now, games, queues, status, lock, wk, job, match, cancelled, bounds>>

\* The ticket is pushed, whoever is connected.
Push(r) ==
  /\ req[r].at = "started" /\ req[r].todo = {}
  /\ list' = [list EXCEPT ![ticket[r].list] = @ \cup {r}]
  /\ pushes' = pushes + 1
  /\ ticket' = [ticket EXCEPT ![r].place = pushes + 1]
  /\ req' = [req EXCEPT ![r].at = "done"]
  /\ UNCHANGED <<now, games, held, status, lock, wk, job, match, cancelled, bounds>>

\* Something fails on the way, from the ticket's making to its push: the leader is cancelled. A push that was made although
\* its answer was lost is left out.
QueueFails(r) ==
  /\ req[r].at \in {"answered", "wipe", "started", "hold"} /\ Fault("fail")
  /\ req' = [req EXCEPT ![r] = [NewRequest EXCEPT !.at = "done"]]
  /\ job' = [job EXCEPT ![<<"failed", r>>] = Cancelling({ticket[r].by})]
  /\ UNCHANGED <<now, games, queues, held, status, lock, wk, match, cancelled, open, cancels>>

(* --------------------------------------------- The cancel (MatchmakingQueue) ----------------------------------------- *)

\* A game cancels: everyone in its lobby is cancelled.
GameCancels(p) ==
  /\ job[<<"game", p>>].at = "none" /\ cancels < MaxCancels
  /\ \E s \in Searches : p \in s.all /\ job' = [job EXCEPT ![<<"game", p>>] = Cancelling(s.all)]
  /\ cancels' = cancels + 1
  /\ UNCHANGED <<now, games, queues, held, status, lock, req, wk, match, cancelled, open, faults>>

\* Mutant: a player holding no ticket is cancelled too.
CancelGetAnyway(j) ==
  /\ job[j].at = "get"
  /\ \E p \in job[j].todo : job' = [job EXCEPT ![j] = [@ EXCEPT !.at = "list", !.p = p, !.t = held[p], !.todo = job[j].todo \ {p}]]
  /\ UNCHANGED <<now, games, queues, held, status, lock, req, wk, match, cancelled, bounds>>

\* The ticket the player holds is read; a player holding none gets nothing.
CancelGet(j) ==
  /\ job[j].at = "get"
  /\ \E p \in job[j].todo :
       job' = [job EXCEPT ![j] = IF held[p] = None THEN [@ EXCEPT !.todo = job[j].todo \ {p}]
                                 ELSE [@ EXCEPT !.at = "list", !.p = p, !.t = held[p], !.todo = job[j].todo \ {p}]]
  /\ UNCHANGED <<now, games, queues, held, status, lock, req, wk, match, cancelled, bounds>>

\* It leaves its list.
CancelList(j) ==
  /\ job[j].at = "list"
  /\ Leave({job[j].t})
  /\ job' = [job EXCEPT ![j].at = "hash"]
  /\ UNCHANGED <<now, games, ticket, pushes, held, status, lock, req, wk, match, cancelled, bounds>>

\* The tick stops: whatever the player holds by now goes.
CancelHash(j) ==
  /\ job[j].at = "hash"
  /\ held' = [held EXCEPT ![job[j].p] = None]
  /\ job' = [job EXCEPT ![j].at = "tell"]
  /\ UNCHANGED <<now, games, queues, status, lock, req, wk, match, cancelled, bounds>>

\* Mutant: the game is told, and the status is left.
CancelTellOnly(j) ==
  /\ job[j].at = "tell"
  /\ cancelled' = cancelled \cup {<<job[j].p, job[j].t>>}
  /\ job' = [job EXCEPT ![j].at = "get", ![j].p = None, ![j].t = None]
  /\ UNCHANGED <<now, games, queues, held, status, lock, req, wk, match, bounds>>

\* The game is sent matchmaking-cancel and the player is set idle.
CancelTell(j) ==
  /\ job[j].at = "tell"
  /\ cancelled' = cancelled \cup {<<job[j].p, job[j].t>>}
  /\ status' = [status EXCEPT ![job[j].p] = "idle"]
  /\ job' = [job EXCEPT ![j].at = "get", ![j].p = None, ![j].t = None]
  /\ UNCHANGED <<now, games, queues, held, lock, req, wk, match, bounds>>

\* Everyone is done; the game's cancel also takes its players' tickets off Casual's lists, held or not.
CancelEnds(j) ==
  /\ job[j].at = "get" /\ job[j].todo = {}
  /\ Leave(IF j[1] # "game" THEN {}
           ELSE {t \in OnLists : ticket[t].list \in CasualLists /\ PlayersOf(t) \cap job[j].who # {}})
  /\ job' = [job EXCEPT ![j] = IdleJob]
  /\ UNCHANGED <<now, games, ticket, pushes, held, status, lock, req, wk, match, cancelled, bounds>>

(* ---------------------------------------- A game goes away (LobbyDisconnects) ---------------------------------------- *)

\* The gateway closes a player's connection: its entry and heartbeat go, and the event is appended.
Disconnect(p) ==
  /\ conn[p] /\ gone[p] = None /\ Fault("gone")
  /\ conn' = [conn EXCEPT ![p] = FALSE]
  /\ silent' = silent \cup {p}
  /\ gone' = [gone EXCEPT ![p] = now]
  /\ UNCHANGED <<now, queues, held, status, lock, req, wk, job, match, cancelled, open, cancels>>

\* A login after a close.
Login(p) ==
  /\ ~conn[p]
  /\ conn' = [conn EXCEPT ![p] = TRUE]
  /\ silent' = silent \ {p}
  /\ UNCHANGED <<now, gone, queues, held, status, lock, req, wk, job, match, cancelled, bounds>>

\* A login that takes the connection over from a game still connected.
Replace(p) ==
  /\ conn[p] /\ gone[p] = None /\ Fault("replaced")
  /\ gone' = [gone EXCEPT ![p] = now]
  /\ UNCHANGED <<now, conn, silent, queues, held, status, lock, req, wk, job, match, cancelled, open, cancels>>

\* DropAsync: the ticket the player holds, unless it was queued after the event.
DropGet(p) ==
  /\ gone[p] # None /\ job[<<"gone", p>>].at = "none"
  /\ IF held[p] = None \/ 2 * ticket[held[p]].created > gone[p]
     THEN UNCHANGED job
     ELSE job' = [job EXCEPT ![<<"gone", p>>] = [IdleJob EXCEPT !.at = "drop", !.p = p, !.t = held[p]]]
  /\ gone' = [gone EXCEPT ![p] = None]
  /\ UNCHANGED <<now, conn, silent, queues, held, status, lock, req, wk, match, cancelled, bounds>>

DropList(p) ==
  LET j == <<"gone", p>> IN
  /\ job[j].at = "drop"
  /\ Leave({job[j].t})
  /\ job' = [job EXCEPT ![j].at = "unhold"]
  /\ UNCHANGED <<now, games, ticket, pushes, held, status, lock, req, wk, match, cancelled, bounds>>

DropHash(p) ==
  LET j == <<"gone", p>> IN
  /\ job[j].at = "unhold"
  /\ held' = [held EXCEPT ![p] = None]
  /\ job' = [job EXCEPT ![j].at = "idle"]
  /\ UNCHANGED <<now, games, queues, status, lock, req, wk, match, cancelled, bounds>>

\* The player is idle; the others who hold the same ticket are cancelled.
DropIdle(p) ==
  LET j == <<"gone", p>> IN
  /\ job[j].at = "idle"
  /\ status' = [status EXCEPT ![p] = "idle"]
  /\ job' = [job EXCEPT ![j] = Cancelling({q \in PlayersOf(job[j].t) \ {p} : held[q] = job[j].t})]
  /\ UNCHANGED <<now, games, queues, held, lock, req, wk, match, cancelled, bounds>>

(* ------------------------------------------- The workers (MatchmakingWorker) ----------------------------------------- *)

\* SET matchmaking:lock:{queue} NX EX 10.
Acquire(w, l) ==
  /\ wk[w].at = "idle" /\ lock[l] = None
  /\ lock' = [lock EXCEPT ![l] = w]
  /\ wk' = [wk EXCEPT ![w].at = "read", ![w].l = l]
  /\ UNCHANGED <<now, games, queues, held, status, req, job, match, cancelled, bounds>>

\* The work ends; the lock goes while it is still this worker's.
Release(w) ==
  /\ lock' = IF lock[wk[w].l] = w THEN [lock EXCEPT ![wk[w].l] = None] ELSE lock
  /\ wk' = [wk EXCEPT ![w] = IdleWorker]

\* The queue as it is now. One with fewer than two tickets is left alone if it makes pairs.
Read(w) ==
  LET l == wk[w].l IN
  /\ wk[w].at = "read" /\ (l = "FFA" => open)
  /\ IF l \in Pairs /\ Cardinality(list[l]) < 2
     THEN Release(w)
     ELSE /\ wk' = [wk EXCEPT ![w].at = "clean", ![w].read = list[l]]
          /\ UNCHANGED lock
  /\ UNCHANGED <<now, games, queues, held, status, req, job, match, cancelled, bounds>>

\* Outside FFA's window every ticket goes ...
ReadClosed(w) ==
  /\ wk[w].at = "read" /\ wk[w].l = "FFA" /\ ~open
  /\ wk' = [wk EXCEPT ![w].at = "closing", ![w].read = list[wk[w].l]]
  /\ Leave(list[wk[w].l])
  /\ UNCHANGED <<now, games, ticket, pushes, held, status, lock, req, job, match, cancelled, bounds>>

\* ... and each one's players are cancelled, one ticket after the other.
Closing(w) ==
  /\ wk[w].at = "closing" /\ job[<<"closed", w>>].at = "none"
  /\ \E t \in wk[w].read :
       /\ wk' = [wk EXCEPT ![w].read = @ \ {t}]
       /\ job' = [job EXCEPT ![<<"closed", w>>] = Cancelling(PlayersOf(t))]
  /\ UNCHANGED <<now, games, queues, held, status, lock, req, match, cancelled, bounds>>

Closed(w) ==
  /\ wk[w].at = "closing" /\ wk[w].read = {} /\ job[<<"closed", w>>].at = "none"
  /\ Release(w)
  /\ UNCHANGED <<now, games, queues, held, status, req, job, match, cancelled, bounds>>

\* The earlier created_at, the earlier in the queue on a tie: the order tickets are looked at in.
Older(t, u) ==
  \/ ticket[t].created < ticket[u].created
  \/ ticket[t].created = ticket[u].created /\ ticket[t].place < ticket[u].place
\* Mutant: duplicates stay.
KeepDuplicates(S) == {}
\* DropDuplicatesAsync: the tickets with a player who has a newer one among these.
Stale(S) == {t \in S : \E u \in S : Older(t, u) /\ PlayersOf(t) \cap PlayersOf(u) # {}}
\* DropSilentAsync: those with a player who stopped answering.
Silent(S) == {t \in S : PlayersOf(t) \cap silent # {}}

\* Both leave the queue, and what was read.
Clean(w) ==
  LET kept == wk[w].read \ Stale(wk[w].read)
      left == kept \ Silent(kept) IN
  /\ wk[w].at = "clean"
  /\ Leave(wk[w].read \ left)
  /\ wk' = [wk EXCEPT ![w].at = "choose", ![w].read = left]
  /\ UNCHANGED <<now, games, ticket, pushes, held, status, lock, req, job, match, cancelled, bounds>>

Solo(S) == {t \in S : Cardinality(PlayersOf(t)) = 1}
Waited(t) == Seconds(now) - ticket[t].created
\* Mutant: the range never holds anyone.
NeverAnyone(seconds) == IF seconds < StrictFor THEN 250 ELSE 500
\* The range two skills may be apart: 250, 500, then anything (1000000 is more than any rating). This is the fixed
\* window: 2v2's, Casual's, and ranked 1v1's where PopulationWindows is off. Where it is on, as by default, a fuller queue
\* has other steps, and a pair also fits once either of the two has waited its last.
SkillRange(seconds) == IF seconds < StrictFor THEN 250 ELSE IF seconds < LooseFor THEN 500 ELSE 1000000
\* Twice a ticket's average skill (it has one or two players).
Twice(t) == (2 \div Cardinality(PlayersOf(t))) * MapThenSumSet(LAMBDA p : Skill[p], PlayersOf(t))
Gap(x, y) == IF x > y THEN x - y ELSE y - x
\* BlockedPairAsync: one of the group blocked another.
Blocked(g) == \E p, q \in GroupPlayers(g) : <<p, q>> \in Blocks

\* A pair, the older first, within the stricter of its two ranges.
PairFits(l, a, b) ==
  /\ Older(a, b) /\ PlayersOf(a) \cap PlayersOf(b) = {}
  /\ l \in Skilled => Gap(Twice(a), Twice(b)) <= 2 * Min({SkillRange(Waited(a)), SkillRange(Waited(b))})
  /\ ~Blocked({a, b})

\* OneVsOneAsync: the solo pair that fits with the oldest first ticket, then the oldest second one.
IsPair(l, S, g) ==
  \E a, b \in Solo(S) :
    /\ g = {a, b} /\ PairFits(l, a, b)
    /\ \A c, d \in Solo(S) : PairFits(l, c, d) => ~Older(c, a) /\ (c = a => ~Older(d, b))

\* The tickets' players, one counted for each ticket that names them.
Count(g) == Cardinality(UNION {{t} \X PlayersOf(t) : t \in g})
\* g is what going through S from its oldest ticket takes: each that fits the ones taken before it.
Grown(S, g, Fits(_, _)) == g \subseteq S /\ \A u \in S : u \in g <=> Fits({v \in g : Older(v, u)}, u)

\* A ticket joins a 2v2 group begun with first: it shares no player with that ticket, its skill is within the longest
\* wait's range of the group's average, and there is room.
Joins(l, first, g, t) ==
  \/ t = first
  \/ /\ Count(g) < 4 /\ Count(g) + Cardinality(PlayersOf(t)) <= 4
     /\ PlayersOf(first) \cap PlayersOf(t) = {}
     /\ l \in Skilled => Gap(MapThenSumSet(Twice, g), Cardinality(g) * Twice(t))
                           <= 2 * Cardinality(g) * SkillRange(Max({Waited(x) : x \in g \cup {t}}))

Teams(l, S, first, g) ==
  /\ Grown({t \in S : ~Older(t, first)}, g, LAMBDA before, t : Joins(l, first, before, t))
  /\ Count(g) = 4 /\ ~Blocked(g)

\* TwoVsTwoAsync: the group of four, begun with the oldest ticket there is one for, that nobody's block rules out.
IsTeams(l, S, g) ==
  \E first \in S :
    /\ Teams(l, S, first, g)
    /\ \A t \in S : Older(t, first) => ~\E h \in SUBSET S : Teams(l, S, t, h)

\* FfaAsync: the four oldest solo tickets of distinct players; a blocked group waits.
IsFour(S, g) ==
  /\ Grown(Solo(S), g, LAMBDA before, t : Cardinality(before) < 4 /\ GroupPlayers(before) \cap PlayersOf(t) = {})
  /\ Cardinality(g) = 4 /\ ~Blocked(g)

IsGroup(l, S, g) ==
  CASE l \in Pairs -> IsPair(l, S, g)
    [] l = "FFA"   -> IsFour(S, g)
    [] OTHER       -> IsTeams(l, S, g)

\* At most one match from a look at a queue.
Choose(w) ==
  LET groups == {g \in SUBSET wk[w].read : IsGroup(wk[w].l, wk[w].read, g)} IN
  /\ wk[w].at = "choose"
  /\ IF groups = {} THEN Release(w)
     ELSE /\ \E g \in groups : wk' = [wk EXCEPT ![w].at = "take", ![w].group = g]
          /\ UNCHANGED lock
  /\ UNCHANGED <<now, games, queues, held, status, req, job, match, cancelled, bounds>>

\* RemoveAsync: one transaction; nothing looks at how many were still there.
Take(w) ==
  /\ wk[w].at = "take"
  /\ Leave(wk[w].group)
  /\ wk' = [wk EXCEPT ![w].at = "make"]
  /\ UNCHANGED <<now, games, ticket, pushes, held, status, lock, req, job, match, cancelled, bounds>>

\* Mutant: the worker looks for another match among the tickets it read.
MakeNext(w) ==
  /\ wk[w].at = "make"
  /\ match' = Append(match, [group |-> wk[w].group, todo |-> GroupPlayers(wk[w].group), at |-> "hash", p |-> None])
  /\ wk' = [wk EXCEPT ![w].at = "choose", ![w].group = {}]
  /\ UNCHANGED <<now, games, queues, held, status, lock, req, job, cancelled, bounds>>

\* CreateMatchAsync: the match is made and announced.
Make(w) ==
  /\ wk[w].at = "make"
  /\ match' = Append(match, [group |-> wk[w].group, todo |-> GroupPlayers(wk[w].group), at |-> "hash", p |-> None])
  /\ Release(w)
  /\ UNCHANGED <<now, games, queues, held, status, req, job, cancelled, bounds>>

\* No rollback port: the tickets are out of the queue and no match is made.
NoPort(w) ==
  /\ wk[w].at = "make" /\ Fault("port")
  /\ Release(w)
  /\ UNCHANGED <<now, games, queues, held, status, req, job, match, cancelled, open, cancels>>

\* A worker dies: its lock stays until it expires.
Crash(w) ==
  /\ wk[w].at # "idle" /\ Fault("crash")
  /\ wk' = [wk EXCEPT ![w] = IdleWorker]
  /\ job' = [job EXCEPT ![<<"closed", w>>] = IdleJob]
  /\ UNCHANGED <<now, games, queues, held, status, lock, req, match, cancelled, open, cancels>>

\* The lock's 10 seconds pass: its holder died, or is slower than that.
Dead(l) == lock[l] # None /\ wk[lock[l]].l # l
Expire(l) ==
  /\ lock[l] # None
  /\ IF Dead(l) THEN UNCHANGED faults ELSE Fault("slow")
  /\ lock' = [lock EXCEPT ![l] = None]
  /\ UNCHANGED <<now, games, queues, held, status, req, wk, job, match, cancelled, open, cancels>>

(* --------------------------------- A match is found (MatchmakingQueue.FoundAsync) ------------------------------------ *)

\* Mutant: only the first player's tick is stopped.
FoundFirst(i) ==
  /\ match[i].at = "hash"
  /\ \E p \in match[i].todo :
       /\ held' = [held EXCEPT ![p] = None]
       /\ match' = [match EXCEPT ![i] = IF held[p] = None THEN [@ EXCEPT !.todo = {}]
                                        ELSE [@ EXCEPT !.at = "status", !.p = p, !.todo = {}]]
  /\ UNCHANGED <<now, games, queues, status, lock, req, wk, job, cancelled, bounds>>

\* The match flow stops each player's tick, whichever ticket it is for ...
FoundHash(i) ==
  /\ match[i].at = "hash"
  /\ \E p \in match[i].todo :
       /\ held' = [held EXCEPT ![p] = None]
       /\ match' = [match EXCEPT ![i] = IF held[p] = None THEN [@ EXCEPT !.todo = match[i].todo \ {p}]
                                        ELSE [@ EXCEPT !.at = "status", !.p = p, !.todo = match[i].todo \ {p}]]
  /\ UNCHANGED <<now, games, queues, status, lock, req, wk, job, cancelled, bounds>>

\* ... and sets those who held one in_match.
FoundStatus(i) ==
  /\ match[i].at = "status"
  /\ status' = [status EXCEPT ![match[i].p] = "in_match"]
  /\ match' = [match EXCEPT ![i].at = "hash", ![i].p = None]
  /\ UNCHANGED <<now, games, queues, held, lock, req, wk, job, cancelled, bounds>>

\* Then every player's game is told of the match.
FoundTell(i) ==
  /\ match[i].at = "hash" /\ match[i].todo = {}
  /\ match' = [match EXCEPT ![i].at = "told"]
  /\ UNCHANGED <<now, games, queues, held, status, lock, req, wk, job, cancelled, bounds>>

(* --------------------------------------------------- The environment ------------------------------------------------- *)

\* The clock waits at LastAsk for the tickets still to be made, so that none is younger than the clock can show.
Tick ==
  /\ now < MaxTime
  /\ now >= LastAsk => \A r \in Requests : req[r].at \notin {"clear", "answered"}
  /\ now' = now + 1
  /\ UNCHANGED <<games, queues, held, status, lock, req, wk, job, match, cancelled, bounds>>

CloseWindow ==
  /\ "FFA" \in Lists /\ open /\ Fault("window")
  /\ open' = FALSE
  /\ UNCHANGED <<now, games, queues, held, status, lock, req, wk, job, match, cancelled, cancels>>

RequestStep(r) == Clear(r) \/ Queue(r) \/ Wipe(r) \/ Started(r) \/ Hold(r) \/ Push(r)
CancelStep(j) == CancelGet(j) \/ CancelList(j) \/ CancelHash(j) \/ CancelTell(j) \/ CancelEnds(j)
DropStep(p) == DropGet(p) \/ DropList(p) \/ DropHash(p) \/ DropIdle(p)
WorkerStep(w) == Read(w) \/ ReadClosed(w) \/ Closing(w) \/ Closed(w) \/ Clean(w) \/ Choose(w) \/ Take(w) \/ Make(w)
FoundStep(i) == FoundHash(i) \/ FoundStatus(i) \/ FoundTell(i)

Next ==
  \/ \E r \in Requests : Ask(r) \/ RequestStep(r) \/ QueueFails(r)
  \/ \E j \in Jobs : CancelStep(j)
  \/ \E p \in Players : GameCancels(p) \/ Disconnect(p) \/ Login(p) \/ Replace(p) \/ DropStep(p)
  \/ \E w \in Workers, l \in Lists : Acquire(w, l)
  \/ \E w \in Workers : WorkerStep(w) \/ NoPort(w) \/ Crash(w)
  \/ \E l \in Lists : Expire(l)
  \/ \E i \in DOMAIN match : FoundStep(i)
  \/ Tick \/ CloseWindow

Spec == Init /\ [][Next]_vars

(* ------------------------------------------------------ Properties --------------------------------------------------- *)

TicketType == [all : SUBSET Players, by : Players \cup {None}, list : Lists \cup {None}, created : Nat, place : Nat]
RequestType == [at : {"new", "clear", "answered", "wipe", "started", "hold", "done"}, stale : SUBSET Requests,
                todo : SUBSET Players, p : Players \cup {None}]
WorkerType == [at : {"idle", "read", "closing", "clean", "choose", "take", "make"}, l : Lists \cup {None},
               read : SUBSET Requests, group : SUBSET Requests]
JobType == [at : {"none", "get", "list", "hash", "tell", "drop", "unhold", "idle"}, who : SUBSET Players,
            todo : SUBSET Players, p : Players \cup {None}, t : Requests \cup {None}]
MatchType == [group : SUBSET Requests, todo : SUBSET Players, at : {"hash", "status", "told"}, p : Players \cup {None}]

\* Every variable keeps its type.
TypeOK ==
  /\ now \in Nat /\ pushes \in Nat /\ open \in BOOLEAN /\ faults \in Nat /\ cancels \in Nat
  /\ conn \in [Players -> BOOLEAN] /\ silent \in SUBSET Players /\ gone \in [Players -> Nat \cup {None}]
  /\ ticket \in [Requests -> TicketType]
  /\ list \in [Lists -> SUBSET Requests]
  /\ held \in [Players -> Requests \cup {None}]
  /\ status \in [Players -> {"idle", "queued", "in_match"}]
  /\ lock \in [Lists -> Workers \cup {None}]
  /\ req \in [Requests -> RequestType] /\ wk \in [Workers -> WorkerType] /\ job \in [Jobs -> JobType]
  /\ match \in Seq(MatchType)
  /\ cancelled \in SUBSET (Players \X Requests)

\* A ticket goes to one match only, however many workers look at its queue and whichever of them die: the lock, taken
\* before the queue is read and let go after the tickets are out of it, is what WithLockAsync is for.
MatchedOnce == \A i, j \in DOMAIN match : i # j => match[i].group \cap match[j].group = {}

\* No player is in a match twice, whatever tickets share players: TwoVsTwoAsync compares a candidate with the first ticket
\* only, so this rests on the duplicates having been dropped before.
NoPlayerTwice == \A i \in DOMAIN match : \A a, b \in match[i].group : a # b => PlayersOf(a) \cap PlayersOf(b) = {}

\* Once a match's players are told of it, none of them is ticked for the search that led to it: a ticket is given to its
\* players before it is pushed, so that FoundAsync finds every hold there will be.
TicksStop == \A i \in DOMAIN match : match[i].at = "told" => \A p \in Players : held[p] \notin match[i].group

\* A player shown as queued holds a ticket, or is about to be given one, or is about to be set idle or in_match: whoever
\* takes a ticket from a player writes the status after it.
StatusHeld ==
  \A p \in Players : status[p] = "queued" /\ held[p] = None =>
    \/ \E r \in Requests : req[r].at = "hold" /\ req[r].p = p
    \/ \E j \in Jobs : job[j].at = "tell" /\ job[j].p = p
    \/ job[<<"gone", p>>].at = "idle"
    \/ \E i \in DOMAIN match : match[i].at = "status" /\ match[i].p = p

\* What the comments say and the interleavings do not keep (no run states it): a match is never made from a
\* ticket whose holder's game was already sent matchmaking-cancel for it: "each player holding a ticket loses it: the
\* ticket leaves its list" (MatchmakingQueue.cs).
NeverAfterCancel ==
  [][\A i \in DOMAIN match' \ DOMAIN match : \A p \in Players, t \in match'[i].group : <<p, t>> \notin cancelled]_vars

\* What the schedulers promise: requests, cancels, drops and announcements are carried through (each runs to its end in its
\* service), a worker's work goes on, every queue gets its turn (TickAsync goes round all of them every 2 s), a dead
\* worker's lock expires, and time passes.
Fairness ==
  /\ \A r \in Requests : WF_vars(RequestStep(r))
  /\ \A j \in Jobs : WF_vars(CancelStep(j))
  /\ \A p \in Players : WF_vars(DropStep(p))
  /\ \A w \in Workers : WF_vars(WorkerStep(w))
  /\ \A l \in Lists : SF_vars(\E w \in Workers : Acquire(w, l))
  /\ \A l \in Lists : WF_vars(Dead(l) /\ Expire(l))
  /\ WF_vars(\E i \in DOMAIN match : FoundStep(i))
  /\ WF_vars(Tick)
FairSpec == Spec /\ Fairness

Waiting(l, a, b) ==
  /\ a # b /\ {a, b} \subseteq Solo(list[l])
  /\ PlayersOf(a) \cap PlayersOf(b) = {} /\ ~Blocked({a, b})

\* Two solo players who may meet do not both wait for ever, however far apart their skills are: the ranges widen with the
\* wait until they hold anyone, and a worker that dies only delays it by its lock.
PairMatched == \A l \in Pairs \cap Lists, a, b \in Requests : Waiting(l, a, b) ~> ~Waiting(l, a, b)
=============================================================================
