# OpenVersus: the parts that must agree across processes, in TLA+

OpenVersus is a set of C# services (`src/src/OpenVersus.Server.*`) that share their state through Redis and Mongo. Any
service may run as several replicas, and most of what is hard in it is not inside one function but between two Redis
commands: a login that overtakes the old connection's close, a cancel that meets the match it cancels, two games
reporting their match at the same moment, a node that dies half-way. This directory models those parts in TLA+, checks
them with TLC on small instances and proves the most important results with TLAPS for every instance.

`PROJECT.json` maps every definition to the lines it models, and lists the components, runs, mutants, findings, hazards
and theorems. The C# under `src/src/` is the reference; `src/legacy/` (the TypeScript server it replaced) is not modelled
(see "Not modelled").

## The system

| Part | State it keeps | Operations | Talks to |
|---|---|---|---|
| **Gateway nodes** (`Realtime/`, `Core/Realtime/Gateway*`) | `realtime:conn:{player}`, `player_heartbeats`, `online_players`, `realtime:out:{player}` (the replay log), each node's `_current` map | claim, resume, join, heartbeat, release, detach, replay, reap | games and edges by websocket, the other nodes by `ws:send` / `ws:disconnect`, everyone else by the stream `realtime:connections` |
| **Edges** (`Edge/`) | a game's cursor, its present link | attach, re-attach, give up | gateway nodes |
| **Matchmaking requests** (`Core/Matches/MatchmakingRequestService`, `MatchmakingQueue`) | `realtime:queued`, the queue lists, `player:{id}` status | queue, cancel, drop, found | workers (lists), gateway (who is ticked) |
| **Matchmaking workers** (`Core/Matchmaking`) | `matchmaking:lock:{queue}` | read, clean, choose, take, make | match flow, by the stream `match:launched` |
| **Match flow** (`MatchFlow/`, `Core/Matches/MatchLaunches`, `MatchStatusEvents`, `MatchResults`, `MatchEnd`) | `{match}`, `match_announced`, `match_end`, `match_results` | announce, report, end, leave | rollback servers (callbacks), games |
| **Ranked sets** (`Core/Matches/RankedSets`) | `ranked_set:{set}`, `player_ranked_set:{player}`, check-ins, the lock, `elo_processed_set` | check-in, count, concede, faceoff timeout, end of game, next game, rate | ratings (Mongo), matchmaking |
| **Disconnect readers** (`ConnectionEvents`, `LobbyDisconnects`, `MatchDisconnects`) | a consumer group's position | read an event, drop a ticket, leave a lobby, leave a match | all of the above |
| **Parties and lobbies** (`Core/Lobbies`, `PartyService`, `PartyLobbyService`) | `lobby:{id}` (compare-and-set), `player_lobby:{player}`, `pending_join_lobby:{player}`, `party_ready` | create, invite, join, leave, disconnect, set mode, ready | matchmaking |
| **Custom lobbies** (`Core/CustomLobbies`, 17 Lua scripts) | the lobby's hash, its slots and bots | each script is atomic | launches |
| **Arenas, Rifts** | runs, deadlines, progress | start, result, expire | launches, inventory |
| **Accounts** (access, identity, Steam, Epic, bans, friends, missions, reward tracks, inventory, ...) | Mongo documents | mostly one player's own | |
| **Operations** (control, settings, instance registry, `ovsctl`) | cluster and instance settings, leases | | every service |
| **Codec and static answers** (Hydra, hiss, layouts, assets) | none | | |

What is hard, by part: the gateway has node deaths, sockets that outlive their successor and two channels handled apart;
matchmaking has an expiring lock, lists read and then changed, and holds given one player at a time; ranked sets have
four ways to end a set, two players whose requests meet, and callers that do not take the lock; lobbies and the readers
have redelivered events and records changed next to their pointers.

What makes each correct: a connection's end is always told, and only its holder ends it; a game gets each message once
and in order; a ticket is in one match, and nobody is left searching for a match they are in; a set is rated once per
claim, by the score that was counted, and never waits for ever for a check-in it has; a match's players are told once,
all the same thing, and none is left on the loading screen; every change of a lobby is made to the lobby as it is, and no
change that was answered is lost.

## The modules

Every module takes one Redis command (or transaction, or script) that another actor can come between as one step; what
a handler does before the next one is part of the same action. Data is abstracted to what the properties tell apart:
messages are entries of a kind, players and tickets are names, a game is its number in the set.

| Module | Models | Lines up with |
|---|---|---|
| `Presence` | One player's presence: handshakes on several nodes, claims, resumes, heartbeats, releases, detaches with their grace, forced disconnects, node stops and deaths, the reaper, the TTL | `GatewayPresence`, `GatewayNode.HandleAsync`, `GatewayReaper`, `GatewayHosting`, the links of `EdgeSession` |
| `PresenceProofs` | The theorems about it | |
| `Delivery` | One player's messages, from the log through channels, node queues, holds and replays (entry by entry, then what was held, under the connection's gate) to the game behind an edge | `PlayerMessages`, `GatewayConnection`, `GatewayHosting`'s subscribers, `EdgeSession` |
| `Feed` | The abstract promise: each message since the connection, once, in order, no gap | what `docs/REALTIME.md` says of the log |
| `DeliveryProofs` | The theorems about it | |
| `RankedSet` | One best-of-3 set of two players from its first game to its rating, two requests under way at once | `RankedSets`, `MatchResults`, `MatchWinner`, `MatchEnd`, `MatchStatusEvents`, the login's clearing in `AccessService` |
| `RankedSetProofs`, `WinnerProofs` | The theorems about it: its keys; and who wins it | |
| `Matchmaking` | Searches of several players and parties: request, queue, cancel, drop, workers with their lock, the found match | `MatchmakingRequestService`, `MatchmakingQueue`, `MatchmakingWorker`, `LobbyDisconnects`, `FfaSchedule`, `MatchLaunches`' FoundAsync |
| `MatchmakingProofs`, `SearchProofs` | The theorems about it: its types and that a ticket is in one match; and what a player's search is between its requests and its match | |
| `Launches` | Telling one match's players: the stream entry read by several replicas, redelivered and dropped; the claim of `match_announced`; the configuration that may fail and the match called off; the rollback server's and P2P nodes' calls; the scheduled closes and their sweep | `MatchLaunches`, `RollbackCallbacks`, `DelayedMessages`, `PlayerMessages` |
| `LaunchesProofs` | The theorems about it | |
| `Lobby` | A party lobby's record and what each request makes of it | `Lobby`, the lambdas given to `LobbyStore.UpdateAsync` |
| `Rooms` | The abstract promise of `LobbyStore`: one record, one change, one moment | `LobbyStore`'s header |
| `Party` | The requests of several games at once over the records, pointers and pending joins: create (and rejoin), invite, join (and the lobby of an owner who is in a custom lobby), leave in its three forms, set mode, disconnect and forget, the notice sent half a second late; `UpdateAsync`'s rounds | `PartyService`, `LobbyStore`, `LobbyInvites`, `LobbyDisconnects`, `ConnectionEvents` |
| `PartyProofs` | The theorems about it | |
| `MC*` | Instances for TLC: symmetry sets and the searches, ratings and blocks of the matchmaking runs | |

How state corresponds: each module's VARIABLES name the Redis key, field or stream they stand for. Per-handler state
(`pc`, `req`, `wk`, `job`, and `todo` in `Party`, the commands a request has still to make) is where the C# is between
two awaits, with the locals it still uses. `Delivery` and
`Presence` do not share variables: `Delivery` assumes what `Presence` is about (the connection stays current) and
`Presence` leaves out the messages. `Launches` begins where `Matchmaking` ends (FoundAsync is one step of it), and its
close of a game is `Presence`'s.

Operators that begin with "Mutant:" in their comment are faulty versions of an operation (a dropped guard, a missing
reset, a swapped order). Nothing uses them; the mutation runs put one in the place of the operation it is a version of,
and TLC must then find the property violated.

## The runs

| Run | Instance | Shows |
|---|---|---|
| `presence_logins` | 2 nodes, 2 connections (one an edge's), 2 sockets, post-match windows | `Announced`: an announced connection is current, or its end was or is about to be appended. `HolderReleases`: no close or release lets go of an entry whose socket is open. No node fails here |
| `presence_drain` | 2 nodes of which one may stop or die, 2 sockets of an edge's connection, one failed Redis command of that node, which may go on as an outage; fair | `PresenceDrains`: once the game has left, entry and heartbeat go. `HolderReleases` with the failures: the reaper and the TTL may let go of an open socket's entry, but only if its node lost Redis commands |
| `delivery_feed` | 2 entries of 3 kinds, 2 links, 2 nodes of which one may die, one failed claim; fair | `FeedSpec` (Delivery implements Feed), `EveryMessageArrives`, `ClosesInAGap` |
| `rankedset_ends` | 2 requests, 2 games, 2 check-ins per player and game, 2 faults of 5 kinds (`"early"`, `"concede"`, `"faceoff"`, `"drop"`, `"login"`) | `RatedByKey`, `NoStall`, `CheckinsCurrent` |
| `rankedset_three` | 2 requests, 3 games, 1 check-in per player and game, 2 faults of 9 kinds (all but `"early"`, `"faceoff"`, `"login"`) | `WinnerWon`, `ScoreCounts`, `CrashUnrated` |
| `rankedset_twice` | violation | `RatedOnce`, see below |
| `matchmaking_pairs` | 3 searches of 2 players on 1v1, 2 workers, 1 cancel, 1 fault of 4 kinds | `MatchedOnce`, `TicksStop` |
| `matchmaking_parties` | 3 searches on 2v2, of a party of two and three solo players one of whom is in the party; 2 workers, 1 fault: no port, a worker dying, a queueing failing | `NoPlayerTwice` |
| `matchmaking_four` | 4 searches on FFA whose window may close | `StatusHeld` |
| `matchmaking_meet` | 2 searches up to 600 apart, 2 workers, one dying or losing its lock; fair | `PairMatched` |
| `launches` | 2 players (one searching, one who may leave and come back once), ranked or P2P, 2 replicas, 1 call, an entry dropped after 2 redeliveries, 1 fault; fair | `ToldOnce`, `OneVerdict`, `LostOnlyOnceClaimed`, `Settles`, `NobodyLeftLoading` |
| `party` | 3 players, 2 requests of any kind and 1 change of mode, begun as a duo with an invite out or as a party of three; one player in a custom lobby; 2 rounds a change | `RoomsSpec` (Party implements Rooms), `NoTwice`, `BeatenOnly`, `JoinLands` |

Each run's module also has a type invariant. Deadlock is not checked where the model really stops: `Presence`,
`Delivery` and `RankedSet` end when the games have left or the set is over, `Launches` when the match is told and its
calls are served, `Party` when its requests are. In `Matchmaking` a worker can always look
at its queues again, so deadlock is checked.

### Bounds, and why they are enough

* Two nodes, two sockets: every race of `Presence` is between one handler and its successor; a third socket adds only a
  repetition. `HolderReleases` and `Announced` do not depend on it: they are proved for any number.
* Two log entries suffice for every order of two deliveries, of a message and a close, and for a gap before a delivery;
  two links for one resume. `MaxFaults` bounds the failed claims.
* Three games are all a set has (a fourth would only be made by losing count, which `MaxGames = 4` would allow). Two
  requests at once are what two players can have under way; the lock makes a third wait. `MaxReports = 2` is the game's own
  check-in and its timer's. `MaxFaults` counts what goes wrong in a set; a restart of a game takes two (a `"drop"`, then
  the `"login"`), so both runs allow two. The three kinds that refute `WinnerWon` meet each other, a
  concede and a close in `rankedset_ends`; no run has them beside the remaining seven. All these properties are proved for any
  behaviours (but for the hypotheses below) and any bounds.
* A pair needs two tickets and a third is what a duplicate or a second match needs; a 2v2 group with a shared player
  needs three (a party, a solo player, and one of the party). `MatchedOnce` is proved for any number. `StrictFor` and `LooseFor` are the worker's 5 and 10 s scaled down to 1 and 2, `MaxTime` lets both pass.
  `LastAsk` keeps a ticket from being younger than the clock can show.

* One call at a time beside two replicas is what `Launches` needs: a launch read twice and a release that meets it. The
  drop after two redeliveries stands for five (the replicas are alike, so a third adds a repetition), and `MaxConns = 2` is one
  connection too many for a close that names the first.
* Two requests of every kind meet at every pair of commands in `Party`; the third is the writer that gets between
  their rounds, so that a change can lose all of `Attempts = 2` (ten in the code). Each of its safety properties is
  proved for any number of players, requests and rounds.

### Fairness

Weak fairness of a handler's next step: the C# awaits and continues, and nothing in it waits on another actor for ever.
Of the subscribers (each node drains its channel queues), of the reaper (a timer) and of a key's TTL. Of the edge's
re-attach (it retries until it gives up, which the model lets it do at any time). The workers' `Acquire` is strongly
fair: a worker goes round all queues every 2 s, and no one holds a lock for ever (a dead holder's expires). Of the
launch replicas (the stream is read for ever), of a release begun, and of the sweep (a timer). No fairness on logins,
leaves, launches, calls, faults, cancels or deaths.

## What is proved

`PresenceProofs`, for any sets of nodes, connections and sockets:

* `TypeCorrect`: `Spec => []TypeOK`.
* `HoldingHolds`: the invariant `Holding`: a handler past its receive loop runs on an ended socket, handlers of a dead
  node have ended, and the entry, if any, names a socket that claimed or resumed it under its own id, on its own node,
  and has not released it. `HolderReleases` alone is not inductive: the release script compares the attachment, so one
  must know that a handler at its release runs on an ended socket, and that nobody else's attachment can be in the entry.
* `HolderReleasesHolds`: from `Holding`, the action property the runs check: whatever fails, no handler's step lets go of an
  entry whose socket is open, and what does (the reaper, the TTL) does so only when the holder's node has lost Redis commands
  (`CutFromRedis`). That is not "only once the socket ended": an answer whose renewal fails still counts as an answer
  (`GatewayNode.cs:217`), so the game stays while its entry runs out. The theorem rests on the reaper's detector as it is
  modelled (`Gone`, see the assumptions below).
* `AnnouncedHolds`: `Announced`, if no node stops, dies or loses a Redis command (`Failing = {}`). Its invariant (`Attended`) strengthens
  "announced" to "claimed" (`Begun`) and follows each such connection from the entry to the handler that will append
  its end (`Accounted`), and needs that the entry's holder is still running.

`MatchmakingProofs`, for any sets of players, workers, requests, queues and searches, any skills, blocks and bounds:

* `TypeCorrect`: `Spec => []TypeOK`. Its invariant adds `Named`: what a request, a worker or a cancel at work goes by (its
  queue, its requester, its player and ticket) is there.
* `MatchedOnceHolds`: unless a worker outlives its lock (`"slow"` among the faults), `MatchedOnce`. The invariant `Once`
  says why the lock is enough: a worker at work holds the lock of its queue (`Locked`); a listed ticket was pushed on its
  own queue and is in no match (`ListedFree`); so is one a worker read or chose, from the queue it holds the lock of
  (`ReadFree`); chosen tickets are off the lists when the match is made (`ChosenOff`); and a ticket in a match was pushed,
  so it is never pushed again (`TakenDone`). TLC checked `Once` on the bounds of `matchmaking_pairs` before the proof.

`SearchProofs`, of the same module:

* `NoPlayerTwiceHolds`: two tickets chosen together, and two of one match, share no player. It rests on nothing the lock is
  for. Its invariant `Parted` says that pushed tickets have places of their own in the order of pushes (`Placed`), so that of
  two that share a player one is the older, and that whatever is listed, read or matched was pushed; what a worker has left
  once it dropped the older ones shares no player, and groups and matches are made of that.
* `TicksStopHolds`: a match announced has nobody left whose ticks go on. The invariant (`Ticked`) follows who may hold a
  ticket (`AsksOwn`, `HoldsOwn`) to the announcement that has still to visit them (`StillToStop`).
* `StatusHeldHolds`: a player shown as queued holds a ticket or is about to be shown as something else, if no request fails
  between the status and the ticket (`"fail"`) and, where FFA is served, no worker dies while it cancels the tickets of a
  closed queue (`"crash"`). Both hypotheses are needed: the code has nothing that repairs either.

`PartyProofs`, for any sets of players and requests, any kinds, modes and beginnings, and any number of rounds:

* `SpecTypeOK`: `Spec => []TypeOK`. Types alone are not inductive: a step that fetches, changes or writes a record must
  have one in hand. `Sound` says for each request what is in hand while which steps are left (`Going`: the steps ahead
  fit the lobby, the record and the change held; `Writing`: a round under way has read a record; `Stuck`: a change given
  up lost its last round), and each handler's branch is shown to hand over a sound plan.
* `SpecRooms`: `Spec => RoomsSpec`, the refinement. The initial records are `Rooms`' initial records; a command that
  writes is one of `Make`, `Change` and `Delete`, and every other a stutter. The case that matters is `Land`: its
  condition makes the record read, and found fit to change, the one that is stored.
* `SpecNoTwice`: a join looks again in each round, so the record it appends to does not have the player.
* `SpecBeatenOnly`: rounds lost are never more than others' writes of that record, counted while the round was open.
* `SpecJoinLands`: what a join's change writes, or finds and keeps, has the player; `Whose` says whose the change is.

`LaunchesProofs`, for any players, parties, replicas and calls, any number of deliveries and faults:

* `SpecTypeOK`: `Spec => []TypeOK`, with `Named`: a step that closes a game has in hand whose, and a launch's is one its
  loop has still to visit.
* `SpecToldOnce`, `SpecOneVerdict` and `SpecLostOnlyOnceClaimed`, from one invariant, `Inv`. None of the three is
  inductive: what a player hears next depends on where the one replica at it stands. `OneTeller` says there is one: as
  long as `match_announced` may still be set (`Claimable`: it is not there, and `{match}` is, or a replica is past its look
  at it) nobody has been told anything, and afterwards one replica at most is between its claim and its acknowledgement.
  `Stage` says how far that one has come: at each of its steps, who has heard which word. `Acked` adds why an entry may
  be acknowledged: the match is over, the deliveries are used up, or the claim was made (`Spent`), and whoever made it
  is at it, has told all, or was cut short by a fault. TLC checked `Inv` on the bounds of `launches` before the proof.

`DeliveryProofs`, for any nodes and links, a log of any length and any number of faults:

* `TypeCorrect`: `Spec => []TypeOK`.
* `SpecFeed`: `Spec => FeedSpec`, the refinement. A frame the game reads is `Feed`'s delivery, which may skip only what
  nothing is to be done for. So the invariant `Inv` follows every message of the log from the node's queue to the game:
  `Places` says which link a node serves, and how far it is with it; `Outs` that the messages on their way to the edge rise
  and are past its cursor; `Cover` that none the game has yet to get is missing among them, up to the end of that queue;
  `Pending` that what comes after the end is still to be read or replayed, held, or with the node, and that what is held
  comes before what is with the node; `InOrder` that the node's messages rise. So the next one queued skips none, and neither
  does the next one read. TLC checked `Inv` on two instances before the proof.

`RankedSetProofs`, for any requests under way, any numbers of games, check-ins and faults:

* `TypeCorrect`: `Spec => []TypeOK`.
* `ScoreCountsHolds`: while nobody has the lock, the score is the points counted. Its invariant is about the copy of the set
  in the hands of whoever has the lock: that is what is written back.
* `RatedByKeyHolds`: one rating per `elo_processed_set` id. `Claimed`: who is about to rate claimed the id, alone, and
  nobody rated it before.
* `CrashUnratedHolds`: a request about a crashed game rates nothing, unless it is the game's end, and no end of a crashed game
  is begun. A crash comes to a game that is undecided, or whose `match_started` is still there (`StartedKept`), which may be
  while its end waits for the lock or later. `Uncrashed`: a dodged game has not crashed, since it never starts and
  has no reports. An end that had asked before the crash came is left out because the code rates it (the departures below);
  so is a crash between a request's last look and its rating, which are one step in the model.
* `CheckinsCurrentHolds`: check-ins counted for the game the set is at were sent for it (`SentFor`: at the lock too, and a
  next game is made of both first ones only).
* `NoStallHolds`, if a port is left for each next game: two check-ins for the game last made never leave the set waiting. The
  invariant needs two parts: while both are in, who has the lock sees both or is about to rate (`Going`); and the once-key
  of the step is only there when the step was taken, or is being taken, or the set is over (`Deduped`). Without the
  hypothesis the step stays claimed when no port is found, and both players wait.

`WinnerProofs`, for the same, without `"early"`, `"faceoff"` and `"login"`:

* `WinnerWonHolds`: a set rated on its score is won by a team that two of its games count for. The danger is a set that
  has *played* three games (`SetOverAsync`'s own bound) of which fewer *count*: it is then rated on 1-1, and team 1 wins
  an even score. So the invariant says that a set, and every copy of it in a request's hands, has played no more games
  than are over and count (`PlayedScored`); a game's end adds one to both, because its reports count by then (`Counting`:
  a started game's reports count or are on their way to the lock, and one on its way finds the pointers and the set).
  That needs the games to follow one another (`InTurn`) and, while the last is not over, that nobody takes the next step
  of the set or its pointers (`Quiet`: the once-key of the step, no check-in of the set's match; unless the game crashed while it was played, `Clean`), which in turn needs
  that who finds no set finds it over (`Found`) and that requests are about games in the state they began with (`Fits`).
  All of it holds until the set is claimed or gone (`Closed`). `Earned` is then the property itself, for the ratings made
  and those a request is about to make.
  TLC checked the whole invariant on four instances (2 and 3 requests, 2 and 3 games, the nine other behaviours) before the
  proof, and gave the hypothesis: `"early"` and `"faceoff"` each refute `WinnerWon` with two faults, `"login"` (with
  `"drop"`) with three; see the departures below. `rankedset_three` has none of the three, and two faults of the nine others.

Assumptions about what is outside the modelled code, and stated at the definitions that make them:

* `Presence.Gone`: a node whose registry entry has been missing for the reaper's 10 s has died, stopped, or lost Redis commands. That
  a node which does reach Redis rewrites its entry in time is assumed; for one that does not, one modelled failure stands for
  an outage of any length (`CutFromRedis`).
* `RankedSet.EndMatch`: a started game that nobody reported has crashed by the time its end is handled. `GameEndedAsync` does
  not ask; the rollback server's `AllPlayersDisconnected` (`MatchStatusEvents.cs:209`) is taken to be handled before the end.

The constants' assumptions (`ConstantsAssumption` of `Presence` and of `Delivery`; `LaunchAssumption`, `PartyAssumption`, `SetAssumption`; in `Matchmaking`, `ListsAssumption`, `SearchesAssumption`,
`BoundsAssumption` and `NoneAssumption`) are evaluated by TLC in every run.

Only model-checked: the liveness properties (`PresenceDrains`, `EveryMessageArrives`, `ClosesInAGap`, `PairMatched`,
`Settles`, `NobodyLeftLoading`), since the prover has neither fairness nor ENABLED. Every other property of a passing run
is a theorem, five of them under a hypothesis about the faults or the players that the theorem states.

## Where the code departs from its comments

One departure is a run of its own (an expected violation, quoted in `PROJECT.json`):

* `rankedset_twice`: a concede that waited for the lock while the check-ins made the next game drops the pointers; a
  leave of that game before its start is then rated under the game's own id, a second rating of the set.

Others the modules reach and no run states:

* `ClosedAsync` compares in its release script only. Its later ZREM and SREM may run after a new login's claim, and take
  the connected player out of `online_players` (`GatewayPresence.cs:180`; line 12: "so a reconnect is never undone by the
  old socket's close"). `ConnectedIsOnline` in `Presence` says it, and TLC finds it violated.
* A cancel between the worker's read and its removal (or between a hold and its push) is told to the game, and the match
  is made all the same (`MatchmakingWorker.cs:526`). `NeverAfterCancel` in `Matchmaking` says it, and TLC finds it
  violated.

* A node that dies in a close after the heartbeat's ZREM (`GatewayPresence.cs:183`) leaves the player in `online_players`:
  the reaper finds players by heartbeats.
* Two logins on one node that join `_current` in the other order than they claimed close the current connection as
  replaced (`GatewayNode.cs:192`).
* A link its edge gave up on may run its claim late, take the entry from the node that has the game, and release it
  when it ends (`GatewayNode.cs:179`).
* What is logged between the claim's read of the head and the joining of `_current` is neither delivered nor replayed.
* `ws:send` and `ws:disconnect` are handled apart: a message that overtakes a forced close moves the edge's cursor past
  it, and a resume then never replays the close (`GatewayHosting.cs:254`).
* Failed renewals do not cut a game off: `AnsweredAsync` comes after the answer is noted (`GatewayNode.cs:217`), so the TTL or
  the reaper may take the entry of a game that is connected.
* A match that crashed may be rated, though `RankedSets.cs:34` says never: a game's end asks for the crash at line 443, may wait
  for the lock at 460, and `SetOverAsync` (561-600) does not ask again, while a server error is taken as long as
  `match_started` is there (`MatchStatusEvents.cs:201`, until `MatchEnded`). `CrashUnrated` leaves that end out. A crash of game 1
  that is handled after its end is seen by the check-ins and concedes of the later games (the set's id is game 1's), but not
  by their ends and dodges. A crash between the look at line 631 and the rating, or a dodge and a crash both past `LeftAsync`'s
  looks, comes too late as well; those are one step in `RankedSet`.
* A set conceded at a game's end is settled by its score at the check-ins: a conceder who leads and is back wins it.
* `FaceoffTimeoutAsync` takes no lock: a game's end under way writes the dropped set back. A crash
  takes none either, so a check-in that read the set before it may still rate the set's earlier games.
  For the same reason a timeout or a dodge, while late check-ins of the game before are under way, can leave both players
  checked in for a game already passed: `NoStall` is about the game last made.
* A game can be played and count for nobody: it ends before its report is answered, its opponent never loads, or its end
  finds the set through `match_to_set` after a dodge rated under the match's own id (the dodger had started the game again
  and has no pointer). The set is then over after three games on 1-1 or less, and `team0Wins > team1Wins ? 0 : 1`
  (`RankedSets.cs`) makes team 1 its winner. `WinnerWonHolds` is without these three.
* Of two disagreeing reports the later one, kept first, may count its decision last.
* Game 1 has no `match_to_set`: once its first player has logged in again its end finds no set.
* A worker slower than its lock's 10 s: two workers match the same tickets.
* A ticket's time is in whole seconds and a close's in milliseconds: a ticket of the same second is dropped with the old
  game's. Two requests of a player on two lists may both be pushed. A drop between one party member's hold and the
  other's cancels nobody else.

* A launch that is cut short between the claim of `match_announced` and the last word is lost for those not told yet: the
  redelivery finds it announced (`MatchLaunches.cs:317`; the code accepts it, "told at most once").
  `LostOnlyOnceClaimed` says that only this, the match's end and the last redelivery lose one.
* Whether a party is full is looked at when a player is invited (`PartyService.cs:344`), not when they join: two invites
  accepted make a party of three, though line 728 says "a party has two (InviteAsync refuses a third)". When a member who
  is not the owner then disconnects, the third is dropped untold, with a pointer to the lobby left behind.
* A leave of a named lobby leaves the record's owner as it was (`PartyService.cs:520`) while the others are told that the
  first of them leads; `keepOwner` later returns that lobby to an owner who is not in it.
* `DeleteAsync` deletes whatever is stored (`PartyService.cs:625` and `710`): a lobby somebody joined since it was read too.
  A join whose lobby goes between its read and its change points the player at it all the same (line 452).
* What follows a change is decided on the record its last round gave (`PartyService.cs:452`): players who joined or left after
  that round are told, or given lobbies of their own, by a record that is no longer so.
* The notice of a join writes the others' pointers and pending joins half a second late, though they may have left.
* The ready players are counted, not compared with the lobby's (`PartyService.cs:822`), and neither a real leave nor a
  step of joining another resets the set: one who left still counts.

## Not modelled

Everything `PROJECT.json` lists as `not_modelled`, with the reason there. In short: what is a function of one document
or a fixed file (layouts, hiss, profiles, catalog), byte formats, text rules, ratings' arithmetic (floating point), the
hosting and the command line; and what is planned below.

The TypeScript under `src/legacy/` is by far the larger part of the repository, most of it data tables (layouts,
inventory, missions, rifts). The repository's README keeps it "strictly for reference" and says it is no longer run; a
model of it would be of a program nobody starts. Where it and the C# differ the C# says so in its comments.

Of the components that are modelled:

* `Party` leaves out the ready set, the locked loadouts and the `joinable` flag (which nothing reads), what Arena and rift
  lobbies and Twosday do in the same handlers, `create_party` (a create that keeps whatever pointer there is), the lobby
  after a custom leave, `PartyLobbyService`'s routes, the cancel of a search when somebody joins (`Matchmaking` has it),
  the keys' lifetimes, and Redis failures: a handler cut short leaves what the commands before it wrote, which the next
  request meets as any other state. A disconnect tried again is a second disconnect. Who is in a custom lobby does not
  change. The transaction's WATCH compares values, so a record written back to the same value in between passes, as in
  the model. `ForgetLobbyAsync` removes every place of the player, the model one: they have one (`NoTwice`).
* `Launches` has one match of two players at the most in a run, no spectators and bots, and a configuration is built or
  not. A player of a match being called off is not in another yet.
* `RankedSet` has one set; an old game's report that finds another set is out of it. Its check-ins all name their game; one
  without a `ContainerMatchId` counts for whichever game the set is at, which the header of `RankedSets.cs` says.
* `Matchmaking` pairs by a fixed window (`SkillRange`) where the default for 1v1 goes by the population; a push that was made
  though its answer was lost is left out of `QueueFails`; `created_at`, taken before a ticket's reads, is of the same step.
* A queueing that fails for one of a party cancels the leader only, and tickets taken when no port or no worker is left
  are gone: `Matchmaking` has both steps, the code's comments accept both, and no property is stated of them.

## Plan

In this order, the most important first:

1. `Disconnects`: the consumer group of `realtime:connections` and its three readers, on `Presence`'s events; an event
   read late must not undo what a newer connection began.
2. `CustomLobby`: the Lua scripts as atomic actions over slots, teams, bots and ready flags.
3. The ready set beside `Party`, with the leaves that do not reset it.
4. `RankedSet` with two sets of one player and the queue's clean-up.
5. `MatchResultStream`, `Arenas`' deadlines, `InstanceRegistry`; the population windows as functions against a reference.

Runs are kept few: a new module shares a run or takes the place of one that says less.

Theorems worth having next: the types and the safety of each module above as it comes; `WinnerWon` with players who start
the game again but do not leave while a game loads, which the same invariant should bear.
