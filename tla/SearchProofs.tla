---------------------------- MODULE SearchProofs ----------------------------
(* More theorems about Matchmaking: what the players of a match are promised, for every set of players, workers, searches *)
(* and queues, and however slow a worker is.                                                                             *)
EXTENDS MatchmakingProofs

(* ------------------------------------------ What stays once it is there ---------------------------------------------- *)

\* A request that began stays begun, with its ticket's players and queue; one that is done stays done, its ticket as it is.
LEMMA TicketsKept ==
  ASSUME Typed, [Next]_vars
  PROVE  \A t \in Requests : /\ req[t].at # "new" => req'[t].at # "new" /\ ticket'[t].all = ticket[t].all
                             /\ req[t].at = "done" => req'[t].at = "done" /\ ticket'[t] = ticket[t]
<1> DEFINE Kept == \A t \in Requests : /\ req[t].at # "new" => req'[t].at # "new" /\ ticket'[t].all = ticket[t].all
                                       /\ req[t].at = "done" => req'[t].at = "done" /\ ticket'[t] = ticket[t]
<1> USE DEF queues
<1>1. ASSUME NEW r \in Requests, Ask(r) \/ RequestStep(r) \/ QueueFails(r) PROVE Kept
  <2>1. req[r] \in RequestType /\ ticket[r] \in TicketType /\ req \in [Requests -> RequestType] /\ ticket \in [Requests -> TicketType]
    BY DEF Typed, TypeOK
  <2>2. \A t \in Requests \ {r} : req'[t] = req[t]
    BY <1>1, <2>1 DEF Ask, RequestStep, Clear, Queue, Wipe, Started, Hold, Push, QueueFails
  <2>3. \A t \in Requests \ {r} : ticket'[t] = ticket[t]
    BY <1>1, <2>1 DEF Ask, RequestStep, Clear, Queue, Wipe, Started, Hold, Push, QueueFails
  <2>4. CASE Ask(r)
    BY <2>2, <2>3, <2>4 DEF Ask
  <2>5. ASSUME ~Ask(r) PROVE req[r].at \notin {"new", "done"} /\ req'[r].at # "new" /\ ticket'[r].all = ticket[r].all
    <3>1. req[r].at \notin {"new", "done"}
      BY <1>1, <2>5 DEF RequestStep, Clear, Queue, Wipe, Started, Hold, Push, QueueFails
    <3>2. ticket'[r].all = ticket[r].all
      <4>1. CASE Queue(r)
        <5>1. ticket'[r] = [ticket[r] EXCEPT !.created = Seconds(now)]
          BY <2>1, <4>1 DEF Queue
        <5>. QED
          BY <2>1, <5>1 DEF TicketType
      <4>2. CASE Push(r)
        <5>1. ticket'[r] = [ticket[r] EXCEPT !.place = pushes + 1]
          BY <2>1, <4>2 DEF Push
        <5>. QED
          BY <2>1, <5>1 DEF TicketType
      <4>3. CASE Clear(r) \/ Wipe(r) \/ Started(r) \/ Hold(r) \/ QueueFails(r)
        BY <4>3 DEF Clear, Wipe, Started, Hold, QueueFails
      <4>. QED
        BY <1>1, <2>5, <4>1, <4>2, <4>3 DEF RequestStep
    <3>3. req'[r].at # "new"
      <4>1. CASE Clear(r) \/ Queue(r) \/ Wipe(r)
        BY <2>1, <4>1 DEF Clear, Queue, Wipe, RequestType
      <4>2. CASE Started(r)
        BY <2>1, <4>2 DEF Started, RequestType
      <4>3. CASE Hold(r) \/ Push(r)
        BY <2>1, <4>3 DEF Hold, Push, RequestType
      <4>4. CASE QueueFails(r)
        BY <2>1, <4>4 DEF QueueFails, NewRequest
      <4>. QED
        BY <1>1, <2>5, <4>1, <4>2, <4>3, <4>4 DEF RequestStep
    <3>. QED
      BY <3>1, <3>2, <3>3
  <2>6. CASE ~Ask(r)
    BY <2>2, <2>3, <2>5, <2>6
  <2>. QED
    BY <2>4, <2>6
<1>2. CASE UNCHANGED <<req, ticket>>
  BY <1>2
<1>3. ASSUME NEW j \in Jobs, CancelStep(j) PROVE Kept
  BY <1>3, <1>2 DEF CancelStep, CancelGet, CancelList, CancelHash, CancelTell, CancelEnds
<1>4. ASSUME NEW p \in Players, GameCancels(p) \/ Disconnect(p) \/ Login(p) \/ Replace(p) \/ DropStep(p) PROVE Kept
  BY <1>4, <1>2 DEF GameCancels, Disconnect, Login, Replace, DropStep, DropGet, DropList, DropHash, DropIdle
<1>5. ASSUME NEW w \in Workers, NEW l \in Lists, Acquire(w, l) PROVE Kept
  BY <1>5, <1>2 DEF Acquire
<1>6. ASSUME NEW w \in Workers, WorkerStep(w) \/ NoPort(w) \/ Crash(w) PROVE Kept
  BY <1>6, <1>2 DEF WorkerStep, Read, ReadClosed, Closing, Closed, Clean, Choose, Take, Make, NoPort, Crash
<1>7. ASSUME NEW l \in Lists, Expire(l) PROVE Kept
  BY <1>7, <1>2 DEF Expire
<1>8. ASSUME NEW i \in DOMAIN match, FoundStep(i) PROVE Kept
  BY <1>8, <1>2 DEF FoundStep, FoundHash, FoundStatus, FoundTell
<1>9. CASE Tick \/ CloseWindow \/ UNCHANGED vars
  BY <1>9, <1>2 DEF Tick, CloseWindow, vars
<1>. QED
  BY <1>1, <1>3, <1>4, <1>5, <1>6, <1>7, <1>8, <1>9 DEF Next

(* ---------------------------------------- No player is in a match twice ---------------------------------------------- *)

\* A ticket that was pushed has a place of its own in the order of pushes.
Pushed(t) == req[t].at = "done" /\ ticket[t].place > 0
Placed ==
  \A t \in Requests :
    /\ ticket[t].place <= pushes
    /\ ticket[t].place > 0 => req[t].at = "done" /\ \A u \in Requests \ {t} : ticket[u].place # ticket[t].place
\* No two of these tickets share a player.
Apart(S) == \A a, b \in S : a # b => PlayersOf(a) \cap PlayersOf(b) = {}

\* What NoPlayerTwice rests on. What is listed, read, chosen or matched was pushed, and so is older or younger than
\* anything it shares a player with; what a worker still has once it dropped the duplicates shares no players, and neither
\* do the groups chosen from that and the matches made of them.
ListedPushed == \A l \in Lists : \A t \in list[l] : Pushed(t)
ReadPushed == \A w \in Workers : \A t \in wk[w].read \cup wk[w].group : Pushed(t)
MatchedPushed == \A i \in DOMAIN match : \A t \in match[i].group : Pushed(t)
ReadApart ==
  \A w \in Workers : (wk[w].at \in {"choose", "take", "make"} => Apart(wk[w].read)) /\ Apart(wk[w].group)
Parted == Placed /\ ListedPushed /\ ReadPushed /\ MatchedPushed /\ ReadApart /\ NoPlayerTwice

\* Of two pushed tickets one is the older.
LEMMA OlderTotal ==
  ASSUME Typed, Placed, NEW t \in Requests, NEW u \in Requests, t # u, Pushed(t)
  PROVE  Older(t, u) \/ Older(u, t)
<1>1. ticket[t] \in TicketType /\ ticket[u] \in TicketType
  BY DEF Typed, TypeOK
<1>2. ticket[t].created \in Nat /\ ticket[u].created \in Nat /\ ticket[t].place \in Nat /\ ticket[u].place \in Nat
  BY <1>1 DEF TicketType
<1>3. ticket[t].place # ticket[u].place
  BY DEF Placed, Pushed
<1>. QED
  BY <1>2, <1>3 DEF Older

\* DropDuplicatesAsync leaves no two tickets that share a player.
LEMMA FreshApart ==
  ASSUME Typed, Placed, NEW S \in SUBSET Requests, \A t \in S : Pushed(t)
  PROVE  Apart(S \ Stale(S))
<1> SUFFICES ASSUME NEW a \in S \ Stale(S), NEW b \in S \ Stale(S), a # b, PlayersOf(a) \cap PlayersOf(b) # {}
             PROVE  FALSE
  BY DEF Apart
<1>1. Older(a, b) \/ Older(b, a)
  BY OlderTotal
<1>2. PlayersOf(b) \cap PlayersOf(a) # {}
  OBVIOUS
<1>. QED
  BY <1>1, <1>2 DEF Stale

\* Every match is one.
LEMMA MatchTyped ==
  ASSUME TypeOK
  PROVE  DOMAIN match = 1 .. Len(match) /\ Len(match) \in Nat /\ \A i \in DOMAIN match : match[i] \in MatchType
<1>1. match \in Seq(MatchType)
  BY DEF TypeOK
<1>. QED
  BY <1>1

\* A pushed ticket stays pushed, with its players and its age.
LEMMA PushedKept ==
  ASSUME Typed, [Next]_vars
  PROVE  /\ \A t \in Requests : Pushed(t) => Pushed(t)' /\ PlayersOf(t)' = PlayersOf(t)
         /\ \A S \in SUBSET Requests : Apart(S) /\ (\A t \in S : Pushed(t)) => Apart(S)'
<1>1. \A t \in Requests : Pushed(t) => Pushed(t)' /\ PlayersOf(t)' = PlayersOf(t)
  BY TicketsKept DEF Pushed, PlayersOf
<1>2. ASSUME NEW S \in SUBSET Requests, Apart(S), \A t \in S : Pushed(t) PROVE Apart(S)'
  BY <1>1, <1>2 DEF Apart
<1>. QED
  BY <1>1, <1>2

\* Whoever takes part: what they do not touch stays parted.
LEMMA RestParted ==
  ASSUME Typed, Parted, [Next]_vars
  PROVE  /\ \A l \in Lists : (\A t \in list'[l] : t \in list[l] \/ Pushed(t)') => \A t \in list'[l] : Pushed(t)'
         /\ \A w \in Workers : wk'[w] = wk[w] =>
              /\ \A t \in wk'[w].read \cup wk'[w].group : Pushed(t)'
              /\ wk'[w].at \in {"choose", "take", "make"} => Apart(wk[w].read)'
              /\ Apart(wk[w].group)'
         /\ \A i \in DOMAIN match : i \in DOMAIN match' /\ match'[i].group = match[i].group =>
              Apart(match[i].group)' /\ \A t \in match'[i].group : Pushed(t)'
<1>1. \A l \in Lists : list[l] \subseteq Requests
  BY DEF Typed, TypeOK
<1>2. \A w \in Workers : wk[w].read \subseteq Requests /\ wk[w].group \subseteq Requests
  BY DEF Typed, TypeOK, WorkerType
<1>3. \A i \in DOMAIN match : match[i].group \subseteq Requests
  BY MatchTyped DEF Typed, MatchType
<1>4. ASSUME NEW i \in DOMAIN match PROVE Apart(match[i].group)
  BY DEF Parted, NoPlayerTwice, Apart
<1>5. /\ \A t \in Requests : Pushed(t) => Pushed(t)'
      /\ \A S \in SUBSET Requests : Apart(S) /\ (\A t \in S : Pushed(t)) => Apart(S)'
  BY PushedKept
<1>6. ASSUME NEW l \in Lists, \A t \in list'[l] : t \in list[l] \/ Pushed(t)' PROVE \A t \in list'[l] : Pushed(t)'
  BY <1>1, <1>5, <1>6 DEF Parted, ListedPushed
<1>7. ASSUME NEW w \in Workers, wk'[w] = wk[w]
      PROVE  /\ \A t \in wk'[w].read \cup wk'[w].group : Pushed(t)'
             /\ wk'[w].at \in {"choose", "take", "make"} => Apart(wk[w].read)'
             /\ Apart(wk[w].group)'
  <2>1. \A t \in wk[w].read \cup wk[w].group : Pushed(t)
    BY DEF Parted, ReadPushed
  <2>2. (wk[w].at \in {"choose", "take", "make"} => Apart(wk[w].read)) /\ Apart(wk[w].group)
    BY DEF Parted, ReadApart
  <2>3. \A t \in wk[w].read \cup wk[w].group : Pushed(t)'
    BY <1>2, <1>5, <2>1
  <2>4. \A S \in {wk[w].read, wk[w].group} : Apart(S) => Apart(S)'
    BY <1>2, <1>5, <2>1
  <2>5. Apart(wk[w].read) => Apart(wk[w].read)'
    BY <1>7, <2>4
  <2>6. Apart(wk[w].group)'
    BY <1>7, <2>2, <2>4
  <2>. QED
    BY <1>7, <2>2, <2>3, <2>5, <2>6
<1>8. ASSUME NEW i \in DOMAIN match, match'[i].group = match[i].group
      PROVE  Apart(match[i].group)' /\ \A t \in match'[i].group : Pushed(t)'
  BY <1>3, <1>4, <1>5, <1>8 DEF Parted, MatchedPushed
<1>. QED
  BY <1>6, <1>7, <1>8

\* A step of anyone but a worker keeps Parted, if what it adds to a list is pushed.
LEMMA OthersKeepParted ==
  ASSUME Typed, Parted, [Next]_vars, UNCHANGED wk, Placed',
         \A l \in Lists : \A t \in list'[l] : t \in list[l] \/ Pushed(t)',
         DOMAIN match' = DOMAIN match, \A i \in DOMAIN match : match'[i].group = match[i].group
  PROVE  Parted'
<1>1. ListedPushed' /\ ReadPushed' /\ MatchedPushed'
  BY RestParted DEF ListedPushed, ReadPushed, MatchedPushed
<1>2. ReadApart'
  BY RestParted DEF ReadApart
<1>3. NoPlayerTwice'
  BY RestParted DEF NoPlayerTwice, Apart
<1>. QED
  BY <1>1, <1>2, <1>3 DEF Parted

\* So does a worker's, if it keeps to pushed tickets and to groups that share no players.
LEMMA WorkerKeepsParted ==
  ASSUME Typed, Parted, [Next]_vars, NEW w \in Workers, NEW x, wk' = [wk EXCEPT ![w] = x],
         UNCHANGED <<req, ticket, pushes, match>>, \A l \in Lists : list'[l] \subseteq list[l],
         \A t \in x.read \cup x.group : Pushed(t),
         x.at \in {"choose", "take", "make"} => Apart(x.read), Apart(x.group)
  PROVE  Parted'
<1>1. wk'[w] = x /\ \A v \in Workers \ {w} : wk'[v] = wk[v]
  BY DEF Typed, TypeOK
<1>2. \A t : Pushed(t)' <=> Pushed(t)
  BY DEF Pushed
<1>3. \A S : Apart(S)' <=> Apart(S)
  BY DEF Apart, PlayersOf
<1>4. Placed' /\ ListedPushed' /\ MatchedPushed' /\ NoPlayerTwice'
  BY <1>2 DEF Parted, Placed, ListedPushed, MatchedPushed, NoPlayerTwice, PlayersOf
<1>5. ReadPushed'
  BY <1>1, <1>2 DEF Parted, ReadPushed
<1>6. ReadApart'
  <2> SUFFICES ASSUME NEW v \in Workers
               PROVE  ((wk[v].at \in {"choose", "take", "make"} => Apart(wk[v].read)) /\ Apart(wk[v].group))'
    BY DEF ReadApart
  <2>1. CASE v = w
    BY <1>1, <1>3, <2>1 DEF Apart, PlayersOf
  <2>2. CASE v # w
    BY <1>1, <2>2, RestParted
  <2>. QED
    BY <2>1, <2>2
<1>. QED
  BY <1>4, <1>5, <1>6 DEF Parted

\* A worker that stops has nothing left.
LEMMA StopKeepsParted ==
  ASSUME Typed, Parted, [Next]_vars, NEW w \in Workers, wk' = [wk EXCEPT ![w] = IdleWorker],
         UNCHANGED <<req, ticket, pushes, match, list>>
  PROVE  Parted'
<1>1. IdleWorker.at = "idle" /\ IdleWorker.read = {} /\ IdleWorker.group = {}
  BY DEF IdleWorker
<1>2. Apart({})
  BY DEF Apart
<1>. QED
  BY <1>1, <1>2, WorkerKeepsParted

\* FoundAsync changes no match's tickets: it goes through the match's players, or sets one, or is done.
LEMMA FoundGoesOn ==
  ASSUME TypeOK, NEW i \in DOMAIN match, FoundStep(i)
  PROVE  /\ DOMAIN match' = DOMAIN match /\ \A k \in DOMAIN match \ {i} : match'[k] = match[k]
         /\ match'[i].group = match[i].group
         /\ \/ \E p \in match[i].todo :
                 /\ match[i].at = "hash" /\ held' = [held EXCEPT ![p] = None] /\ UNCHANGED status
                 /\ match'[i].todo = match[i].todo \ {p}
                 /\ IF held[p] = None THEN match'[i].at = "hash" ELSE match'[i].at = "status" /\ match'[i].p = p
            \/ /\ match[i].at = "status" /\ match'[i].at = "hash" /\ match'[i].todo = match[i].todo
               /\ UNCHANGED held /\ status' = [status EXCEPT ![match[i].p] = "in_match"]
            \/ /\ match[i].at = "hash" /\ match[i].todo = {} /\ match'[i].at = "told" /\ match'[i].todo = {}
               /\ UNCHANGED <<held, status>>
<1>1. match[i] \in MatchType /\ DOMAIN match = 1 .. Len(match)
  BY MatchTyped
<1>2. CASE FoundHash(i)
  <2> PICK p \in match[i].todo :
         /\ held' = [held EXCEPT ![p] = None]
         /\ match' = [match EXCEPT ![i] = IF held[p] = None THEN [match[i] EXCEPT !.todo = match[i].todo \ {p}]
                                          ELSE [match[i] EXCEPT !.at = "status", !.p = p, !.todo = match[i].todo \ {p}]]
    BY <1>2 DEF FoundHash
  <2> DEFINE x == [match[i] EXCEPT !.todo = match[i].todo \ {p}]
             y == [match[i] EXCEPT !.at = "status", !.p = p, !.todo = match[i].todo \ {p}]
  <2>1. x.group = match[i].group /\ x.todo = match[i].todo \ {p} /\ x.at = match[i].at
    BY <1>1 DEF MatchType
  <2>2. y.group = match[i].group /\ y.todo = match[i].todo \ {p} /\ y.at = "status" /\ y.p = p
    BY <1>1 DEF MatchType
  <2>3. match' = [match EXCEPT ![i] = IF held[p] = None THEN x ELSE y]
    OBVIOUS
  <2> HIDE DEF x, y
  <2>4. /\ DOMAIN match' = DOMAIN match /\ \A k \in DOMAIN match \ {i} : match'[k] = match[k]
        /\ match'[i] = IF held[p] = None THEN x ELSE y
    BY <2>3
  <2>5. match[i].at = "hash" /\ UNCHANGED status
    BY <1>2 DEF FoundHash
  <2>. QED
    BY <2>1, <2>2, <2>4, <2>5
<1>3. CASE FoundStatus(i)
  <2>1. match'[i] = [match[i] EXCEPT !.at = "hash", !.p = None]
    BY <1>3 DEF FoundStatus
  <2>2. match'[i].at = "hash" /\ match'[i].group = match[i].group /\ match'[i].todo = match[i].todo
    BY <1>1, <2>1 DEF MatchType
  <2>. QED
    BY <1>3, <2>2 DEF FoundStatus
<1>4. CASE FoundTell(i)
  <2>1. match'[i] = [match[i] EXCEPT !.at = "told"]
    BY <1>4 DEF FoundTell
  <2>2. match'[i].at = "told" /\ match'[i].group = match[i].group /\ match'[i].todo = match[i].todo
    BY <1>1, <2>1 DEF MatchType
  <2>. QED
    BY <1>4, <2>2 DEF FoundTell
<1>. QED
  BY <1>2, <1>3, <1>4 DEF FoundStep

LEMMA FoundSameGroups ==
  ASSUME TypeOK, NEW i \in DOMAIN match, FoundStep(i)
  PROVE  DOMAIN match' = DOMAIN match /\ \A k \in DOMAIN match : match'[k].group = match[k].group
BY FoundGoesOn

\* The match a worker makes is of a group that shares no players.
LEMMA MakeKeepsParted == ASSUME Typed, Parted, [Next]_vars, NEW w \in Workers, Make(w) PROVE Parted'
<1> DEFINE g == wk[w].group
<1>1. wk'[w] = IdleWorker /\ \A v \in Workers \ {w} : wk'[v] = wk[v]
  BY DEF Make, Release, Typed, TypeOK
<1>2. IdleWorker.at = "idle" /\ IdleWorker.read = {} /\ IdleWorker.group = {}
  BY DEF IdleWorker
<1>3. UNCHANGED <<list, req, ticket, pushes>>
  BY DEF Make, queues
<1>4. /\ DOMAIN match' = 1 .. Len(match) + 1 /\ DOMAIN match = 1 .. Len(match) /\ Len(match) \in Nat
      /\ match'[Len(match) + 1].group = g /\ \A i \in DOMAIN match : match'[i] = match[i]
  BY DEF Make, Typed, TypeOK
<1>5. \A t \in g : Pushed(t)
  BY DEF Parted, ReadPushed
<1>6. Apart(g)
  BY DEF Parted, ReadApart
<1> HIDE DEF g
<1>7. \A t : Pushed(t)' <=> Pushed(t)
  BY <1>3 DEF Pushed
<1>8. Placed' /\ ListedPushed'
  BY <1>3, <1>7 DEF Parted, Placed, ListedPushed
<1>9. ReadPushed' /\ ReadApart'
  <2>1. ReadPushed'
    BY <1>1, <1>2, <1>7 DEF Parted, ReadPushed
  <2>2. ReadApart'
    BY <1>1, <1>2, <1>3 DEF Parted, ReadApart, Apart, PlayersOf
  <2>. QED
    BY <2>1, <2>2
<1>10. MatchedPushed'
  BY <1>4, <1>5, <1>7 DEF Parted, MatchedPushed
<1>11. NoPlayerTwice'
  BY <1>3, <1>4, <1>6 DEF Parted, NoPlayerTwice, Apart, PlayersOf
<1>. QED
  BY <1>8, <1>9, <1>10, <1>11 DEF Parted

\* Every step keeps Parted.
LEMMA PartedStep == ASSUME Typed, Parted, [Next]_vars PROVE Parted'
<1> USE DEF Typed, games, queues, bounds
<1>t. ticket \in [Requests -> TicketType] /\ req \in [Requests -> RequestType] /\ pushes \in Nat
  BY DEF TypeOK
<1>w. ASSUME NEW w \in Workers PROVE wk[w] \in WorkerType
  BY <1>w DEF TypeOK
<1>l. ASSUME NEW S, Leave(S) PROVE \A l \in Lists : list'[l] \subseteq list[l]
  BY <1>l, LeaveTyped DEF TypeOK
<1>r. ASSUME NEW w \in Workers
      PROVE  /\ \A t \in wk[w].read \cup wk[w].group : Pushed(t)
             /\ wk[w].at \in {"choose", "take", "make"} => Apart(wk[w].read)
             /\ Apart(wk[w].group)
  BY DEF Parted, ReadPushed, ReadApart
<1>k. ASSUME NEW w \in Workers, NEW x, wk' = [wk EXCEPT ![w] = x],
             UNCHANGED <<req, ticket, pushes, match>>, \A l \in Lists : list'[l] \subseteq list[l],
             x.read \subseteq wk[w].read, x.group = wk[w].group,
             x.at \in {"choose", "take", "make"} => Apart(x.read)
      PROVE  Parted'
  <2>1. \A t \in x.read \cup x.group : Pushed(t)
    BY <1>k, <1>r
  <2>2. Apart(x.group)
    BY <1>k, <1>r
  <2>. QED
    BY <1>k, <2>1, <2>2, WorkerKeepsParted
<1>1. ASSUME NEW r \in Requests, Ask(r) \/ Clear(r) \/ Queue(r) \/ Wipe(r) \/ Started(r) \/ Hold(r) \/ QueueFails(r)
      PROVE  Parted'
  <2>1. \A l \in Lists : list'[l] \subseteq list[l]
    BY <1>1, <1>l DEF Ask, Clear, Queue, Wipe, Started, Hold, QueueFails
  <2>2. UNCHANGED <<wk, match, pushes>>
    BY <1>1 DEF Ask, Clear, Queue, Wipe, Started, Hold, QueueFails
  <2>3. \A t \in Requests : ticket'[t].place = ticket[t].place
    <3>1. CASE Ask(r)
      <4>1. ticket[r].place = 0
        BY <1>t, <3>1 DEF Ask, Parted, Placed, TicketType
      <4>2. ticket'[r].place = 0
        BY <1>t, <3>1 DEF Ask, NoTicket
      <4>3. \A t \in Requests \ {r} : ticket'[t] = ticket[t]
        BY <1>t, <3>1 DEF Ask
      <4>. QED
        BY <4>1, <4>2, <4>3
    <3>2. CASE Queue(r)
      <4>1. ticket'[r] = [ticket[r] EXCEPT !.created = Seconds(now)] /\ \A t \in Requests \ {r} : ticket'[t] = ticket[t]
        BY <1>t, <3>2 DEF Queue
      <4>2. ticket'[r].place = ticket[r].place
        BY <1>t, <4>1 DEF TicketType
      <4>. QED
        BY <4>1, <4>2
    <3>3. CASE Clear(r) \/ Wipe(r) \/ Started(r) \/ Hold(r) \/ QueueFails(r)
      BY <3>3 DEF Clear, Wipe, Started, Hold, QueueFails
    <3>. QED
      BY <1>1, <3>1, <3>2, <3>3
  <2>4. Placed'
    BY <2>2, <2>3, TicketsKept DEF Parted, Placed
  <2>. QED
    BY <2>1, <2>2, <2>4, OthersKeepParted
<1>2. ASSUME NEW r \in Requests, Push(r) PROVE Parted'
  <2>1. /\ ticket'[r] = [ticket[r] EXCEPT !.place = pushes + 1] /\ \A t \in Requests \ {r} : ticket'[t] = ticket[t]
        /\ req'[r] = [req[r] EXCEPT !.at = "done"] /\ pushes' = pushes + 1 /\ UNCHANGED <<wk, match>>
        /\ \A l \in Lists : list'[l] \subseteq list[l] \cup {r}
    BY <1>2, <1>t DEF Push, TypeOK
  <2>2. ticket'[r].place = pushes + 1 /\ req'[r].at = "done"
    BY <1>t, <2>1 DEF TicketType, RequestType
  <2>3. Pushed(r)'
    BY <1>t, <2>2 DEF Pushed
  <2>4. \A t \in Requests : ticket[t].place \in Nat /\ ticket[t].place <= pushes
    BY <1>t DEF Parted, Placed, TicketType
  <2>5. Placed'
    <3> SUFFICES ASSUME NEW t \in Requests
                 PROVE  /\ ticket'[t].place <= pushes'
                        /\ ticket'[t].place > 0 =>
                             req'[t].at = "done" /\ \A u \in Requests \ {t} : ticket'[u].place # ticket'[t].place
      BY DEF Placed
    <3>0. pushes' \in Nat /\ pushes < pushes' /\ ticket'[r].place = pushes'
      BY <1>t, <2>1, <2>2
    <3>a. \A u \in Requests \ {r} : ticket'[u].place \in Nat /\ ticket'[u].place <= pushes
      BY <2>1, <2>4
    <3>b. \A u \in Requests \ {r} : ticket'[u].place # ticket'[r].place
      <4> SUFFICES ASSUME NEW u \in Requests \ {r}, ticket'[u].place = ticket'[r].place PROVE FALSE
        OBVIOUS
      <4>. QED
        BY <1>t, <3>0, <3>a
    <3>1. ticket'[t].place <= pushes'
      <4>1. CASE t = r
        BY <3>0, <4>1
      <4>2. CASE t # r
        BY <1>t, <3>0, <3>a, <4>2
      <4>. QED
        BY <4>1, <4>2
    <3>2. CASE t = r
      BY <2>2, <3>b, <3>1, <3>2
    <3>3. CASE t # r
      <4>1. ticket'[t] = ticket[t] /\ ticket[t].place # ticket'[r].place
        BY <2>1, <3>b, <3>3
      <4>2. ticket[t].place > 0 => req[t].at = "done" /\ \A u \in Requests \ {t} : ticket[u].place # ticket[t].place
        BY DEF Parted, Placed
      <4>. QED
        BY <2>1, <3>1, <4>1, <4>2, TicketsKept
    <3>. QED
      BY <3>2, <3>3
  <2>6. \A l \in Lists : \A t \in list'[l] : t \in list[l] \/ Pushed(t)'
    BY <2>1, <2>3
  <2>. QED
    BY <2>1, <2>5, <2>6, OthersKeepParted
<1>3. ASSUME UNCHANGED <<wk, req, ticket, pushes>>, \A l \in Lists : list'[l] \subseteq list[l],
             DOMAIN match' = DOMAIN match, \A i \in DOMAIN match : match'[i].group = match[i].group
      PROVE  Parted'
  <2>1. Placed'
    BY <1>3 DEF Parted, Placed
  <2>. QED
    BY <1>3, <2>1, OthersKeepParted
<1>4. ASSUME NEW j \in Jobs, CancelStep(j) PROVE Parted'
  <2>1. UNCHANGED <<wk, req, ticket, pushes, match>>
    BY <1>4 DEF CancelStep, CancelGet, CancelList, CancelHash, CancelTell, CancelEnds
  <2>2. \A l \in Lists : list'[l] \subseteq list[l]
    BY <1>4, <1>l DEF CancelStep, CancelGet, CancelList, CancelHash, CancelTell, CancelEnds
  <2>. QED
    BY <1>3, <2>1, <2>2
<1>5. ASSUME NEW p \in Players, GameCancels(p) \/ Disconnect(p) \/ Login(p) \/ Replace(p) \/ DropStep(p) PROVE Parted'
  <2>1. UNCHANGED <<wk, req, ticket, pushes, match>>
    BY <1>5 DEF GameCancels, Disconnect, Login, Replace, DropStep, DropGet, DropList, DropHash, DropIdle
  <2>2. \A l \in Lists : list'[l] \subseteq list[l]
    BY <1>5, <1>l DEF GameCancels, Disconnect, Login, Replace, DropStep, DropGet, DropList, DropHash, DropIdle
  <2>. QED
    BY <1>3, <2>1, <2>2
<1>6. ASSUME NEW w \in Workers, NEW l \in Lists, Acquire(w, l) PROVE Parted'
  <2> DEFINE x == [wk[w] EXCEPT !.at = "read", !.l = l]
  <2>1. wk' = [wk EXCEPT ![w] = x] /\ UNCHANGED <<req, ticket, pushes, match, list>>
    BY <1>6 DEF Acquire
  <2>2. x.at = "read" /\ x.read = wk[w].read /\ x.group = wk[w].group
    BY <1>w DEF WorkerType
  <2> HIDE DEF x
  <2>. QED
    BY <1>k, <2>1, <2>2
<1>7. ASSUME NEW w \in Workers, Release(w), UNCHANGED <<req, ticket, pushes, match, list>> PROVE Parted'
  BY <1>7, StopKeepsParted DEF Release
<1>8. ASSUME NEW w \in Workers, WorkerStep(w) PROVE Parted'
  <2>1. wk[w].at # "idle" /\ wk[w].l \in Lists
    BY <1>8 DEF WorkerStep, Read, ReadClosed, Closing, Closed, Clean, Choose, Take, Make, Named, WorkerNamed
  <2>2. list[wk[w].l] \subseteq Requests /\ \A t \in list[wk[w].l] : Pushed(t)
    BY <2>1 DEF Parted, ListedPushed, TypeOK
  <2>3. ASSUME NEW at \in {"clean", "closing"}, wk' = [wk EXCEPT ![w].at = at, ![w].read = list[wk[w].l]],
               UNCHANGED <<req, ticket, pushes, match>>, \A l \in Lists : list'[l] \subseteq list[l]
        PROVE  Parted'
    <3> DEFINE x == [wk[w] EXCEPT !.at = at, !.read = list[wk[w].l]]
    <3>1. x.at \notin {"choose", "take", "make"} /\ x.read = list[wk[w].l] /\ x.group = wk[w].group
      BY <1>w DEF WorkerType
    <3>2. wk' = [wk EXCEPT ![w] = x]
      BY <2>3
    <3> HIDE DEF x
    <3>3. (\A t \in x.read \cup x.group : Pushed(t)) /\ Apart(x.group)
      BY <1>r, <2>2, <3>1
    <3>. QED
      BY <2>3, <3>1, <3>2, <3>3, WorkerKeepsParted
  <2>4. CASE Read(w)
    <3>1. UNCHANGED <<req, ticket, pushes, match, list>>
      BY <2>4 DEF Read
    <3>2. Release(w) \/ wk' = [wk EXCEPT ![w].at = "clean", ![w].read = list[wk[w].l]]
      BY <2>4 DEF Read
    <3>. QED
      BY <1>7, <2>3, <3>1, <3>2
  <2>5. CASE ReadClosed(w)
    <3>1. wk' = [wk EXCEPT ![w].at = "closing", ![w].read = list[wk[w].l]] /\ UNCHANGED <<req, ticket, pushes, match>>
      BY <2>5 DEF ReadClosed
    <3>2. \A l \in Lists : list'[l] \subseteq list[l]
      BY <2>5, <1>l DEF ReadClosed
    <3>. QED
      BY <2>3, <3>1, <3>2
  <2>6. CASE Closing(w)
    <3> PICK t \in wk[w].read : wk' = [wk EXCEPT ![w] = [wk[w] EXCEPT !.read = wk[w].read \ {t}]]
      BY <2>6 DEF Closing
    <3> DEFINE x == [wk[w] EXCEPT !.read = wk[w].read \ {t}]
    <3>1. x.at = wk[w].at /\ x.read \subseteq wk[w].read /\ x.group = wk[w].group
      BY <1>w DEF WorkerType
    <3>2. wk[w].at = "closing" /\ UNCHANGED <<req, ticket, pushes, match, list>>
      BY <2>6 DEF Closing
    <3> HIDE DEF x
    <3>3. wk' = [wk EXCEPT ![w] = x]
      BY DEF x
    <3>. QED
      BY <1>k, <3>1, <3>2, <3>3
  <2>7. CASE Closed(w)
    BY <1>7, <2>7 DEF Closed
  <2>8. CASE Clean(w)
    <3> DEFINE kept == wk[w].read \ Stale(wk[w].read)
               left == kept \ Silent(kept)
               x == [wk[w] EXCEPT !.at = "choose", !.read = left]
    <3>1. left \subseteq kept /\ kept \subseteq wk[w].read
      OBVIOUS
    <3>2. Apart(kept)
      <4>1. wk[w].read \in SUBSET Requests /\ \A t \in wk[w].read : Pushed(t)
        BY <1>w, <1>r DEF WorkerType
      <4>. QED
        BY <4>1, FreshApart DEF Parted
    <3>3. Apart(left)
      BY <3>1, <3>2 DEF Apart
    <3>4. Leave(wk[w].read \ left) /\ wk' = [wk EXCEPT ![w] = x] /\ UNCHANGED <<req, ticket, pushes, match>>
      BY <2>8 DEF Clean
    <3> HIDE DEF left, kept
    <3>5. x.at = "choose" /\ x.read = left /\ x.group = wk[w].group
      BY <1>w DEF WorkerType
    <3> HIDE DEF x
    <3>6. \A l \in Lists : list'[l] \subseteq list[l]
      BY <3>4, <1>l
    <3>. QED
      BY <1>k, <3>1, <3>3, <3>4, <3>5, <3>6
  <2>9. CASE Choose(w)
    <3>1. UNCHANGED <<req, ticket, pushes, match, list>> /\ wk[w].at = "choose"
      BY <2>9 DEF Choose
    <3>2. CASE Release(w)
      BY <1>7, <3>1, <3>2
    <3>3. ASSUME NEW g \in SUBSET wk[w].read, wk' = [wk EXCEPT ![w] = [wk[w] EXCEPT !.at = "take", !.group = g]]
          PROVE  Parted'
      <4> DEFINE x == [wk[w] EXCEPT !.at = "take", !.group = g]
      <4>1. x.at = "take" /\ x.read = wk[w].read /\ x.group = g
        BY <1>w DEF WorkerType
      <4>2. Apart(x.read) /\ \A t \in x.read : Pushed(t)
        BY <1>r, <3>1, <4>1
      <4>3. wk' = [wk EXCEPT ![w] = x]
        BY <3>3
      <4> HIDE DEF x
      <4>4. Apart(x.group) /\ \A t \in x.read \cup x.group : Pushed(t)
        BY <4>1, <4>2 DEF Apart
      <4>. QED
        BY <3>1, <4>2, <4>3, <4>4, WorkerKeepsParted
    <3>. QED
      BY <2>9, <3>2, <3>3, ChooseFinds
  <2>10. CASE Take(w)
    <3> DEFINE x == [wk[w] EXCEPT !.at = "make"]
    <3>1. x.at = "make" /\ x.read = wk[w].read /\ x.group = wk[w].group
      BY <1>w DEF WorkerType
    <3>2. Leave(wk[w].group) /\ wk[w].at = "take" /\ wk' = [wk EXCEPT ![w] = x] /\ UNCHANGED <<req, ticket, pushes, match>>
      BY <2>10 DEF Take
    <3> HIDE DEF x
    <3>3. Apart(x.read)
      BY <1>r, <3>1, <3>2
    <3>4. \A l \in Lists : list'[l] \subseteq list[l]
      BY <3>2, <1>l
    <3>. QED
      BY <1>k, <3>1, <3>2, <3>3, <3>4
  <2>11. CASE Make(w)
    BY <2>11, MakeKeepsParted
  <2>. QED
    BY <1>8, <2>4, <2>5, <2>6, <2>7, <2>8, <2>9, <2>10, <2>11 DEF WorkerStep
<1>9. ASSUME NEW w \in Workers, NoPort(w) \/ Crash(w) PROVE Parted'
  BY <1>9, StopKeepsParted DEF NoPort, Crash, Release
<1>10. ASSUME NEW l \in Lists, Expire(l) PROVE Parted'
  BY <1>3, <1>10 DEF Expire
<1>11. ASSUME NEW i \in DOMAIN match, FoundStep(i) PROVE Parted'
  <2>1. UNCHANGED <<wk, req, ticket, pushes, list>>
    BY <1>11 DEF FoundStep, FoundHash, FoundStatus, FoundTell
  <2>2. DOMAIN match' = DOMAIN match /\ \A k \in DOMAIN match : match'[k].group = match[k].group
    BY <1>11, FoundSameGroups
  <2>. QED
    BY <1>3, <2>1, <2>2
<1>12. ASSUME Tick \/ CloseWindow \/ UNCHANGED vars PROVE Parted'
  <2>1. UNCHANGED <<wk, list, req, ticket, pushes, match>>
    BY <1>12 DEF Tick, CloseWindow, vars
  <2>. QED
    BY <1>3, <2>1
<1>. QED
  BY <1>1, <1>2, <1>4, <1>5, <1>6, <1>8, <1>9, <1>10, <1>11, <1>12 DEF Next, RequestStep

\* In the beginning nothing was pushed.
LEMMA InitParted == ASSUME Init PROVE Parted
<1>1. match = << >> /\ pushes = 0 /\ \A l \in Lists : list[l] = {}
  BY DEF Init
<1>2. \A w \in Workers : wk[w].at = "idle" /\ wk[w].read = {} /\ wk[w].group = {}
  BY DEF Init, IdleWorker
<1>3. \A t \in Requests : ticket[t].place = 0
  BY DEF Init, NoTicket
<1>4. Placed /\ ListedPushed /\ ReadPushed /\ MatchedPushed
  BY <1>1, <1>2, <1>3 DEF Placed, ListedPushed, ReadPushed, MatchedPushed
<1>5. ReadApart /\ NoPlayerTwice
  BY <1>1, <1>2 DEF ReadApart, NoPlayerTwice, Apart
<1>. QED
  BY <1>4, <1>5 DEF Parted

\* No player is in a match twice, whatever tickets share players, whoever cancels, and even where a lock runs out under its
\* worker: it rests on the duplicates having been dropped, and on nothing the lock is for.
THEOREM NoPlayerTwiceHolds == Spec => []NoPlayerTwice
<1>1. Init => Typed /\ Parted
  BY InitTyped, InitParted
<1>2. Typed /\ Parted /\ [Next]_vars => (Typed /\ Parted)'
  BY TypedStep, PartedStep
<1>3. Parted => NoPlayerTwice
  BY DEF Parted
<1>. QED
  BY <1>1, <1>2, <1>3, PTL DEF Spec

(* ------------------------------------------- The ticks of a match stop ----------------------------------------------- *)

\* What TicksStop rests on. A request goes through its own ticket's players; whoever holds a ticket is one of them; and
\* while a matched ticket is held by someone, its match's announcement has still to come to them.
AsksOwn ==
  \A r \in Requests :
    /\ req[r].at \in {"started", "hold"} => req[r].todo \subseteq PlayersOf(r)
    /\ req[r].at = "hold" => req[r].p \in PlayersOf(r)
HoldsOwn == \A p \in Players : held[p] # None => req[held[p]].at # "new" /\ p \in PlayersOf(held[p])
StillToStop ==
  \A i \in DOMAIN match :
    /\ \A p \in Players : held[p] \in match[i].group => p \in match[i].todo
    /\ match[i].at = "told" => match[i].todo = {}
Ticked == AsksOwn /\ HoldsOwn /\ StillToStop

\* Tickets that are only taken from players, or left with them, stay their own.
LEMMA HoldersLeft ==
  ASSUME Typed, HoldsOwn, [Next]_vars, \A p \in Players : held'[p] \in {held[p], None}
  PROVE  HoldsOwn'
<1> SUFFICES ASSUME NEW p \in Players, held'[p] # None
             PROVE  req'[held'[p]].at # "new" /\ p \in ticket'[held'[p]].all
  BY DEF HoldsOwn, PlayersOf
<1>1. held'[p] = held[p]
  OBVIOUS
<1>2. held[p] \in Requests
  BY <1>1 DEF Typed, TypeOK
<1>3. req[held[p]].at # "new" /\ p \in PlayersOf(held[p])
  BY <1>1 DEF HoldsOwn
<1>. QED
  BY <1>1, <1>2, <1>3, TicketsKept DEF PlayersOf

\* A step that gives no ticket to anyone, and announces and makes no match, need only look after its own request.
LEMMA NothingHeld ==
  ASSUME Typed, Ticked, [Next]_vars, AsksOwn', UNCHANGED match, \A p \in Players : held'[p] \in {held[p], None}
  PROVE  Ticked'
<1>1. HoldsOwn'
  BY HoldersLeft DEF Ticked
<1>2. \A i \in DOMAIN match : None \notin match[i].group
  BY MatchTyped, NoneAssumption DEF Typed, MatchType
<1>3. StillToStop'
  BY <1>2 DEF Ticked, StillToStop
<1>. QED
  BY <1>1, <1>3 DEF Ticked

\* The requests' part, when they stay as they are.
LEMMA AsksLeft == ASSUME Typed, AsksOwn, [Next]_vars, UNCHANGED req PROVE AsksOwn'
<1>1. \A r \in Requests : req[r].at \in {"started", "hold"} => ticket'[r].all = ticket[r].all
  BY TicketsKept
<1>. QED
  BY <1>1 DEF AsksOwn, PlayersOf

\* What a match's players hold when it is made is told to stop before anything else.
LEMMA MakeKeepsTicked == ASSUME Typed, Parted, Ticked, [Next]_vars, NEW w \in Workers, Make(w) PROVE Ticked'
<1> DEFINE g == wk[w].group
<1>1. UNCHANGED <<req, ticket, held>>
  BY DEF Make, queues
<1>2. AsksOwn' /\ HoldsOwn'
  BY <1>1, AsksLeft, HoldersLeft DEF Ticked
<1>3. /\ DOMAIN match' = 1 .. Len(match) + 1 /\ DOMAIN match = 1 .. Len(match) /\ Len(match) \in Nat
      /\ match'[Len(match) + 1].group = g /\ match'[Len(match) + 1].todo = GroupPlayers(g)
      /\ match'[Len(match) + 1].at = "hash" /\ \A i \in DOMAIN match : match'[i] = match[i]
  BY DEF Make, Typed, TypeOK
<1>4. g \subseteq Requests
  BY DEF Typed, TypeOK, WorkerType
<1>5. \A p \in Players : held[p] \in g => p \in GroupPlayers(g)
  BY <1>4, NoneAssumption DEF Ticked, HoldsOwn, GroupPlayers
<1> HIDE DEF g
<1>6. StillToStop'
  <2> SUFFICES ASSUME NEW i \in DOMAIN match'
               PROVE  /\ \A p \in Players : held'[p] \in match'[i].group => p \in match'[i].todo
                      /\ match'[i].at = "told" => match'[i].todo = {}
    BY DEF StillToStop
  <2>1. CASE i = Len(match) + 1
    BY <1>1, <1>3, <1>5, <2>1
  <2>2. CASE i \in DOMAIN match
    BY <1>1, <1>3, <2>2 DEF Ticked, StillToStop
  <2>. QED
    BY <1>3, <2>1, <2>2
<1>. QED
  BY <1>2, <1>6 DEF Ticked

\* FoundAsync crosses off only players whose tick it stopped, and is done when it has gone through them all.
LEMMA FoundKeepsTicked ==
  ASSUME Typed, Ticked, [Next]_vars, NEW i \in DOMAIN match, FoundStep(i)
  PROVE  Ticked'
<1>1. UNCHANGED <<req, ticket>>
  BY DEF FoundStep, FoundHash, FoundStatus, FoundTell, queues
<1>g. /\ DOMAIN match' = DOMAIN match /\ \A k \in DOMAIN match \ {i} : match'[k] = match[k]
      /\ match'[i].group = match[i].group
  BY FoundGoesOn DEF Typed
<1>2. AsksOwn'
  BY <1>1, AsksLeft DEF Ticked
<1>3. \A k \in DOMAIN match : None \notin match[k].group
  BY MatchTyped, NoneAssumption DEF Typed, MatchType
<1>f. held \in [Players -> Requests \cup {None}]
  BY DEF Typed, TypeOK
<1>4. \A p \in Players : held'[p] \in {held[p], None}
  <2>1. UNCHANGED held \/ \E p : held' = [held EXCEPT ![p] = None]
    BY DEF FoundStep, FoundHash, FoundStatus, FoundTell
  <2>. QED
    BY <1>f, <2>1
<1>5. HoldsOwn'
  BY <1>4, HoldersLeft DEF Ticked
<1>6. ASSUME NEW k \in DOMAIN match'
      PROVE  /\ \A p \in Players : held'[p] \in match'[k].group => p \in match'[k].todo
             /\ match'[k].at = "told" => match'[k].todo = {}
  <2>0. k \in DOMAIN match /\ (\A p \in Players : held[p] \in match[k].group => p \in match[k].todo)
                         /\ (match[k].at = "told" => match[k].todo = {})
    BY <1>g DEF Ticked, StillToStop
  <2>1. CASE k # i
    BY <1>3, <1>4, <1>g, <2>0, <2>1
  <2>2. CASE k = i
    <3>1. ASSUME NEW p \in match[i].todo, match[i].at = "hash", held' = [held EXCEPT ![p] = None],
                 match'[i].todo = match[i].todo \ {p}, match'[i].at # "told"
          PROVE  /\ \A q \in Players : held'[q] \in match'[i].group => q \in match'[i].todo
                 /\ match'[i].at = "told" => match'[i].todo = {}
      <4> SUFFICES ASSUME NEW q \in Players, held'[q] \in match[i].group PROVE q \in match[i].todo \ {p}
        BY <1>g, <3>1
      <4>1. q # p
        BY <1>f, <1>3, <3>1
      <4>. QED
        BY <1>f, <2>0, <2>2, <3>1, <4>1
    <3>2. CASE UNCHANGED held /\ match'[i].todo = match[i].todo /\ match'[i].at = "hash"
      BY <1>g, <2>0, <2>2, <3>2
    <3>3. CASE UNCHANGED held /\ match[i].todo = {} /\ match'[i].todo = {}
      BY <1>g, <2>0, <2>2, <3>3
    <3>4. \/ \E p \in match[i].todo :
                /\ match[i].at = "hash" /\ held' = [held EXCEPT ![p] = None] /\ match'[i].todo = match[i].todo \ {p}
                /\ match'[i].at # "told"
          \/ UNCHANGED held /\ match'[i].todo = match[i].todo /\ match'[i].at = "hash"
          \/ UNCHANGED held /\ match[i].todo = {} /\ match'[i].todo = {}
      BY FoundGoesOn DEF Typed
    <3>. QED
      BY <2>2, <3>1, <3>2, <3>3, <3>4
  <2>. QED
    BY <2>1, <2>2
<1>. QED
  BY <1>2, <1>5, <1>6 DEF Ticked, StillToStop

\* A request goes on with its own ticket's players.
LEMMA RequestKeepsAsks ==
  ASSUME Typed, AsksOwn, [Next]_vars, NEW r \in Requests,
         Ask(r) \/ Clear(r) \/ Queue(r) \/ Wipe(r) \/ Started(r) \/ Hold(r) \/ Push(r) \/ QueueFails(r)
  PROVE  AsksOwn'
<1> USE DEF queues
<1>1. req[r] \in RequestType /\ req \in [Requests -> RequestType]
  BY DEF Typed, TypeOK
<1>2. \A q \in Requests \ {r} : req'[q] = req[q]
  BY <1>1 DEF Ask, Clear, Queue, Wipe, Started, Hold, Push, QueueFails
<1>3. \A q \in Requests : req[q].at # "new" => ticket'[q].all = ticket[q].all
  BY TicketsKept
<1>4. ASSUME NEW q \in Requests \ {r}
      PROVE  /\ req'[q].at \in {"started", "hold"} => req'[q].todo \subseteq ticket'[q].all
             /\ req'[q].at = "hold" => req'[q].p \in ticket'[q].all
  BY <1>2, <1>3 DEF AsksOwn, PlayersOf
<1>5. /\ req'[r].at \in {"started", "hold"} => req'[r].todo \subseteq ticket'[r].all
      /\ req'[r].at = "hold" => req'[r].p \in ticket'[r].all
  <2>1. CASE Ask(r) \/ Clear(r) \/ Queue(r) \/ Push(r) \/ QueueFails(r)
    <3>1. CASE Ask(r)
      <4>1. \E S : req' = [req EXCEPT ![r] = [req[r] EXCEPT !.at = "clear", !.stale = S]]
        BY <3>1 DEF Ask
      <4>2. req'[r].at = "clear"
        BY <1>1, <4>1 DEF RequestType
      <4>. QED
        BY <4>2
    <3>2. CASE Clear(r)
      BY <1>1, <3>2 DEF Clear, RequestType
    <3>3. CASE Queue(r)
      BY <1>1, <3>3 DEF Queue, RequestType
    <3>4. CASE Push(r)
      BY <1>1, <3>4 DEF Push, RequestType
    <3>5. CASE QueueFails(r)
      BY <1>1, <3>5 DEF QueueFails, NewRequest
    <3>. QED
      BY <2>1, <3>1, <3>2, <3>3, <3>4, <3>5
  <2>2. CASE Wipe(r)
    <3>1. req'[r] = [req[r] EXCEPT !.at = "started", !.stale = {}, !.todo = PlayersOf(r)]
      BY <1>1, <2>2 DEF Wipe
    <3>2. req'[r].at = "started" /\ req'[r].todo = PlayersOf(r)
      BY <1>1, <3>1 DEF RequestType
    <3>. QED
      BY <2>2, <3>2 DEF Wipe, PlayersOf
  <2>3. CASE Started(r)
    <3> PICK p \in req[r].todo :
           \/ req'[r] = [req[r] EXCEPT !.at = "hold", !.p = p, !.todo = req[r].todo \ {p}]
           \/ req'[r] = [req[r] EXCEPT !.todo = req[r].todo \ {p}]
      BY <1>1, <2>3 DEF Started
    <3>1. req'[r].todo = req[r].todo \ {p} /\ (req'[r].p = p \/ req'[r].at = "started")
      BY <1>1, <2>3 DEF Started, RequestType
    <3>2. req[r].todo \subseteq ticket[r].all /\ ticket'[r].all = ticket[r].all
      BY <2>3 DEF Started, AsksOwn, PlayersOf
    <3>. QED
      BY <3>1, <3>2
  <2>4. CASE Hold(r)
    <3>1. req'[r] = [req[r] EXCEPT !.at = "started", !.p = None]
      BY <1>1, <2>4 DEF Hold
    <3>2. req'[r].at = "started" /\ req'[r].todo = req[r].todo
      BY <1>1, <3>1 DEF RequestType
    <3>3. req[r].todo \subseteq ticket[r].all /\ ticket'[r].all = ticket[r].all
      BY <2>4 DEF Hold, AsksOwn, PlayersOf
    <3>. QED
      BY <3>2, <3>3
  <2>. QED
    BY <2>1, <2>2, <2>3, <2>4
<1>. QED
  BY <1>4, <1>5 DEF AsksOwn, PlayersOf

\* Every step keeps Ticked.
LEMMA TickedStep == ASSUME Typed, Parted, Ticked, [Next]_vars PROVE Ticked'
<1> USE DEF games, queues, bounds
<1>f. held \in [Players -> Requests \cup {None}]
  BY DEF Typed, TypeOK
<1>k. ASSUME UNCHANGED <<req, match>>, UNCHANGED held \/ \E p : held' = [held EXCEPT ![p] = None] PROVE Ticked'
  <2>1. \A p \in Players : held'[p] \in {held[p], None}
    BY <1>f, <1>k
  <2>2. AsksOwn'
    BY <1>k, AsksLeft DEF Ticked
  <2>. QED
    BY <1>k, <2>1, <2>2, NothingHeld
<1>1. ASSUME NEW r \in Requests, Ask(r) \/ Clear(r) \/ Queue(r) \/ Wipe(r) \/ Started(r) \/ Push(r) \/ QueueFails(r)
      PROVE  Ticked'
  <2>1. AsksOwn'
    BY <1>1, RequestKeepsAsks DEF Ticked
  <2>2. UNCHANGED <<held, match>>
    BY <1>1 DEF Ask, Clear, Queue, Wipe, Started, Push, QueueFails
  <2>. QED
    BY <2>1, <2>2, NothingHeld
<1>2. ASSUME NEW r \in Requests, Hold(r) PROVE Ticked'
  <2>1. AsksOwn'
    BY <1>2, RequestKeepsAsks DEF Ticked
  <2>2. held' = [held EXCEPT ![req[r].p] = r] /\ UNCHANGED <<match, ticket>> /\ req[r].at = "hold"
    BY <1>2 DEF Hold
  <2>3. req[r].p \in PlayersOf(r) /\ req'[r].at # "new"
    BY <2>2, TicketsKept DEF Ticked, AsksOwn
  <2>4. \A p \in Players : held'[p] = IF p = req[r].p THEN r ELSE held[p]
    BY <1>f, <2>2
  <2>5. HoldsOwn'
    <3> SUFFICES ASSUME NEW p \in Players, held'[p] # None
                 PROVE  req'[held'[p]].at # "new" /\ p \in ticket'[held'[p]].all
      BY DEF HoldsOwn, PlayersOf
    <3>1. CASE p = req[r].p
      BY <2>2, <2>3, <2>4, <3>1 DEF PlayersOf
    <3>2. CASE p # req[r].p
      <4>1. held'[p] = held[p] /\ held[p] \in Requests
        BY <1>f, <2>4, <3>2
      <4>2. req[held[p]].at # "new" /\ p \in ticket[held[p]].all
        BY <4>1 DEF Ticked, HoldsOwn, PlayersOf
      <4>. QED
        BY <4>1, <4>2, TicketsKept
    <3>. QED
      BY <3>1, <3>2
  <2>6. \A i \in DOMAIN match : r \notin match[i].group
    BY <2>2 DEF Parted, MatchedPushed, Pushed
  <2>7. StillToStop'
    BY <2>2, <2>4, <2>6 DEF Ticked, StillToStop
  <2>. QED
    BY <2>1, <2>5, <2>7 DEF Ticked
<1>3. ASSUME NEW j \in Jobs, CancelStep(j) PROVE Ticked'
  BY <1>k, <1>3 DEF CancelStep, CancelGet, CancelList, CancelHash, CancelTell, CancelEnds
<1>4. ASSUME NEW p \in Players, GameCancels(p) \/ Disconnect(p) \/ Login(p) \/ Replace(p) \/ DropStep(p) PROVE Ticked'
  BY <1>k, <1>4 DEF GameCancels, Disconnect, Login, Replace, DropStep, DropGet, DropList, DropHash, DropIdle
<1>5. ASSUME NEW w \in Workers, NEW l \in Lists, Acquire(w, l) PROVE Ticked'
  BY <1>k, <1>5 DEF Acquire
<1>6. ASSUME NEW w \in Workers, WorkerStep(w) \/ NoPort(w) \/ Crash(w) PROVE Ticked'
  <2>1. CASE Make(w)
    BY <2>1, MakeKeepsTicked
  <2>2. CASE ~Make(w)
    BY <1>k, <1>6, <2>2 DEF WorkerStep, Read, ReadClosed, Closing, Closed, Clean, Choose, Take, NoPort, Crash
  <2>. QED
    BY <2>1, <2>2
<1>7. ASSUME NEW l \in Lists, Expire(l) PROVE Ticked'
  BY <1>k, <1>7 DEF Expire
<1>8. ASSUME NEW i \in DOMAIN match, FoundStep(i) PROVE Ticked'
  BY <1>8, FoundKeepsTicked
<1>9. ASSUME Tick \/ CloseWindow \/ UNCHANGED vars PROVE Ticked'
  BY <1>k, <1>9 DEF Tick, CloseWindow, vars
<1>. QED
  BY <1>1, <1>2, <1>3, <1>4, <1>5, <1>6, <1>7, <1>8, <1>9 DEF Next, RequestStep

\* Once a match is announced nobody is ticked for a ticket that led to it, whoever cancels or goes away meanwhile and however
\* many matches are announced at once: a ticket that can be matched is done being given to its players.
THEOREM TicksStopHolds == Spec => []TicksStop
<1>1. Init => Typed /\ Parted /\ Ticked
  <2> SUFFICES ASSUME Init PROVE Typed /\ Parted /\ Ticked
    OBVIOUS
  <2>1. match = << >> /\ (\A p \in Players : held[p] = None) /\ \A r \in Requests : req[r].at = "new"
    BY DEF Init, NewRequest
  <2>2. Ticked
    BY <2>1 DEF Ticked, AsksOwn, HoldsOwn, StillToStop
  <2>. QED
    BY <2>2, InitTyped, InitParted
<1>2. Typed /\ Parted /\ Ticked /\ [Next]_vars => (Typed /\ Parted /\ Ticked)'
  BY TypedStep, PartedStep, TickedStep
<1>3. Ticked => TicksStop
  BY DEF Ticked, StillToStop, TicksStop
<1>. QED
  BY <1>1, <1>2, <1>3, PTL DEF Spec

(* ------------------------------------ Who is shown as queued is being ticked ----------------------------------------- *)

\* Someone is about to give p a ticket, or to set p idle or in_match.
Due(p) ==
  \/ \E r \in Requests : req[r].at = "hold" /\ req[r].p = p
  \/ \E j \in Jobs : job[j].at = "tell" /\ job[j].p = p
  \/ job[<<"gone", p>>].at = "idle"
  \/ \E i \in DOMAIN match : match[i].at = "status" /\ match[i].p = p

\* Only FFA is closed, and only a worker that closes it cancels.
ClosedFFA ==
  \A w \in Workers : /\ wk[w].at = "closing" => wk[w].l = "FFA"
                     /\ job[<<"closed", w>>].at # "none" => "FFA" \in Lists

\* A step keeps StatusHeld if whoever was about to write a status still is, but for one player e that the step sees to.
LEMMA StatusGoesOn ==
  ASSUME Typed, StatusHeld, NEW e,
         \A r \in Requests : req[r].at = "hold" /\ req[r].p # e => req'[r] = req[r],
         \A j \in Jobs : job[j].at = "tell" /\ job[j].p # e => job'[j] = job[j],
         \A p \in Players \ {e} : job[<<"gone", p>>].at = "idle" => job'[<<"gone", p>>].at = "idle",
         \A i \in DOMAIN match : match[i].at = "status" /\ match[i].p # e => i \in DOMAIN match' /\ match'[i] = match[i],
         \A p \in Players : status'[p] = "queued" /\ held'[p] = None =>
                              Due(p)' \/ (p # e /\ status[p] = "queued" /\ held[p] = None)
  PROVE  StatusHeld'
<1> SUFFICES ASSUME NEW p \in Players, status'[p] = "queued", held'[p] = None PROVE Due(p)'
  BY DEF StatusHeld, Due
<1>1. CASE p # e /\ status[p] = "queued" /\ held[p] = None
  <2>1. CASE \E r \in Requests : req[r].at = "hold" /\ req[r].p = p
    BY <1>1, <2>1 DEF Due
  <2>2. CASE \E j \in Jobs : job[j].at = "tell" /\ job[j].p = p
    BY <1>1, <2>2 DEF Due
  <2>3. CASE job[<<"gone", p>>].at = "idle"
    BY <1>1, <2>3 DEF Due
  <2>4. CASE \E i \in DOMAIN match : match[i].at = "status" /\ match[i].p = p
    BY <1>1, <2>4 DEF Due
  <2>. QED
    BY <1>1, <2>1, <2>2, <2>3, <2>4 DEF StatusHeld
<1>. QED
  BY <1>1

\* ... or for nobody.
LEMMA StatusLeft ==
  ASSUME Typed, StatusHeld,
         \A r \in Requests : req[r].at = "hold" => req'[r] = req[r],
         \A j \in Jobs : job[j].at \in {"tell", "idle"} => job'[j] = job[j],
         \A i \in DOMAIN match : match[i].at = "status" => i \in DOMAIN match' /\ match'[i] = match[i],
         \A p \in Players : status'[p] = "queued" /\ held'[p] = None => Due(p)' \/ (status[p] = "queued" /\ held[p] = None)
  PROVE  StatusHeld'
<1>1. \A r \in Requests : req[r].at = "hold" /\ req[r].p # None => req'[r] = req[r]
  OBVIOUS
<1>2. \A j \in Jobs : job[j].at = "tell" /\ job[j].p # None => job'[j] = job[j]
  OBVIOUS
<1>3. \A p \in Players \ {None} : job[<<"gone", p>>].at = "idle" => job'[<<"gone", p>>].at = "idle"
  BY JobsNamed
<1>4. \A i \in DOMAIN match : match[i].at = "status" /\ match[i].p # None => i \in DOMAIN match' /\ match'[i] = match[i]
  OBVIOUS
<1>5. \A p \in Players : status'[p] = "queued" /\ held'[p] = None => Due(p)' \/ (p # None /\ status[p] = "queued" /\ held[p] = None)
  BY NoneAssumption
<1>. QED
  BY <1>1, <1>2, <1>3, <1>4, <1>5, StatusGoesOn

\* A request gives the ticket before it goes on, once it has set a player queued.
LEMMA RequestKeepsStatus ==
  ASSUME Typed, StatusHeld, NEW r \in Requests,
         Ask(r) \/ Clear(r) \/ Queue(r) \/ Wipe(r) \/ Started(r) \/ Hold(r) \/ Push(r)
  PROVE  StatusHeld'
<1>1. req \in [Requests -> RequestType] /\ req[r] \in RequestType /\ status \in [Players -> {"idle", "queued", "in_match"}]
      /\ held \in [Players -> Requests \cup {None}]
  BY DEF Typed, TypeOK
<1>2. UNCHANGED <<job, match>>
  BY DEF Ask, Clear, Queue, Wipe, Started, Hold, Push
<1>3. CASE Ask(r) \/ Clear(r) \/ Queue(r) \/ Wipe(r) \/ Push(r)
  <2>1. req[r].at # "hold" /\ (\A q \in Requests \ {r} : req'[q] = req[q]) /\ UNCHANGED <<status, held>>
    BY <1>1, <1>3 DEF Ask, Clear, Queue, Wipe, Push
  <2>. QED
    BY <1>2, <2>1, StatusLeft
<1>4. CASE Started(r)
  <2> PICK p \in req[r].todo :
         IF conn[p] THEN /\ status' = [status EXCEPT ![p] = "queued"]
                         /\ req' = [req EXCEPT ![r] = [req[r] EXCEPT !.at = "hold", !.p = p, !.todo = req[r].todo \ {p}]]
                    ELSE /\ status' = status
                         /\ req' = [req EXCEPT ![r] = [req[r] EXCEPT !.todo = req[r].todo \ {p}]]
    BY <1>4 DEF Started
  <2>1. req[r].at = "started" /\ UNCHANGED held
    BY <1>4 DEF Started
  <2>2. (\A q \in Requests \ {r} : req'[q] = req[q]) /\ \A q \in Players \ {p} : status'[q] = status[q]
    BY <1>1
  <2>3. ASSUME conn[p] PROVE Due(p)'
    <3>1. req'[r] = [req[r] EXCEPT !.at = "hold", !.p = p, !.todo = req[r].todo \ {p}]
      BY <1>1, <2>3
    <3>2. req'[r].at = "hold" /\ req'[r].p = p
      BY <1>1, <3>1 DEF RequestType
    <3>. QED
      BY <3>2 DEF Due
  <2>4. \A q \in Players : status'[q] = "queued" /\ held'[q] = None =>
                             Due(q)' \/ (status[q] = "queued" /\ held[q] = None)
    <3> TAKE q \in Players
    <3>1. CASE q = p /\ conn[p]
      BY <2>3, <3>1
    <3>2. CASE ~(q = p /\ conn[p])
      BY <2>1, <2>2, <3>2
    <3>. QED
      BY <3>1, <3>2
  <2>5. \A q \in Requests : req[q].at = "hold" => req'[q] = req[q]
    BY <2>1, <2>2
  <2>. QED
    BY <1>2, <2>4, <2>5, StatusLeft
<1>5. CASE Hold(r)
  <2> DEFINE e == req[r].p
  <2>1. held' = [held EXCEPT ![e] = r] /\ UNCHANGED status /\ \A q \in Requests \ {r} : req'[q] = req[q]
    BY <1>1, <1>5 DEF Hold
  <2>2. \A q \in Players : held'[q] = None => q # e /\ held[q] = None
    BY <1>1, <2>1, NoneAssumption
  <2>3. \A q \in Requests : req[q].at = "hold" /\ req[q].p # e => req'[q] = req[q]
    BY <2>1
  <2> HIDE DEF e
  <2>. QED
    BY <1>2, <2>1, <2>2, <2>3, StatusGoesOn
<1>. QED
  BY <1>3, <1>4, <1>5

\* A cancel sets a player idle after it took their ticket.
LEMMA CancelKeepsStatus == ASSUME Typed, StatusHeld, NEW j \in Jobs, CancelStep(j) PROVE StatusHeld'
<1>1. job \in [Jobs -> JobType] /\ job[j] \in JobType /\ held \in [Players -> Requests \cup {None}]
      /\ status \in [Players -> {"idle", "queued", "in_match"}]
  BY DEF Typed, TypeOK
<1>2. UNCHANGED <<req, match>> /\ \A k \in Jobs \ {j} : job'[k] = job[k]
  <2>1. UNCHANGED <<req, match>>
    BY DEF CancelStep, CancelGet, CancelList, CancelHash, CancelTell, CancelEnds
  <2>2. \E x : job' = [job EXCEPT ![j] = x]
    BY DEF CancelStep, CancelGet, CancelList, CancelHash, CancelTell, CancelEnds
  <2>. QED
    BY <1>1, <2>1, <2>2
<1>g. \A p \in Players : <<"gone", p>> \in Jobs
  BY JobsNamed
<1>3. CASE CancelGet(j) \/ CancelList(j) \/ CancelEnds(j)
  <2>1. job[j].at \notin {"tell", "idle"} /\ UNCHANGED <<status, held>>
    BY <1>3 DEF CancelGet, CancelList, CancelEnds
  <2>2. \A k \in Jobs : job[k].at \in {"tell", "idle"} => job'[k] = job[k]
    BY <1>2, <2>1
  <2>3. \A p \in Players : status'[p] = "queued" /\ held'[p] = None => status[p] = "queued" /\ held[p] = None
    BY <2>1
  <2>. QED
    BY <1>2, <2>2, <2>3, StatusLeft
<1>4. CASE CancelHash(j)
  <2>1. job'[j] = [job[j] EXCEPT !.at = "tell"]
    BY <1>1, <1>4 DEF CancelHash
  <2>2. job[j].at = "hash" /\ job'[j].at = "tell" /\ job'[j].p = job[j].p /\ UNCHANGED status
    BY <1>1, <1>4, <2>1 DEF CancelHash, JobType
  <2>3. \A p \in Players \ {job[j].p} : held'[p] = held[p]
    BY <1>1, <1>4 DEF CancelHash
  <2>4. Due(job[j].p)'
    BY <1>2, <2>2 DEF Due
  <2>5. \A k \in Jobs : job[k].at \in {"tell", "idle"} => job'[k] = job[k]
    BY <1>2, <2>2
  <2>6. \A p \in Players : status'[p] = "queued" /\ held'[p] = None =>
                             Due(p)' \/ (status[p] = "queued" /\ held[p] = None)
    <3> TAKE p \in Players
    <3>1. CASE p = job[j].p
      <4>1. job'[j].at = "tell" /\ job'[j].p = p
        BY <2>2, <3>1
      <4>. QED
        BY <4>1 DEF Due
    <3>2. CASE p # job[j].p
      BY <2>2, <2>3, <3>2
    <3>. QED
      BY <3>1, <3>2
  <2>. QED
    BY <1>2, <2>5, <2>6, StatusLeft
<1>5. CASE CancelTell(j)
  <2> DEFINE e == job[j].p
  <2>1. job[j].at = "tell" /\ status' = [status EXCEPT ![e] = "idle"] /\ UNCHANGED held
    BY <1>5 DEF CancelTell
  <2>2. \A p \in Players : status'[p] = "queued" /\ held'[p] = None => p # e /\ status[p] = "queued" /\ held[p] = None
    BY <1>1, <2>1
  <2>3. \A k \in Jobs : job[k].at = "tell" /\ job[k].p # e => job'[k] = job[k]
    BY <1>2
  <2>4. \A p \in Players : job[<<"gone", p>>].at = "idle" => job'[<<"gone", p>>].at = "idle"
    BY <1>2, <1>g, <2>1
  <2> HIDE DEF e
  <2>. QED
    BY <1>2, <2>2, <2>3, <2>4, StatusGoesOn
<1>. QED
  BY <1>3, <1>4, <1>5 DEF CancelStep

\* So does a drop; the others' events change no status.
LEMMA PlayerKeepsStatus ==
  ASSUME Typed, StatusHeld, NEW p \in Players, GameCancels(p) \/ Disconnect(p) \/ Login(p) \/ Replace(p) \/ DropStep(p)
  PROVE  StatusHeld'
<1>1. job \in [Jobs -> JobType] /\ held \in [Players -> Requests \cup {None}]
      /\ status \in [Players -> {"idle", "queued", "in_match"}]
  BY DEF Typed, TypeOK
<1>2. UNCHANGED <<req, match>>
  BY DEF GameCancels, Disconnect, Login, Replace, DropStep, DropGet, DropList, DropHash, DropIdle
<1>g. <<"game", p>> \in Jobs /\ \A q \in Players : <<"gone", q>> \in Jobs
  BY JobsNamed
<1>k. ASSUME NEW j \in Jobs, NEW x, job[j].at \notin {"tell", "idle"}, job' = [job EXCEPT ![j] = x], UNCHANGED <<status, held>>
      PROVE  StatusHeld'
  <2>1. \A k \in Jobs : job[k].at \in {"tell", "idle"} => job'[k] = job[k]
    BY <1>1, <1>k
  <2>2. \A q \in Players : status'[q] = "queued" /\ held'[q] = None => status[q] = "queued" /\ held[q] = None
    BY <1>k
  <2>. QED
    BY <1>2, <2>1, <2>2, StatusLeft
<1>s. ASSUME UNCHANGED <<status, held, job>> PROVE StatusHeld'
  BY <1>2, <1>s DEF StatusHeld
<1>3. CASE GameCancels(p)
  <2>1. job[<<"game", p>>].at = "none" /\ (\E x : job' = [job EXCEPT ![<<"game", p>>] = x]) /\ UNCHANGED <<status, held>>
    BY <1>3 DEF GameCancels
  <2>. QED
    BY <1>k, <1>g, <2>1
<1>4. CASE Disconnect(p) \/ Login(p) \/ Replace(p)
  BY <1>4, <1>s DEF Disconnect, Login, Replace
<1>5. CASE DropGet(p)
  <2>1. job[<<"gone", p>>].at = "none" /\ UNCHANGED <<status, held>>
        /\ (UNCHANGED job \/ \E x : job' = [job EXCEPT ![<<"gone", p>>] = x])
    BY <1>5 DEF DropGet
  <2>. QED
    BY <1>k, <1>s, <1>g, <2>1
<1>6. CASE DropList(p)
  <2>1. job[<<"gone", p>>].at = "drop" /\ (\E x : job' = [job EXCEPT ![<<"gone", p>>] = x]) /\ UNCHANGED <<status, held>>
    BY <1>6 DEF DropList
  <2>. QED
    BY <1>k, <1>g, <2>1
<1>7. CASE DropHash(p)
  <2> DEFINE j == <<"gone", p>>
  <2>1. job[j].at = "unhold" /\ job' = [job EXCEPT ![j].at = "idle"] /\ UNCHANGED status
        /\ held' = [held EXCEPT ![p] = None]
    BY <1>7 DEF DropHash
  <2>2. j \in Jobs /\ job[j] \in JobType
    BY <1>1, <1>g
  <2>3. job'[j].at = "idle" /\ \A k \in Jobs \ {j} : job'[k] = job[k]
    <3>1. job'[j] = [job[j] EXCEPT !.at = "idle"] /\ \A k \in Jobs \ {j} : job'[k] = job[k]
      BY <1>1, <2>1, <2>2
    <3>. QED
      BY <2>2, <3>1 DEF JobType
  <2>4. Due(p)'
    BY <2>3 DEF Due
  <2>5. \A k \in Jobs : job[k].at \in {"tell", "idle"} => job'[k] = job[k]
    BY <2>1, <2>3
  <2>6. \A q \in Players \ {p} : held'[q] = held[q]
    BY <1>1, <2>1
  <2> HIDE DEF j
  <2>7. \A q \in Players : status'[q] = "queued" /\ held'[q] = None =>
                             Due(q)' \/ (status[q] = "queued" /\ held[q] = None)
    <3> TAKE q \in Players
    <3>1. CASE q = p
      BY <2>4, <3>1
    <3>2. CASE q # p
      BY <2>1, <2>6, <3>2
    <3>. QED
      BY <3>1, <3>2
  <2>. QED
    BY <1>2, <2>5, <2>7, StatusLeft
<1>8. CASE DropIdle(p)
  <2> DEFINE j == <<"gone", p>>
  <2>1. job[j].at = "idle" /\ status' = [status EXCEPT ![p] = "idle"] /\ UNCHANGED held /\ \E x : job' = [job EXCEPT ![j] = x]
    BY <1>8 DEF DropIdle
  <2>2. j \in Jobs /\ \A k \in Jobs \ {j} : job'[k] = job[k]
    BY <1>1, <1>g, <2>1
  <2>3. \A q \in Players : status'[q] = "queued" /\ held'[q] = None => q # p /\ status[q] = "queued" /\ held[q] = None
    BY <1>1, <2>1
  <2>4. \A k \in Jobs : job[k].at = "tell" => job'[k] = job[k]
    BY <2>1, <2>2
  <2>5. \A q \in Players \ {p} : job[<<"gone", q>>].at = "idle" => job'[<<"gone", q>>].at = "idle"
    BY <1>g, <2>2
  <2> HIDE DEF j
  <2>. QED
    BY <1>2, <2>3, <2>4, <2>5, StatusGoesOn
<1>. QED
  BY <1>3, <1>4, <1>5, <1>6, <1>7, <1>8 DEF DropStep

\* Only a queue that is closed has its worker cancel anyone: so a worker that dies elsewhere leaves no cancel half done.
LEMMA ClosedStep == ASSUME Typed, ClosedFFA, [Next]_vars PROVE ClosedFFA'
<1> USE DEF games, queues, bounds
<1>1. job \in [Jobs -> JobType] /\ wk \in [Workers -> WorkerType]
  BY DEF Typed, TypeOK
<1>c. \A w \in Workers : <<"closed", w>> \in Jobs
  BY JobsNamed
<1>k. ASSUME UNCHANGED wk,
             \/ UNCHANGED job
             \/ \E j \in Jobs : /\ \E x : job' = [job EXCEPT ![j] = x]
                                /\ \A w \in Workers : j = <<"closed", w>> => job[j].at # "none"
      PROVE  ClosedFFA'
  <2>1. CASE UNCHANGED job
    BY <1>k, <2>1 DEF ClosedFFA
  <2>2. ASSUME NEW j \in Jobs, NEW x, job' = [job EXCEPT ![j] = x],
               \A w \in Workers : j = <<"closed", w>> => job[j].at # "none"
        PROVE  ClosedFFA'
    <3>1. \A w \in Workers : j # <<"closed", w>> => job'[<<"closed", w>>] = job[<<"closed", w>>]
      BY <1>1, <1>c, <2>2
    <3>. QED
      BY <1>k, <2>2, <3>1 DEF ClosedFFA
  <2>. QED
    BY <1>k, <2>1, <2>2
<1>w. ASSUME NEW w \in Workers, NEW x, wk' = [wk EXCEPT ![w] = x], UNCHANGED job, x.at = "closing" => x.l = "FFA"
      PROVE  ClosedFFA'
  <2>1. \A v \in Workers : wk'[v] = IF v = w THEN x ELSE wk[v]
    BY <1>1, <1>w
  <2>. QED
    BY <1>w, <2>1 DEF ClosedFFA
<1>i. IdleWorker.at = "idle"
  BY DEF IdleWorker
<1>2. ASSUME NEW r \in Requests, Ask(r) \/ RequestStep(r) \/ QueueFails(r) PROVE ClosedFFA'
  <2>1. UNCHANGED wk /\ (UNCHANGED job \/ \E x : job' = [job EXCEPT ![<<"failed", r>>] = x])
    BY <1>2 DEF Ask, RequestStep, Clear, Queue, Wipe, Started, Hold, Push, QueueFails
  <2>2. <<"failed", r>> \in Jobs /\ \A w \in Workers : <<"failed", r>> # <<"closed", w>>
    BY JobsNamed
  <2>. QED
    BY <1>k, <2>1, <2>2
<1>3. ASSUME NEW j \in Jobs, CancelStep(j) PROVE ClosedFFA'
  <2>1. UNCHANGED wk /\ job[j].at # "none" /\ \E x : job' = [job EXCEPT ![j] = x]
    BY <1>3 DEF CancelStep, CancelGet, CancelList, CancelHash, CancelTell, CancelEnds
  <2>. QED
    BY <1>k, <2>1
<1>4. ASSUME NEW p \in Players, GameCancels(p) \/ Disconnect(p) \/ Login(p) \/ Replace(p) \/ DropStep(p) PROVE ClosedFFA'
  <2>1. UNCHANGED wk
    BY <1>4 DEF GameCancels, Disconnect, Login, Replace, DropStep, DropGet, DropList, DropHash, DropIdle
  <2>2. UNCHANGED job \/ (\E x : job' = [job EXCEPT ![<<"game", p>>] = x]) \/ \E x : job' = [job EXCEPT ![<<"gone", p>>] = x]
    BY <1>4 DEF GameCancels, Disconnect, Login, Replace, DropStep, DropGet, DropList, DropHash, DropIdle
  <2>3. /\ <<"game", p>> \in Jobs /\ <<"gone", p>> \in Jobs
        /\ \A w \in Workers : <<"game", p>> # <<"closed", w>> /\ <<"gone", p>> # <<"closed", w>>
    BY JobsNamed
  <2>. QED
    BY <1>k, <2>1, <2>2, <2>3
<1>5. ASSUME NEW w \in Workers, NEW l \in Lists, Acquire(w, l) PROVE ClosedFFA'
  <2> DEFINE x == [wk[w] EXCEPT !.at = "read", !.l = l]
  <2>1. wk' = [wk EXCEPT ![w] = x] /\ UNCHANGED job
    BY <1>5 DEF Acquire
  <2>2. x.at = "read"
    BY <1>1 DEF WorkerType
  <2> HIDE DEF x
  <2>. QED
    BY <1>w, <2>1, <2>2
<1>r. ASSUME NEW w \in Workers, Release(w), UNCHANGED job PROVE ClosedFFA'
  <2>1. wk' = [wk EXCEPT ![w] = IdleWorker]
    BY <1>r DEF Release
  <2>. QED
    BY <1>i, <1>r, <1>w, <2>1
<1>6. ASSUME NEW w \in Workers, WorkerStep(w) PROVE ClosedFFA'
  <2>1. CASE Read(w)
    <3>1. CASE wk' = [wk EXCEPT ![w].at = "clean", ![w].read = list[wk[w].l]] /\ UNCHANGED job
      <4>1. wk' = [wk EXCEPT ![w] = [wk[w] EXCEPT !.at = "clean", !.read = list[wk[w].l]]]
        BY <3>1
      <4>2. [wk[w] EXCEPT !.at = "clean", !.read = list[wk[w].l]].at = "clean"
        BY <1>1 DEF WorkerType
      <4>. QED
        BY <1>w, <3>1, <4>1, <4>2
    <3>. QED
      BY <1>r, <2>1, <3>1 DEF Read
  <2>2. CASE ReadClosed(w)
    <3> DEFINE x == [wk[w] EXCEPT !.at = "closing", !.read = list[wk[w].l]]
    <3>1. wk' = [wk EXCEPT ![w] = x] /\ UNCHANGED job /\ wk[w].l = "FFA"
      BY <2>2 DEF ReadClosed
    <3>2. x.l = "FFA"
      BY <1>1, <3>1 DEF WorkerType
    <3> HIDE DEF x
    <3>. QED
      BY <1>w, <3>1, <3>2
  <2>3. CASE Closing(w)
    <3> PICK t \in wk[w].read : /\ wk' = [wk EXCEPT ![w] = [wk[w] EXCEPT !.read = wk[w].read \ {t}]]
                                /\ job' = [job EXCEPT ![<<"closed", w>>] = Cancelling(PlayersOf(t))]
      BY <2>3 DEF Closing
    <3> DEFINE x == [wk[w] EXCEPT !.read = wk[w].read \ {t}]
    <3>1. wk[w].at = "closing" /\ wk[w].l = "FFA" /\ wk[w].l \in Lists
      BY <2>3 DEF Closing, ClosedFFA, Typed, Named, WorkerNamed
    <3>2. x.l = "FFA"
      BY <1>1, <3>1 DEF WorkerType
    <3>3. wk' = [wk EXCEPT ![w] = x]
      OBVIOUS
    <3> HIDE DEF x
    <3>4. \A v \in Workers : wk'[v] = IF v = w THEN x ELSE wk[v]
      BY <1>1, <3>3
    <3>. QED
      BY <3>1, <3>2, <3>4 DEF ClosedFFA
  <2>4. CASE Closed(w)
    BY <1>r, <2>4 DEF Closed
  <2>5. CASE Clean(w)
    <3>1. PICK left : wk' = [wk EXCEPT ![w] = [wk[w] EXCEPT !.at = "choose", !.read = left]]
      BY <2>5 DEF Clean
    <3>2. [wk[w] EXCEPT !.at = "choose", !.read = left].at = "choose"
      BY <1>1 DEF WorkerType
    <3>3. UNCHANGED job
      BY <2>5 DEF Clean
    <3>. QED
      BY <1>w, <3>1, <3>2, <3>3
  <2>6. CASE Choose(w)
    <3>1. UNCHANGED job
      BY <2>6 DEF Choose
    <3>2. ASSUME NEW g, wk' = [wk EXCEPT ![w] = [wk[w] EXCEPT !.at = "take", !.group = g]] PROVE ClosedFFA'
      <4>1. [wk[w] EXCEPT !.at = "take", !.group = g].at = "take"
        BY <1>1 DEF WorkerType
      <4>. QED
        BY <1>w, <3>1, <3>2, <4>1
    <3>. QED
      BY <1>r, <2>6, <3>1, <3>2, ChooseFinds
  <2>7. CASE Take(w)
    <3>1. wk' = [wk EXCEPT ![w] = [wk[w] EXCEPT !.at = "make"]] /\ UNCHANGED job
      BY <2>7 DEF Take
    <3>2. [wk[w] EXCEPT !.at = "make"].at = "make"
      BY <1>1 DEF WorkerType
    <3>. QED
      BY <1>w, <3>1, <3>2
  <2>8. CASE Make(w)
    BY <1>r, <2>8 DEF Make
  <2>. QED
    BY <1>6, <2>1, <2>2, <2>3, <2>4, <2>5, <2>6, <2>7, <2>8 DEF WorkerStep
<1>7. ASSUME NEW w \in Workers, NoPort(w) PROVE ClosedFFA'
  BY <1>r, <1>7 DEF NoPort
<1>8. ASSUME NEW w \in Workers, Crash(w) PROVE ClosedFFA'
  <2>1. wk' = [wk EXCEPT ![w] = IdleWorker] /\ job' = [job EXCEPT ![<<"closed", w>>] = IdleJob]
    BY <1>8 DEF Crash
  <2>2. \A v \in Workers : /\ wk'[v] = IF v = w THEN IdleWorker ELSE wk[v]
                           /\ job'[<<"closed", v>>] = IF v = w THEN IdleJob ELSE job[<<"closed", v>>]
    BY <1>1, <1>c, <2>1
  <2>3. IdleJob.at = "none"
    BY DEF IdleJob
  <2>. QED
    BY <1>i, <2>2, <2>3 DEF ClosedFFA
<1>9. ASSUME NEW l \in Lists, Expire(l) PROVE ClosedFFA'
  BY <1>k, <1>9 DEF Expire
<1>10. ASSUME NEW i \in DOMAIN match, FoundStep(i) PROVE ClosedFFA'
  BY <1>k, <1>10 DEF FoundStep, FoundHash, FoundStatus, FoundTell
<1>11. ASSUME Tick \/ CloseWindow \/ UNCHANGED vars PROVE ClosedFFA'
  BY <1>k, <1>11 DEF Tick, CloseWindow, vars
<1>. QED
  BY <1>2, <1>3, <1>4, <1>5, <1>6, <1>7, <1>8, <1>9, <1>10, <1>11 DEF Next

\* FoundAsync sets in_match whoever it took a ticket from.
LEMMA FoundKeepsStatus == ASSUME Typed, StatusHeld, NEW i \in DOMAIN match, FoundStep(i) PROVE StatusHeld'
<1>1. held \in [Players -> Requests \cup {None}] /\ status \in [Players -> {"idle", "queued", "in_match"}]
  BY DEF Typed, TypeOK
<1>2. UNCHANGED <<req, job>>
  BY DEF FoundStep, FoundHash, FoundStatus, FoundTell
<1>3. DOMAIN match' = DOMAIN match /\ \A k \in DOMAIN match \ {i} : match'[k] = match[k]
  BY FoundGoesOn DEF Typed
<1>4. ASSUME NEW p \in match[i].todo, match[i].at = "hash", held' = [held EXCEPT ![p] = None], UNCHANGED status,
             IF held[p] = None THEN match'[i].at = "hash" ELSE match'[i].at = "status" /\ match'[i].p = p
      PROVE  StatusHeld'
  <2>1. \A k \in DOMAIN match : match[k].at = "status" => k \in DOMAIN match' /\ match'[k] = match[k]
    BY <1>3, <1>4
  <2>2. \A q \in Players \ {p} : held'[q] = held[q]
    BY <1>1, <1>4
  <2>3. held[p] # None => Due(p)'
    BY <1>3, <1>4 DEF Due
  <2>4. \A q \in Players : status'[q] = "queued" /\ held'[q] = None => Due(q)' \/ (status[q] = "queued" /\ held[q] = None)
    <3> TAKE q \in Players
    <3>1. CASE q = p
      BY <1>4, <2>3, <3>1
    <3>2. CASE q # p
      BY <1>4, <2>2, <3>2
    <3>. QED
      BY <3>1, <3>2
  <2>. QED
    BY <1>2, <2>1, <2>4, StatusLeft
<1>5. ASSUME match[i].at = "status", UNCHANGED held, status' = [status EXCEPT ![match[i].p] = "in_match"]
      PROVE  StatusHeld'
  <2> DEFINE e == match[i].p
  <2>1. \A k \in DOMAIN match : match[k].at = "status" /\ match[k].p # e => k \in DOMAIN match' /\ match'[k] = match[k]
    BY <1>3
  <2>2. \A q \in Players : status'[q] = "queued" /\ held'[q] = None => q # e /\ status[q] = "queued" /\ held[q] = None
    BY <1>1, <1>5
  <2> HIDE DEF e
  <2>. QED
    BY <1>2, <2>1, <2>2, StatusGoesOn
<1>6. ASSUME match[i].at = "hash", UNCHANGED <<held, status>> PROVE StatusHeld'
  <2>1. \A k \in DOMAIN match : match[k].at = "status" => k \in DOMAIN match' /\ match'[k] = match[k]
    BY <1>3, <1>6
  <2>. QED
    BY <1>2, <1>6, <2>1, StatusLeft
<1>. QED
  BY <1>4, <1>5, <1>6, FoundGoesOn DEF Typed

\* Every step keeps StatusHeld, when no request fails on the way and no worker dies closing a queue.
LEMMA StatusStep ==
  ASSUME "fail" \notin Faults, "FFA" \in Lists => "crash" \notin Faults, Typed, ClosedFFA, StatusHeld, [Next]_vars
  PROVE  StatusHeld'
<1> USE DEF games, queues, bounds
<1>1. job \in [Jobs -> JobType] /\ \A w \in Workers : <<"closed", w>> \in Jobs
  BY JobsNamed DEF Typed, TypeOK
<1>j. ASSUME NEW w \in Workers, UNCHANGED <<held, status, req, match>>, job[<<"closed", w>>].at = "none",
             NEW x, job' = [job EXCEPT ![<<"closed", w>>] = x]
      PROVE  StatusHeld'
  <2>1. \A j \in Jobs : job[j].at \in {"tell", "idle"} => job'[j] = job[j]
    BY <1>1, <1>j
  <2>. QED
    BY <1>j, <2>1, StatusLeft
<1>2. ASSUME NEW r \in Requests, Ask(r) \/ RequestStep(r) \/ QueueFails(r) PROVE StatusHeld'
  BY <1>2, RequestKeepsStatus DEF RequestStep, QueueFails, Fault
<1>3. ASSUME NEW j \in Jobs, CancelStep(j) PROVE StatusHeld'
  BY <1>3, CancelKeepsStatus
<1>4. ASSUME NEW p \in Players, GameCancels(p) \/ Disconnect(p) \/ Login(p) \/ Replace(p) \/ DropStep(p) PROVE StatusHeld'
  BY <1>4, PlayerKeepsStatus
<1>5. ASSUME NEW w \in Workers, NEW l \in Lists, Acquire(w, l) PROVE StatusHeld'
  BY <1>5 DEF Acquire, StatusHeld
<1>6. ASSUME NEW w \in Workers, WorkerStep(w) PROVE StatusHeld'
  <2>1. CASE Closing(w)
    <3>1. UNCHANGED <<held, status, req, match>> /\ job[<<"closed", w>>].at = "none"
          /\ \E x : job' = [job EXCEPT ![<<"closed", w>>] = x]
      BY <2>1 DEF Closing
    <3>. QED
      BY <1>j, <3>1
  <2>2. CASE Make(w)
    <3>1. UNCHANGED <<held, status, req, job>>
      BY <2>2 DEF Make
    <3>2. \A i \in DOMAIN match : i \in DOMAIN match' /\ match'[i] = match[i]
      BY <2>2 DEF Make, Typed, TypeOK
    <3>. QED
      BY <3>1, <3>2, StatusLeft
  <2>3. CASE Read(w) \/ ReadClosed(w) \/ Closed(w) \/ Clean(w) \/ Choose(w) \/ Take(w)
    BY <2>3 DEF Read, ReadClosed, Closed, Clean, Choose, Take, StatusHeld
  <2>. QED
    BY <1>6, <2>1, <2>2, <2>3 DEF WorkerStep
<1>7. ASSUME NEW w \in Workers, NoPort(w) PROVE StatusHeld'
  BY <1>7 DEF NoPort, StatusHeld
<1>8. ASSUME NEW w \in Workers, Crash(w) PROVE StatusHeld'
  <2>1. "FFA" \notin Lists /\ UNCHANGED <<held, status, req, match>> /\ \E x : job' = [job EXCEPT ![<<"closed", w>>] = x]
    BY <1>8 DEF Crash, Fault
  <2>2. job[<<"closed", w>>].at = "none"
    BY <2>1 DEF ClosedFFA
  <2>. QED
    BY <1>j, <2>1, <2>2
<1>9. ASSUME NEW l \in Lists, Expire(l) PROVE StatusHeld'
  BY <1>9 DEF Expire, StatusHeld
<1>10. ASSUME NEW i \in DOMAIN match, FoundStep(i) PROVE StatusHeld'
  BY <1>10, FoundKeepsStatus
<1>11. ASSUME Tick \/ CloseWindow \/ UNCHANGED vars PROVE StatusHeld'
  BY <1>11 DEF Tick, CloseWindow, vars, StatusHeld
<1>. QED
  BY <1>2, <1>3, <1>4, <1>5, <1>6, <1>7, <1>8, <1>9, <1>10, <1>11 DEF Next

\* A player shown as queued holds a ticket or is about to be shown as something else, with any number of cancels, drops and
\* announcements at the same player: as long as no request fails between the status and the ticket, and no worker dies
\* while it cancels the tickets of a queue it closed (which only FFA's worker does).
THEOREM StatusHeldHolds ==
  ASSUME "fail" \notin Faults, "FFA" \in Lists => "crash" \notin Faults
  PROVE  Spec => []StatusHeld
<1>1. Init => Typed /\ ClosedFFA /\ StatusHeld
  <2> SUFFICES ASSUME Init PROVE Typed /\ ClosedFFA /\ StatusHeld
    OBVIOUS
  <2>1. \A w \in Workers : wk[w].at = "idle" /\ job[<<"closed", w>>].at = "none"
    BY JobsNamed DEF Init, IdleWorker, IdleJob
  <2>2. \A p \in Players : status[p] = "idle"
    BY DEF Init
  <2>. QED
    BY <2>1, <2>2, InitTyped DEF ClosedFFA, StatusHeld
<1>2. Typed /\ ClosedFFA /\ StatusHeld /\ [Next]_vars => (Typed /\ ClosedFFA /\ StatusHeld)'
  BY TypedStep, ClosedStep, StatusStep
<1>. QED
  BY <1>1, <1>2, PTL DEF Spec
=============================================================================
