------------------------- MODULE MatchmakingProofs -------------------------
(* Theorems about Matchmaking, for every set of players, workers, searches and queues. *)
EXTENDS Matchmaking, TLAPS

\* Whoever cancels has a place of its own to do it in.
LEMMA JobsNamed ==
  /\ \A p \in Players : <<"game", p>> \in Jobs /\ <<"gone", p>> \in Jobs
  /\ \A r \in Requests : <<"failed", r>> \in Jobs
  /\ \A w \in Workers : <<"closed", w>> \in Jobs
BY DEF Jobs

\* A cancel begins with everyone still to be gone through.
LEMMA CancellingTyped == ASSUME NEW S \in SUBSET Players PROVE Cancelling(S) \in JobType /\ Cancelling(S).at = "get"
BY DEF Cancelling, IdleJob, JobType

\* The tickets' LREM leaves lists of tickets.
LEMMA LeaveTyped ==
  ASSUME list \in [Lists -> SUBSET Requests], NEW S, Leave(S)
  PROVE  list' \in [Lists -> SUBSET Requests] /\ \A l \in Lists : list'[l] = list[l] \ S
BY DEF Leave

\* What each of them remembers when it goes by it: a request its queue and its requester, a worker its queue, a cancel
\* the player it is at and the ticket they held.
RequestNamed(r) == req[r].at # "new" => ticket[r].list \in Lists /\ ticket[r].by \in Players
WorkerNamed(w) == wk[w].at # "idle" => wk[w].l \in Lists
JobNamed(j) == job[j].at \notin {"none", "get"} => job[j].p \in Players /\ job[j].t \in Requests
Named ==
  /\ \A r \in Requests : RequestNamed(r)
  /\ \A w \in Workers : WorkerNamed(w)
  /\ \A j \in Jobs : JobNamed(j)

Typed == TypeOK /\ Named

\* A request that goes on keeps its type, and its ticket's name.
LEMMA RequestGoesOn ==
  ASSUME TypeOK, Named, NEW r \in Requests, NEW x \in RequestType, x.at # "new" => req[r].at # "new",
         req' = [req EXCEPT ![r] = x],
         \A q \in Requests : ticket'[q].list = ticket[q].list /\ ticket'[q].by = ticket[q].by
  PROVE  req' \in [Requests -> RequestType] /\ \A q \in Requests : RequestNamed(q)'
BY DEF TypeOK, Named, RequestNamed

\* So does a worker, and its queue's name.
LEMMA WorkerGoesOn ==
  ASSUME TypeOK, Named, NEW w \in Workers, NEW x \in WorkerType, x.at # "idle" => x.l \in Lists,
         wk' = [wk EXCEPT ![w] = x]
  PROVE  wk' \in [Workers -> WorkerType] /\ \A v \in Workers : WorkerNamed(v)'
BY DEF TypeOK, Named, WorkerNamed

\* So does a cancel, and the names of its player and their ticket.
LEMMA JobGoesOn ==
  ASSUME TypeOK, Named, NEW j \in Jobs, NEW x \in JobType,
         x.at \notin {"none", "get"} => x.p \in Players /\ x.t \in Requests,
         job' = [job EXCEPT ![j] = x]
  PROVE  job' \in [Jobs -> JobType] /\ \A k \in Jobs : JobNamed(k)'
BY DEF TypeOK, Named, JobNamed

\* An idle worker, with or without its lock.
LEMMA ReleaseTyped ==
  ASSUME TypeOK, Named, NEW w \in Workers, Release(w)
  PROVE  /\ lock' \in [Lists -> Workers \cup {None}]
         /\ wk' \in [Workers -> WorkerType] /\ \A v \in Workers : WorkerNamed(v)'
<1>1. IdleWorker \in WorkerType /\ IdleWorker.at = "idle"
  BY DEF IdleWorker, WorkerType
<1>2. wk' = [wk EXCEPT ![w] = IdleWorker]
  BY DEF Release
<1>3. lock' \in [Lists -> Workers \cup {None}]
  BY DEF Release, TypeOK
<1>. QED
  BY <1>1, <1>2, <1>3, WorkerGoesOn

\* A worker that looks for a match finds one among the tickets it read, or lets go of its queue.
LEMMA ChooseFinds ==
  ASSUME NEW w \in Workers, Choose(w)
  PROVE  Release(w) \/ \E g \in SUBSET wk[w].read : /\ UNCHANGED lock
                                                   /\ wk' = [wk EXCEPT ![w] = [wk[w] EXCEPT !.at = "take", !.group = g]]
<1> DEFINE groups == {g \in SUBSET wk[w].read : IsGroup(wk[w].l, wk[w].read, g)}
<1>1. CASE groups = {}
  BY <1>1 DEF Choose
<1>2. CASE groups # {}
  <2>1. PICK g \in groups : wk' = [wk EXCEPT ![w].at = "take", ![w].group = g] /\ UNCHANGED lock
    BY <1>2, Zenon DEF Choose
  <2>2. g \in SUBSET wk[w].read
    OBVIOUS
  <2> HIDE DEF groups
  <2>3. wk' = [wk EXCEPT ![w] = [wk[w] EXCEPT !.at = "take", !.group = g]]
    BY <2>1
  <2>. QED
    BY <2>1, <2>2, <2>3
<1>. QED
  BY <1>1, <1>2

\* So does a match.
LEMMA MatchGoesOn ==
  ASSUME TypeOK, NEW i \in DOMAIN match, NEW x \in MatchType, match' = [match EXCEPT ![i] = x]
  PROVE  match' \in Seq(MatchType)
BY DEF TypeOK

\* The inductive step of TypeCorrect.
LEMMA TypedStep == ASSUME Typed, [Next]_vars PROVE Typed'
<1> USE DEF Typed, games, queues, bounds
<1>r. ASSUME NEW r \in Requests PROVE req[r] \in RequestType
  BY <1>r DEF TypeOK
<1>w. ASSUME NEW w \in Workers PROVE wk[w] \in WorkerType
  BY <1>w DEF TypeOK
<1>j. ASSUME NEW j \in Jobs PROVE job[j] \in JobType
  BY <1>j DEF TypeOK
<1>t. ASSUME NEW t \in Requests PROVE PlayersOf(t) \in SUBSET Players
  BY <1>t DEF TypeOK, TicketType, PlayersOf
<1>1. ASSUME NEW r \in Requests, Ask(r) PROVE Typed'
  <2> PICK s \in Searches :
         /\ ticket' = [ticket EXCEPT ![r] = [NoTicket EXCEPT !.all = s.all, !.by = s.by, !.list = s.list]]
         /\ req' = [req EXCEPT ![r].at = "clear", ![r].stale = {t \in OnLists : s.by \in PlayersOf(t)}]
    BY <1>1, Zenon DEF Ask
  <2> DEFINE own == {t \in OnLists : s.by \in PlayersOf(t)}
             x == [req[r] EXCEPT !.at = "clear", !.stale = own]
             y == [NoTicket EXCEPT !.all = s.all, !.by = s.by, !.list = s.list]
  <2>1. own \subseteq Requests
    BY DEF OnLists, TypeOK
  <2> HIDE DEF own
  <2>2. x \in RequestType
    <3>1. req[r] \in RequestType
      BY <1>r
    <3>2. [req[r] EXCEPT !.at = "clear"] \in RequestType
      BY <3>1 DEF RequestType
    <3>. QED
      BY <2>1, <3>2 DEF RequestType
  <2>3. y \in TicketType /\ y.list \in Lists /\ y.by \in Players
    BY SearchesAssumption DEF NoTicket, TicketType
  <2> HIDE DEF x, y
  <2>4. req' = [req EXCEPT ![r] = x] /\ ticket' = [ticket EXCEPT ![r] = y]
    BY DEF x, y, own
  <2>5. /\ req' \in [Requests -> RequestType] /\ ticket' \in [Requests -> TicketType]
        /\ \A q \in Requests : RequestNamed(q)'
    <3>1. req' \in [Requests -> RequestType]
      BY <2>2, <2>4 DEF TypeOK
    <3>2. ticket' \in [Requests -> TicketType]
      BY <2>3, <2>4 DEF TypeOK
    <3>3. ticket'[r].list \in Lists /\ ticket'[r].by \in Players
      BY <2>3, <2>4 DEF TypeOK
    <3>4. \A q \in Requests \ {r} : req'[q] = req[q] /\ ticket'[q] = ticket[q]
      BY <2>4 DEF TypeOK
    <3>5. \A q \in Requests : RequestNamed(q)'
      BY <3>3, <3>4 DEF Named, RequestNamed
    <3>. QED
      BY <3>1, <3>2, <3>5
  <2>. QED
    BY <1>1, <2>5 DEF Ask, TypeOK, Named, WorkerNamed, JobNamed
<1>2. ASSUME NEW r \in Requests, Clear(r) PROVE Typed'
  <2>1. PICK at \in {"answered", "done"} : req' = [req EXCEPT ![r] = [req[r] EXCEPT !.at = at, !.stale = {}]]
    BY <1>2 DEF Clear
  <2>2. [req[r] EXCEPT !.at = at, !.stale = {}] \in RequestType
    <3>1. req[r] \in RequestType
      BY <1>r
    <3>2. [req[r] EXCEPT !.at = at] \in RequestType
      BY <3>1 DEF RequestType
    <3>. QED
      BY <3>2 DEF RequestType
  <2>3. req' \in [Requests -> RequestType] /\ \A q \in Requests : RequestNamed(q)'
    BY <1>2, <2>1, <2>2, RequestGoesOn DEF Clear
  <2>4. list' \in [Lists -> SUBSET Requests]
    BY <1>2, LeaveTyped DEF Clear, TypeOK
  <2>. QED
    BY <1>2, <2>3, <2>4 DEF Clear, TypeOK, Named, WorkerNamed, JobNamed
<1>3. ASSUME NEW r \in Requests, Queue(r) PROVE Typed'
  <2> DEFINE shared == {t \in list[ticket[r].list] : PlayersOf(t) \cap PlayersOf(r) # {}}
             x == [req[r] EXCEPT !.at = "wipe", !.stale = shared]
             y == [ticket[r] EXCEPT !.created = Seconds(now)]
  <2>1. shared \subseteq Requests
    BY <1>3 DEF Queue, TypeOK, Named, RequestNamed
  <2>2. x \in RequestType
    <3> HIDE DEF shared
    <3>1. req[r] \in RequestType
      BY <1>r
    <3>2. [req[r] EXCEPT !.at = "wipe"] \in RequestType
      BY <3>1 DEF RequestType
    <3>. QED
      BY <2>1, <3>2 DEF RequestType
  <2>3. ticket[r] \in TicketType /\ Seconds(now) \in Nat
    BY DEF TypeOK, Seconds
  <2>4. y \in TicketType /\ y.list = ticket[r].list /\ y.by = ticket[r].by
    BY <2>3 DEF TicketType
  <2>5. req' = [req EXCEPT ![r] = x] /\ ticket' = [ticket EXCEPT ![r] = y]
    BY <1>3 DEF Queue
  <2> HIDE DEF x, y
  <2>6. ticket' \in [Requests -> TicketType] /\ \A q \in Requests : ticket'[q].list = ticket[q].list /\ ticket'[q].by = ticket[q].by
    BY <2>4, <2>5 DEF TypeOK
  <2>7. req' \in [Requests -> RequestType] /\ \A q \in Requests : RequestNamed(q)'
    BY <1>3, <2>2, <2>5, <2>6, RequestGoesOn DEF Queue
  <2>. QED
    BY <1>3, <2>6, <2>7 DEF Queue, TypeOK, Named, WorkerNamed, JobNamed
<1>4. ASSUME NEW r \in Requests, Wipe(r) PROVE Typed'
  <2> DEFINE all == PlayersOf(r)
             x == [req[r] EXCEPT !.at = "started", !.stale = {}, !.todo = all]
  <2> all \in SUBSET Players
    BY <1>t
  <2>2. req' = [req EXCEPT ![r] = x]
    BY <1>4 DEF Wipe
  <2> HIDE DEF all
  <2>1. x \in RequestType
    <3>1. req[r] \in RequestType
      BY <1>r
    <3>2. [req[r] EXCEPT !.at = "started", !.todo = all] \in RequestType
      BY <3>1 DEF RequestType
    <3>. QED
      BY <3>1, <3>2 DEF RequestType
  <2> HIDE DEF x
  <2>3. req' \in [Requests -> RequestType] /\ \A q \in Requests : RequestNamed(q)'
    BY <1>4, <2>1, <2>2, RequestGoesOn DEF Wipe
  <2>4. list' \in [Lists -> SUBSET Requests]
    BY <1>4, LeaveTyped DEF Wipe, TypeOK
  <2>. QED
    BY <1>4, <2>3, <2>4 DEF Wipe, TypeOK, Named, WorkerNamed, JobNamed
<1>5. ASSUME NEW r \in Requests, Started(r) PROVE Typed'
  <2> PICK p \in req[r].todo :
         /\ conn[p] => /\ status' = [status EXCEPT ![p] = "queued"]
                       /\ req' = [req EXCEPT ![r] = [req[r] EXCEPT !.at = "hold", !.p = p, !.todo = req[r].todo \ {p}]]
         /\ ~conn[p] => status' = status /\ req' = [req EXCEPT ![r] = [req[r] EXCEPT !.todo = req[r].todo \ {p}]]
    BY <1>5 DEF Started
  <2>1. p \in Players
    BY <1>r DEF RequestType
  <2>2. status' \in [Players -> {"idle", "queued", "in_match"}]
    BY <2>1 DEF TypeOK
  <2>3. PICK x \in RequestType : req' = [req EXCEPT ![r] = x]
    <3>1. req[r] \in RequestType
      BY <1>r
    <3>2. req[r].todo \ {p} \in SUBSET Players
      BY <3>1 DEF RequestType
    <3>3. [req[r] EXCEPT !.at = "hold", !.p = p] \in RequestType
      BY <2>1, <3>1 DEF RequestType
    <3>4. [req[r] EXCEPT !.at = "hold", !.p = p, !.todo = req[r].todo \ {p}] \in RequestType
      BY <3>2, <3>3 DEF RequestType
    <3>5. [req[r] EXCEPT !.todo = req[r].todo \ {p}] \in RequestType
      BY <3>1, <3>2 DEF RequestType
    <3>. QED
      BY <3>4, <3>5
  <2>4. req' \in [Requests -> RequestType] /\ \A q \in Requests : RequestNamed(q)'
    BY <1>5, <2>3, RequestGoesOn DEF Started
  <2>. QED
    BY <1>5, <2>2, <2>4 DEF Started, TypeOK, Named, WorkerNamed, JobNamed
<1>6. ASSUME NEW r \in Requests, Hold(r) PROVE Typed'
  <2> DEFINE x == [req[r] EXCEPT !.at = "started", !.p = None]
  <2>1. x \in RequestType
    <3>1. req[r] \in RequestType
      BY <1>r
    <3>2. [req[r] EXCEPT !.at = "started"] \in RequestType
      BY <3>1 DEF RequestType
    <3>. QED
      BY <3>2 DEF RequestType
  <2>2. req' = [req EXCEPT ![r] = x]
    BY <1>6 DEF Hold
  <2> HIDE DEF x
  <2>3. req' \in [Requests -> RequestType] /\ \A q \in Requests : RequestNamed(q)'
    BY <1>6, <2>1, <2>2, RequestGoesOn DEF Hold
  <2>4. held' \in [Players -> Requests \cup {None}]
    BY <1>6 DEF Hold, TypeOK
  <2>. QED
    BY <1>6, <2>3, <2>4 DEF Hold, TypeOK, Named, WorkerNamed, JobNamed
<1>7. ASSUME NEW r \in Requests, Push(r) PROVE Typed'
  <2> DEFINE x == [req[r] EXCEPT !.at = "done"]
             y == [ticket[r] EXCEPT !.place = pushes + 1]
  <2>1. x \in RequestType
    <3>1. req[r] \in RequestType
      BY <1>r
    <3>. QED
      BY <3>1 DEF RequestType
  <2>2. ticket[r] \in TicketType /\ pushes + 1 \in Nat
    BY DEF TypeOK
  <2>3. y \in TicketType /\ y.list = ticket[r].list /\ y.by = ticket[r].by
    BY <2>2 DEF TicketType
  <2>4. req' = [req EXCEPT ![r] = x] /\ ticket' = [ticket EXCEPT ![r] = y]
    BY <1>7 DEF Push
  <2> HIDE DEF x, y
  <2>5. ticket' \in [Requests -> TicketType] /\ \A q \in Requests : ticket'[q].list = ticket[q].list /\ ticket'[q].by = ticket[q].by
    BY <2>3, <2>4 DEF TypeOK
  <2>6. req' \in [Requests -> RequestType] /\ \A q \in Requests : RequestNamed(q)'
    BY <1>7, <2>1, <2>4, <2>5, RequestGoesOn DEF Push
  <2>7. list' \in [Lists -> SUBSET Requests]
    BY <1>7 DEF Push, TypeOK
  <2>. QED
    BY <1>7, <2>2, <2>5, <2>6, <2>7 DEF Push, TypeOK, Named, WorkerNamed, JobNamed
<1>8. ASSUME NEW r \in Requests, QueueFails(r) PROVE Typed'
  <2> DEFINE x == [NewRequest EXCEPT !.at = "done"]
             c == Cancelling({ticket[r].by})
  <2>1. x \in RequestType
    BY DEF NewRequest, RequestType
  <2>2. c \in JobType /\ c.at = "get"
    BY <1>8, CancellingTyped DEF QueueFails, Named, RequestNamed
  <2>3. req' = [req EXCEPT ![r] = x] /\ job' = [job EXCEPT ![<<"failed", r>>] = c] /\ faults' \in Nat
    BY <1>8 DEF QueueFails, Fault, TypeOK
  <2> HIDE DEF x, c
  <2>4. req' \in [Requests -> RequestType] /\ \A q \in Requests : RequestNamed(q)'
    BY <1>8, <2>1, <2>3, RequestGoesOn DEF QueueFails
  <2>5. job' \in [Jobs -> JobType] /\ \A k \in Jobs : JobNamed(k)'
    BY <2>2, <2>3, JobsNamed, JobGoesOn
  <2>. QED
    BY <1>8, <2>3, <2>4, <2>5 DEF QueueFails, TypeOK, Named, WorkerNamed
<1>9. ASSUME NEW p \in Players, GameCancels(p) PROVE Typed'
  <2> PICK s \in Searches : job' = [job EXCEPT ![<<"game", p>>] = Cancelling(s.all)]
    BY <1>9 DEF GameCancels
  <2>1. Cancelling(s.all) \in JobType /\ Cancelling(s.all).at = "get"
    BY CancellingTyped, SearchesAssumption
  <2>2. job' \in [Jobs -> JobType] /\ \A k \in Jobs : JobNamed(k)'
    BY <2>1, JobsNamed, JobGoesOn
  <2>. QED
    BY <1>9, <2>2 DEF GameCancels, TypeOK, Named, WorkerNamed, RequestNamed
<1>10. ASSUME NEW j \in Jobs, CancelGet(j) PROVE Typed'
  <2> PICK p \in job[j].todo :
         job' = [job EXCEPT ![j] = IF held[p] = None THEN [job[j] EXCEPT !.todo = job[j].todo \ {p}]
                                   ELSE [job[j] EXCEPT !.at = "list", !.p = p, !.t = held[p], !.todo = job[j].todo \ {p}]]
    BY <1>10 DEF CancelGet
  <2>1. p \in Players /\ held[p] \in Requests \cup {None}
    BY <1>j DEF JobType, TypeOK
  <2>2. PICK x \in JobType : /\ job' = [job EXCEPT ![j] = x]
                             /\ x.at \notin {"none", "get"} => x.p \in Players /\ x.t \in Requests
    <3>1. CASE held[p] = None
      <4>1. [job[j] EXCEPT !.todo = job[j].todo \ {p}] \in JobType /\ [job[j] EXCEPT !.todo = job[j].todo \ {p}].at = "get"
        BY <1>j, <1>10 DEF JobType, CancelGet
      <4>. QED
        BY <3>1, <4>1
    <3>2. CASE held[p] # None
      <4> DEFINE x == [job[j] EXCEPT !.at = "list", !.p = p, !.t = held[p], !.todo = job[j].todo \ {p}]
      <4>1. x \in JobType /\ x.p \in Players /\ x.t \in Requests
        BY <1>j, <2>1, <3>2 DEF JobType
      <4>2. job' = [job EXCEPT ![j] = x]
        BY <3>2
      <4> HIDE DEF x
      <4>. QED
        BY <4>1, <4>2
    <3>. QED
      BY <3>1, <3>2
  <2>3. job' \in [Jobs -> JobType] /\ \A k \in Jobs : JobNamed(k)'
    BY <2>2, JobGoesOn
  <2>. QED
    BY <1>10, <2>3 DEF CancelGet, TypeOK, Named, WorkerNamed, RequestNamed
<1>11. ASSUME NEW j \in Jobs, CancelList(j) PROVE Typed'
  <2> DEFINE x == [job[j] EXCEPT !.at = "hash"]
  <2>1. x \in JobType /\ x.p = job[j].p /\ x.t = job[j].t
    BY <1>j DEF JobType
  <2>2. job' = [job EXCEPT ![j] = x] /\ job[j].p \in Players /\ job[j].t \in Requests
    BY <1>11 DEF CancelList, Named, JobNamed
  <2> HIDE DEF x
  <2>3. job' \in [Jobs -> JobType] /\ \A k \in Jobs : JobNamed(k)'
    BY <2>1, <2>2, JobGoesOn
  <2>4. list' \in [Lists -> SUBSET Requests]
    BY <1>11, LeaveTyped DEF CancelList, TypeOK
  <2>. QED
    BY <1>11, <2>3, <2>4 DEF CancelList, TypeOK, Named, WorkerNamed, RequestNamed
<1>12. ASSUME NEW j \in Jobs, CancelHash(j) PROVE Typed'
  <2> DEFINE x == [job[j] EXCEPT !.at = "tell"]
  <2>1. x \in JobType /\ x.p = job[j].p /\ x.t = job[j].t
    BY <1>j DEF JobType
  <2>2. job' = [job EXCEPT ![j] = x] /\ job[j].p \in Players /\ job[j].t \in Requests
    BY <1>12 DEF CancelHash, Named, JobNamed
  <2> HIDE DEF x
  <2>3. job' \in [Jobs -> JobType] /\ \A k \in Jobs : JobNamed(k)'
    BY <2>1, <2>2, JobGoesOn
  <2>4. held' \in [Players -> Requests \cup {None}]
    BY <1>12 DEF CancelHash, TypeOK
  <2>. QED
    BY <1>12, <2>3, <2>4 DEF CancelHash, TypeOK, Named, WorkerNamed, RequestNamed
<1>13. ASSUME NEW j \in Jobs, CancelTell(j) PROVE Typed'
  <2> DEFINE x == [job[j] EXCEPT !.at = "get", !.p = None, !.t = None]
  <2>1. x \in JobType /\ x.at = "get"
    BY <1>j DEF JobType
  <2>2. job' = [job EXCEPT ![j] = x] /\ job[j].p \in Players /\ job[j].t \in Requests
    BY <1>13 DEF CancelTell, Named, JobNamed
  <2> HIDE DEF x
  <2>3. job' \in [Jobs -> JobType] /\ \A k \in Jobs : JobNamed(k)'
    BY <2>1, <2>2, JobGoesOn
  <2>4. cancelled' \in SUBSET (Players \X Requests) /\ status' \in [Players -> {"idle", "queued", "in_match"}]
    BY <1>13, <2>2 DEF CancelTell, TypeOK
  <2>. QED
    BY <1>13, <2>3, <2>4 DEF CancelTell, TypeOK, Named, WorkerNamed, RequestNamed
<1>14. ASSUME NEW j \in Jobs, CancelEnds(j) PROVE Typed'
  <2>1. IdleJob \in JobType /\ IdleJob.at = "none"
    BY DEF IdleJob, JobType
  <2>2. job' \in [Jobs -> JobType] /\ \A k \in Jobs : JobNamed(k)'
    BY <1>14, <2>1, JobGoesOn DEF CancelEnds
  <2>3. list' \in [Lists -> SUBSET Requests]
    BY <1>14, LeaveTyped DEF CancelEnds, TypeOK
  <2>. QED
    BY <1>14, <2>2, <2>3 DEF CancelEnds, TypeOK, Named, WorkerNamed, RequestNamed
<1>15. ASSUME NEW p \in Players, Disconnect(p) \/ Login(p) \/ Replace(p) PROVE Typed'
  <2>1. /\ conn' \in [Players -> BOOLEAN] /\ silent' \in SUBSET Players
        /\ gone' \in [Players -> Nat \cup {None}] /\ faults' \in Nat
    <3>1. CASE Disconnect(p)
      BY <3>1 DEF Disconnect, Fault, TypeOK
    <3>2. CASE Login(p)
      BY <3>2 DEF Login, TypeOK
    <3>3. CASE Replace(p)
      BY <3>3 DEF Replace, Fault, TypeOK
    <3>. QED
      BY <1>15, <3>1, <3>2, <3>3
  <2>2. UNCHANGED <<now, queues, held, status, lock, req, wk, job, match, cancelled, open, cancels>>
    BY <1>15 DEF Disconnect, Login, Replace
  <2>. QED
    BY <2>1, <2>2 DEF TypeOK, Named, WorkerNamed, RequestNamed, JobNamed
<1>16. ASSUME NEW p \in Players, DropGet(p) PROVE Typed'
  <2> DEFINE x == [IdleJob EXCEPT !.at = "drop", !.p = p, !.t = held[p]]
  <2>1. held[p] \in Requests \cup {None}
    BY DEF TypeOK
  <2>2. held[p] # None => x \in JobType /\ x.p \in Players /\ x.t \in Requests
    BY <2>1 DEF IdleJob, JobType
  <2>3. UNCHANGED job \/ (held[p] # None /\ job' = [job EXCEPT ![<<"gone", p>>] = x])
    BY <1>16 DEF DropGet
  <2> HIDE DEF x
  <2>4. job' \in [Jobs -> JobType] /\ \A k \in Jobs : JobNamed(k)'
    <3>1. CASE UNCHANGED job
      BY <3>1 DEF TypeOK, Named, JobNamed
    <3>. QED
      BY <2>2, <2>3, <3>1, JobsNamed, JobGoesOn
  <2>. QED
    BY <1>16, <2>4 DEF DropGet, TypeOK, Named, WorkerNamed, RequestNamed
<1>17. ASSUME NEW p \in Players, DropList(p) PROVE Typed'
  <2> DEFINE j == <<"gone", p>>
             x == [job[j] EXCEPT !.at = "unhold"]
  <2> j \in Jobs
    BY JobsNamed
  <2>2. job' = [job EXCEPT ![j] = x] /\ job[j].p \in Players /\ job[j].t \in Requests
    BY <1>17 DEF DropList, Named, JobNamed
  <2>3. list' \in [Lists -> SUBSET Requests]
    BY <1>17, LeaveTyped DEF DropList, TypeOK
  <2> HIDE DEF j
  <2>1. x \in JobType /\ x.p = job[j].p /\ x.t = job[j].t
    BY <1>j DEF JobType
  <2> HIDE DEF x
  <2>4. job' \in [Jobs -> JobType] /\ \A k \in Jobs : JobNamed(k)'
    BY <2>1, <2>2, JobGoesOn
  <2>. QED
    BY <1>17, <2>3, <2>4 DEF DropList, TypeOK, Named, WorkerNamed, RequestNamed
<1>18. ASSUME NEW p \in Players, DropHash(p) PROVE Typed'
  <2> DEFINE j == <<"gone", p>>
             x == [job[j] EXCEPT !.at = "idle"]
  <2> j \in Jobs
    BY JobsNamed
  <2>2. job' = [job EXCEPT ![j] = x] /\ job[j].p \in Players /\ job[j].t \in Requests
    BY <1>18 DEF DropHash, Named, JobNamed
  <2>3. held' \in [Players -> Requests \cup {None}]
    BY <1>18 DEF DropHash, TypeOK
  <2> HIDE DEF j
  <2>1. x \in JobType /\ x.p = job[j].p /\ x.t = job[j].t
    BY <1>j DEF JobType
  <2> HIDE DEF x
  <2>4. job' \in [Jobs -> JobType] /\ \A k \in Jobs : JobNamed(k)'
    BY <2>1, <2>2, JobGoesOn
  <2>. QED
    BY <1>18, <2>3, <2>4 DEF DropHash, TypeOK, Named, WorkerNamed, RequestNamed
<1>19. ASSUME NEW p \in Players, DropIdle(p) PROVE Typed'
  <2> DEFINE j == <<"gone", p>>
             others == {q \in PlayersOf(job[j].t) \ {p} : held[q] = job[j].t}
  <2>1. others \in SUBSET Players
    BY <1>19, <1>t, JobsNamed DEF DropIdle, Named, JobNamed
  <2>2. job' = [job EXCEPT ![j] = Cancelling(others)]
    BY <1>19 DEF DropIdle
  <2>3. status' \in [Players -> {"idle", "queued", "in_match"}]
    BY <1>19 DEF DropIdle, TypeOK
  <2> HIDE DEF others
  <2>4. job' \in [Jobs -> JobType] /\ \A k \in Jobs : JobNamed(k)'
    BY <2>1, <2>2, CancellingTyped, JobsNamed, JobGoesOn
  <2>. QED
    BY <1>19, <2>3, <2>4 DEF DropIdle, TypeOK, Named, WorkerNamed, RequestNamed
<1>20. ASSUME NEW w \in Workers, NEW l \in Lists, Acquire(w, l) PROVE Typed'
  <2> DEFINE x == [wk[w] EXCEPT !.at = "read", !.l = l]
  <2>1. x \in WorkerType /\ x.l \in Lists
    BY <1>w DEF WorkerType
  <2>2. wk' = [wk EXCEPT ![w] = x]
    BY <1>20 DEF Acquire
  <2> HIDE DEF x
  <2>3. wk' \in [Workers -> WorkerType] /\ \A v \in Workers : WorkerNamed(v)'
    BY <2>1, <2>2, WorkerGoesOn
  <2>4. lock' \in [Lists -> Workers \cup {None}]
    BY <1>20 DEF Acquire, TypeOK
  <2>. QED
    BY <1>20, <2>3, <2>4 DEF Acquire, TypeOK, Named, JobNamed, RequestNamed
<1>21. ASSUME NEW w \in Workers, Read(w) PROVE Typed'
  <2> DEFINE x == [wk[w] EXCEPT !.at = "clean", !.read = list[wk[w].l]]
  <2>1. wk[w].l \in Lists /\ list[wk[w].l] \subseteq Requests
    BY <1>21 DEF Read, Named, WorkerNamed, TypeOK
  <2>2. x \in WorkerType /\ x.l \in Lists
    BY <1>w, <2>1 DEF WorkerType
  <2>3. Release(w) \/ (UNCHANGED lock /\ wk' = [wk EXCEPT ![w] = x])
    BY <1>21 DEF Read
  <2> HIDE DEF x
  <2>4. lock' \in [Lists -> Workers \cup {None}] /\ wk' \in [Workers -> WorkerType] /\ \A v \in Workers : WorkerNamed(v)'
    BY <2>2, <2>3, ReleaseTyped, WorkerGoesOn DEF TypeOK
  <2>. QED
    BY <1>21, <2>4 DEF Read, TypeOK, Named, JobNamed, RequestNamed
<1>22. ASSUME NEW w \in Workers, ReadClosed(w) PROVE Typed'
  <2> DEFINE x == [wk[w] EXCEPT !.at = "closing", !.read = list[wk[w].l]]
  <2>1. wk[w].l \in Lists /\ list[wk[w].l] \subseteq Requests
    BY <1>22 DEF ReadClosed, Named, WorkerNamed, TypeOK
  <2>2. x \in WorkerType /\ x.l \in Lists
    BY <1>w, <2>1 DEF WorkerType
  <2>3. wk' = [wk EXCEPT ![w] = x]
    BY <1>22 DEF ReadClosed
  <2> HIDE DEF x
  <2>4. wk' \in [Workers -> WorkerType] /\ \A v \in Workers : WorkerNamed(v)'
    BY <2>2, <2>3, WorkerGoesOn
  <2>5. list' \in [Lists -> SUBSET Requests]
    BY <1>22, LeaveTyped DEF ReadClosed, TypeOK
  <2>. QED
    BY <1>22, <2>4, <2>5 DEF ReadClosed, TypeOK, Named, JobNamed, RequestNamed
<1>23. ASSUME NEW w \in Workers, Closing(w) PROVE Typed'
  <2> PICK t \in wk[w].read : /\ wk' = [wk EXCEPT ![w] = [wk[w] EXCEPT !.read = wk[w].read \ {t}]]
                              /\ job' = [job EXCEPT ![<<"closed", w>>] = Cancelling(PlayersOf(t))]
    BY <1>23 DEF Closing
  <2> DEFINE x == [wk[w] EXCEPT !.read = wk[w].read \ {t}]
  <2>1. x \in WorkerType /\ x.l = wk[w].l /\ t \in Requests
    BY <1>w DEF WorkerType
  <2>2. wk[w].l \in Lists
    BY <1>23 DEF Closing, Named, WorkerNamed
  <2> HIDE DEF x
  <2>3. wk' \in [Workers -> WorkerType] /\ \A v \in Workers : WorkerNamed(v)'
    BY <2>1, <2>2, WorkerGoesOn DEF x
  <2>4. job' \in [Jobs -> JobType] /\ \A k \in Jobs : JobNamed(k)'
    BY <2>1, <1>t, CancellingTyped, JobsNamed, JobGoesOn
  <2>. QED
    BY <1>23, <2>3, <2>4 DEF Closing, TypeOK, Named, RequestNamed
<1>24. ASSUME NEW w \in Workers, Closed(w) PROVE Typed'
  BY <1>24, ReleaseTyped DEF Closed, TypeOK, Named, JobNamed, RequestNamed
<1>25. ASSUME NEW w \in Workers, Clean(w) PROVE Typed'
  <2> DEFINE kept == wk[w].read \ Stale(wk[w].read)
             left == kept \ Silent(kept)
             x == [wk[w] EXCEPT !.at = "choose", !.read = left]
  <2>1. left \subseteq wk[w].read
    OBVIOUS
  <2>2. Leave(wk[w].read \ left) /\ wk' = [wk EXCEPT ![w] = x]
    BY <1>25 DEF Clean
  <2> HIDE DEF left
  <2>3. wk[w].l \in Lists
    BY <1>25 DEF Clean, Named, WorkerNamed
  <2>4. x \in WorkerType /\ x.l \in Lists
    BY <1>w, <2>1, <2>3 DEF WorkerType
  <2> HIDE DEF x
  <2>5. wk' \in [Workers -> WorkerType] /\ \A v \in Workers : WorkerNamed(v)'
    BY <2>2, <2>4, WorkerGoesOn
  <2>6. list' \in [Lists -> SUBSET Requests]
    BY <2>2, LeaveTyped DEF TypeOK
  <2>. QED
    BY <1>25, <2>5, <2>6 DEF Clean, TypeOK, Named, JobNamed, RequestNamed
<1>26. ASSUME NEW w \in Workers, Choose(w) PROVE Typed'
  <2>1. Release(w) \/ \E g \in SUBSET wk[w].read : /\ UNCHANGED lock
                                                   /\ wk' = [wk EXCEPT ![w] = [wk[w] EXCEPT !.at = "take", !.group = g]]
    BY <1>26, ChooseFinds
  <2>2. lock' \in [Lists -> Workers \cup {None}] /\ wk' \in [Workers -> WorkerType] /\ \A v \in Workers : WorkerNamed(v)'
    <3>1. CASE Release(w)
      BY <3>1, ReleaseTyped
    <3>2. ASSUME NEW g \in SUBSET wk[w].read, UNCHANGED lock,
                 wk' = [wk EXCEPT ![w] = [wk[w] EXCEPT !.at = "take", !.group = g]]
          PROVE  lock' \in [Lists -> Workers \cup {None}] /\ wk' \in [Workers -> WorkerType] /\ \A v \in Workers : WorkerNamed(v)'
      <4> DEFINE x == [wk[w] EXCEPT !.at = "take", !.group = g]
      <4>1. wk[w].l \in Lists
        BY <1>26 DEF Choose, Named, WorkerNamed
      <4>2. x \in WorkerType /\ x.l \in Lists
        BY <1>w, <4>1 DEF WorkerType
      <4> HIDE DEF x
      <4>3. wk' = [wk EXCEPT ![w] = x]
        BY <3>2 DEF x
      <4>. QED
        BY <3>2, <4>2, <4>3, WorkerGoesOn DEF TypeOK
    <3>. QED
      BY <2>1, <3>1, <3>2
  <2>. QED
    BY <1>26, <2>2 DEF Choose, TypeOK, Named, JobNamed, RequestNamed
<1>27. ASSUME NEW w \in Workers, Take(w) PROVE Typed'
  <2> DEFINE x == [wk[w] EXCEPT !.at = "make"]
  <2>1. x \in WorkerType /\ x.l = wk[w].l
    BY <1>w DEF WorkerType
  <2>2. wk' = [wk EXCEPT ![w] = x] /\ wk[w].l \in Lists
    BY <1>27 DEF Take, Named, WorkerNamed
  <2> HIDE DEF x
  <2>3. wk' \in [Workers -> WorkerType] /\ \A v \in Workers : WorkerNamed(v)'
    BY <2>1, <2>2, WorkerGoesOn
  <2>4. list' \in [Lists -> SUBSET Requests]
    BY <1>27, LeaveTyped DEF Take, TypeOK
  <2>. QED
    BY <1>27, <2>3, <2>4 DEF Take, TypeOK, Named, JobNamed, RequestNamed
<1>28. ASSUME NEW w \in Workers, Make(w) PROVE Typed'
  <2> DEFINE new == [group |-> wk[w].group, todo |-> GroupPlayers(wk[w].group), at |-> "hash", p |-> None]
  <2>1. wk[w].group \subseteq Requests
    BY <1>w DEF WorkerType
  <2>2. GroupPlayers(wk[w].group) \subseteq Players
    BY <2>1, <1>t DEF GroupPlayers
  <2>3. new \in MatchType
    BY <2>1, <2>2 DEF MatchType
  <2>4. match' = Append(match, new)
    BY <1>28 DEF Make
  <2> HIDE DEF new
  <2>5. match' \in Seq(MatchType)
    BY <2>3, <2>4 DEF TypeOK
  <2>. QED
    BY <1>28, <2>5, ReleaseTyped DEF Make, TypeOK, Named, JobNamed, RequestNamed
<1>29. ASSUME NEW w \in Workers, NoPort(w) PROVE Typed'
  BY <1>29, ReleaseTyped DEF NoPort, Fault, TypeOK, Named, JobNamed, RequestNamed
<1>30. ASSUME NEW w \in Workers, Crash(w) PROVE Typed'
  <2>1. IdleWorker \in WorkerType /\ IdleWorker.at = "idle" /\ IdleJob \in JobType /\ IdleJob.at = "none"
    BY DEF IdleWorker, WorkerType, IdleJob, JobType
  <2>2. wk' \in [Workers -> WorkerType] /\ \A v \in Workers : WorkerNamed(v)'
    BY <1>30, <2>1, WorkerGoesOn DEF Crash
  <2>3. job' \in [Jobs -> JobType] /\ \A k \in Jobs : JobNamed(k)'
    BY <1>30, <2>1, JobsNamed, JobGoesOn DEF Crash
  <2>. QED
    BY <1>30, <2>2, <2>3 DEF Crash, Fault, TypeOK, Named, RequestNamed
<1>31. ASSUME NEW l \in Lists, Expire(l) PROVE Typed'
  BY <1>31 DEF Expire, Fault, TypeOK, Named, WorkerNamed, JobNamed, RequestNamed
<1>32. ASSUME NEW i \in DOMAIN match, FoundStep(i) PROVE Typed'
  <2>1. match[i] \in MatchType
    BY DEF TypeOK
  <2>2. ASSUME FoundHash(i) PROVE Typed'
    <3> PICK p \in match[i].todo :
           /\ held' = [held EXCEPT ![p] = None]
           /\ match' = [match EXCEPT ![i] = IF held[p] = None THEN [match[i] EXCEPT !.todo = match[i].todo \ {p}]
                                            ELSE [match[i] EXCEPT !.at = "status", !.p = p, !.todo = match[i].todo \ {p}]]
      BY <2>2 DEF FoundHash
    <3>1. PICK x \in MatchType : match' = [match EXCEPT ![i] = x]
      <4>1. p \in Players
        BY <2>1 DEF MatchType
      <4>2. [match[i] EXCEPT !.todo = match[i].todo \ {p}] \in MatchType
        BY <2>1 DEF MatchType
      <4>3. [match[i] EXCEPT !.at = "status", !.p = p, !.todo = match[i].todo \ {p}] \in MatchType
        BY <2>1, <4>1 DEF MatchType
      <4>. QED
        BY <4>2, <4>3
    <3>2. match' \in Seq(MatchType)
      BY <3>1, MatchGoesOn
    <3>3. held' \in [Players -> Requests \cup {None}]
      BY DEF TypeOK
    <3>. QED
      BY <2>2, <3>2, <3>3 DEF FoundHash, TypeOK, Named, WorkerNamed, JobNamed, RequestNamed
  <2>3. ASSUME FoundStatus(i) PROVE Typed'
    <3> DEFINE x == [match[i] EXCEPT !.at = "hash", !.p = None]
    <3>1. x \in MatchType
      BY <2>1 DEF MatchType
    <3>2. match' = [match EXCEPT ![i] = x]
      BY <2>3 DEF FoundStatus
    <3> HIDE DEF x
    <3>3. match' \in Seq(MatchType)
      BY <3>1, <3>2, MatchGoesOn
    <3>4. status' \in [Players -> {"idle", "queued", "in_match"}]
      BY <2>3 DEF FoundStatus, TypeOK
    <3>. QED
      BY <2>3, <3>3, <3>4 DEF FoundStatus, TypeOK, Named, WorkerNamed, JobNamed, RequestNamed
  <2>4. ASSUME FoundTell(i) PROVE Typed'
    <3> DEFINE x == [match[i] EXCEPT !.at = "told"]
    <3>1. x \in MatchType
      BY <2>1 DEF MatchType
    <3>2. match' = [match EXCEPT ![i] = x]
      BY <2>4 DEF FoundTell
    <3> HIDE DEF x
    <3>3. match' \in Seq(MatchType)
      BY <3>1, <3>2, MatchGoesOn
    <3>. QED
      BY <2>4, <3>3 DEF FoundTell, TypeOK, Named, WorkerNamed, JobNamed, RequestNamed
  <2>. QED
    BY <1>32, <2>2, <2>3, <2>4 DEF FoundStep
<1>33. ASSUME Tick \/ CloseWindow PROVE Typed'
  <2>1. now' \in Nat /\ open' \in BOOLEAN /\ faults' \in Nat
    <3>1. CASE Tick
      BY <3>1 DEF Tick, TypeOK
    <3>2. CASE CloseWindow
      <4>1. now' \in Nat /\ faults' \in Nat
        BY <3>2 DEF CloseWindow, Fault, TypeOK
      <4>2. open' \in BOOLEAN
        BY <3>2, Zenon DEF CloseWindow
      <4>. QED
        BY <4>1, <4>2
    <3>. QED
      BY <1>33, <3>1, <3>2
  <2>2. UNCHANGED <<games, queues, held, status, lock, req, wk, job, match, cancelled, cancels>>
    BY <1>33 DEF Tick, CloseWindow
  <2>. QED
    BY <2>1, <2>2 DEF TypeOK, Named, WorkerNamed, JobNamed, RequestNamed
<1>34. ASSUME UNCHANGED vars PROVE Typed'
  BY <1>34 DEF vars, TypeOK, Named, WorkerNamed, JobNamed, RequestNamed
<1>. QED
  BY <1>1, <1>2, <1>3, <1>4, <1>5, <1>6, <1>7, <1>8, <1>9, <1>10, <1>11, <1>12, <1>13, <1>14, <1>15, <1>16, <1>17,
     <1>18, <1>19, <1>20, <1>21, <1>22, <1>23, <1>24, <1>25, <1>26, <1>27, <1>28, <1>29, <1>30, <1>31, <1>32, <1>33,
     <1>34
  DEF Next, RequestStep, CancelStep, DropStep, WorkerStep

\* So it is in the beginning.
LEMMA InitTyped == ASSUME Init PROVE Typed
<1>1. NoTicket \in TicketType /\ NewRequest \in RequestType /\ IdleWorker \in WorkerType /\ IdleJob \in JobType
  BY DEF NoTicket, TicketType, NewRequest, RequestType, IdleWorker, WorkerType, IdleJob, JobType
<1>2. NewRequest.at = "new" /\ IdleWorker.at = "idle" /\ IdleJob.at = "none"
  BY DEF NewRequest, IdleWorker, IdleJob
<1>3. match \in Seq(MatchType)
  BY DEF Init
<1>. QED
  BY <1>1, <1>2, <1>3 DEF Init, Typed, TypeOK, Named, RequestNamed, WorkerNamed, JobNamed

\* Every step of the requests, the cancels, the drops, the workers and the announcements keeps the types of what is in
\* Redis and of what each of them remembers between two commands.
THEOREM TypeCorrect == Spec => []TypeOK
<1>1. Init => Typed
  BY InitTyped
<1>2. Typed /\ [Next]_vars => Typed'
  BY TypedStep
<1>3. Typed => TypeOK
  BY DEF Typed
<1>. QED
  BY <1>1, <1>2, <1>3, PTL DEF Spec

\* t is in a match.
Taken(t) == \E i \in DOMAIN match : t \in match[i].group

\* What MatchedOnce rests on. A worker at work holds its queue's lock, and an idle one remembers nothing; a ticket that is
\* listed was pushed on its own queue and is in no match; so is one a worker read from the queue it works, or chose; and the
\* chosen ones are off the lists by the time the match is made.
Locked == \A w \in Workers : IF wk[w].at = "idle" THEN wk[w].read = {} /\ wk[w].group = {} ELSE lock[wk[w].l] = w
ListedFree == \A l \in Lists : \A t \in list[l] : req[t].at = "done" /\ ticket[t].list = l /\ ~Taken(t)
ReadFree ==
  \A w \in Workers : \A t \in wk[w].read \cup wk[w].group :
    req[t].at = "done" /\ ticket[t].list = wk[w].l /\ ~Taken(t)
ChosenOff == \A w \in Workers : wk[w].at = "make" => \A t \in wk[w].group, l \in Lists : t \notin list[l]
TakenDone == \A t \in Requests : Taken(t) => req[t].at = "done"
Once == Locked /\ ListedFree /\ ReadFree /\ ChosenOff /\ TakenDone /\ MatchedOnce

\* A step of anyone but a worker: tickets only leave the lists, those that were pushed keep their queue, and the matches
\* keep their tickets.
LEMMA OthersKeepOnce ==
  ASSUME TypeOK, Once, UNCHANGED <<wk, lock>>, \A l \in Lists : list'[l] \subseteq list[l],
         \A t \in Requests : req[t].at = "done" => req'[t].at = "done" /\ ticket'[t].list = ticket[t].list,
         DOMAIN match' = DOMAIN match, \A i \in DOMAIN match : match'[i].group = match[i].group
  PROVE  Once'
<1>1. \A t : Taken(t)' <=> Taken(t)
  BY DEF Taken
<1>2. \A l \in Lists : list[l] \subseteq Requests
  BY DEF TypeOK
<1>3. \A w \in Workers : wk[w].read \subseteq Requests /\ wk[w].group \subseteq Requests
  BY DEF TypeOK, WorkerType
<1>4. Locked' /\ ChosenOff'
  BY DEF Once, Locked, ChosenOff
<1>5. ListedFree'
  BY <1>1, <1>2 DEF Once, ListedFree
<1>6. ReadFree'
  BY <1>1, <1>3 DEF Once, ReadFree
<1>7. TakenDone'
  BY <1>1 DEF Once, TakenDone
<1>8. MatchedOnce'
  BY DEF Once, MatchedOnce
<1>. QED
  BY <1>4, <1>5, <1>6, <1>7, <1>8 DEF Once

\* A worker's step under its lock: it remembers tickets it already did, or those listed.
LEMMA WorkerKeepsOnce ==
  ASSUME TypeOK, Once, NEW w \in Workers, NEW x \in WorkerType, wk' = [wk EXCEPT ![w] = x],
         UNCHANGED <<lock, req, ticket, match>>, \A l \in Lists : list'[l] \subseteq list[l],
         wk[w].at # "idle", x.at # "idle", x.l = wk[w].l, wk[w].l \in Lists,
         x.read \cup x.group \subseteq wk[w].read \cup wk[w].group \cup list[wk[w].l],
         x.at = "make" => \A t \in x.group, l \in Lists : t \notin list'[l]
  PROVE  Once'
<1>1. \A t : Taken(t)' <=> Taken(t)
  BY DEF Taken
<1>2. wk'[w] = x /\ \A v \in Workers \ {w} : wk'[v] = wk[v]
  BY DEF TypeOK
<1>3. Locked'
  BY <1>2 DEF Once, Locked
<1>4. ListedFree' /\ TakenDone' /\ MatchedOnce'
  BY <1>1 DEF Once, ListedFree, TakenDone, MatchedOnce
<1>5. ReadFree'
  BY <1>1, <1>2 DEF Once, ReadFree, ListedFree
<1>6. ChosenOff'
  BY <1>2 DEF Once, ChosenOff
<1>. QED
  BY <1>3, <1>4, <1>5, <1>6 DEF Once

\* A worker that stops, with its lock let go of or left behind, leaves the others theirs.
LEMMA StoppedLocked ==
  ASSUME Typed, Once, NEW w \in Workers, wk[w].at # "idle",
         Release(w) \/ (UNCHANGED lock /\ wk' = [wk EXCEPT ![w] = IdleWorker])
  PROVE  Locked' /\ wk'[w] = IdleWorker /\ \A v \in Workers \ {w} : wk'[v] = wk[v]
<1>1. wk'[w] = IdleWorker /\ \A v \in Workers \ {w} : wk'[v] = wk[v]
  BY DEF Release, Typed, TypeOK
<1>2. IdleWorker.at = "idle" /\ IdleWorker.read = {} /\ IdleWorker.group = {}
  BY DEF IdleWorker
<1>3. \A v \in Workers \ {w} : wk[v].at # "idle" => lock'[wk[v].l] = v
  BY DEF Release, Once, Locked, Typed, TypeOK, Named, WorkerNamed
<1>4. \A v \in Workers \ {w} : wk[v].at = "idle" => wk[v].read = {} /\ wk[v].group = {}
  BY DEF Once, Locked
<1>. QED
  BY <1>1, <1>2, <1>3, <1>4 DEF Locked

\* It makes no ticket less free.
LEMMA StopKeepsOnce ==
  ASSUME Typed, Once, NEW w \in Workers, wk[w].at # "idle", UNCHANGED <<list, req, ticket, match>>,
         Release(w) \/ (UNCHANGED lock /\ wk' = [wk EXCEPT ![w] = IdleWorker])
  PROVE  Once'
<1>1. Locked' /\ wk'[w] = IdleWorker /\ \A v \in Workers \ {w} : wk'[v] = wk[v]
  BY StoppedLocked
<1>2. \A t : Taken(t)' <=> Taken(t)
  BY DEF Taken
<1>3. ListedFree' /\ TakenDone' /\ MatchedOnce'
  BY <1>2 DEF Once, ListedFree, TakenDone, MatchedOnce
<1>4. IdleWorker.at = "idle" /\ IdleWorker.read = {} /\ IdleWorker.group = {}
  BY DEF IdleWorker
<1>5. ReadFree' /\ ChosenOff'
  BY <1>1, <1>2, <1>4 DEF Once, ReadFree, ChosenOff
<1>. QED
  BY <1>1, <1>3, <1>5 DEF Once

\* The match a worker makes is the only one with its tickets: no other worker read the queue meanwhile, and they are off it.
LEMMA MakeKeepsOnce == ASSUME Typed, Once, NEW w \in Workers, Make(w) PROVE Once'
<1> DEFINE g == wk[w].group
<1>1. Locked' /\ wk'[w] = IdleWorker /\ \A v \in Workers \ {w} : wk'[v] = wk[v]
  BY StoppedLocked DEF Make
<1>2. /\ DOMAIN match' = 1 .. Len(match) + 1 /\ DOMAIN match = 1 .. Len(match) /\ Len(match) \in Nat
      /\ match'[Len(match) + 1].group = g /\ \A i \in DOMAIN match : match'[i] = match[i]
  BY DEF Make, Typed, TypeOK
<1>3. \A t : Taken(t)' <=> Taken(t) \/ t \in g
  BY <1>2 DEF Taken
<1>4. \A t \in g : ~Taken(t) /\ req[t].at = "done" /\ ticket[t].list = wk[w].l /\ \A l \in Lists : t \notin list[l]
  BY DEF Once, ReadFree, ChosenOff, Make
<1>5. \A v \in Workers \ {w} : \A t \in wk[v].read \cup wk[v].group : t \notin g
  BY <1>4 DEF Once, Locked, ReadFree, Make
<1>6. IdleWorker.at = "idle" /\ IdleWorker.read = {} /\ IdleWorker.group = {}
  BY DEF IdleWorker
<1> HIDE DEF g
<1>7. UNCHANGED <<list, req, ticket>>
  BY DEF Make, queues
<1>8. ListedFree'
  BY <1>3, <1>4, <1>7 DEF Once, ListedFree
<1>9. ReadFree'
  BY <1>1, <1>3, <1>5, <1>6, <1>7 DEF Once, ReadFree
<1>10. ChosenOff'
  BY <1>1, <1>6, <1>7 DEF Once, ChosenOff
<1>11. TakenDone'
  BY <1>3, <1>4, <1>7 DEF Once, TakenDone
<1>12. MatchedOnce'
  <2>1. \A i \in DOMAIN match : match[i].group \cap g = {}
    BY <1>4 DEF Taken
  <2>. QED
    BY <1>2, <2>1 DEF Once, MatchedOnce
<1>. QED
  BY <1>1, <1>8, <1>9, <1>10, <1>11, <1>12 DEF Once

\* Every step keeps Once, when no worker is slower than its lock.
LEMMA OnceStep == ASSUME "slow" \notin Faults, Typed, Once, [Next]_vars PROVE Once'
<1> USE DEF Typed, games, queues, bounds
<1>w. ASSUME NEW w \in Workers PROVE wk[w] \in WorkerType
  BY <1>w DEF TypeOK
<1>l. ASSUME NEW S, Leave(S) PROVE \A l \in Lists : list'[l] \subseteq list[l]
  BY <1>l, LeaveTyped DEF TypeOK
<1>1. ASSUME NEW r \in Requests, Ask(r) \/ Clear(r) \/ Queue(r) \/ Wipe(r) \/ Started(r) \/ Hold(r) \/ QueueFails(r)
      PROVE  Once'
  <2>1. req[r].at # "done" /\ \A q \in Requests \ {r} : req'[q] = req[q] /\ ticket'[q] = ticket[q]
    <3>1. req[r].at # "done"
      BY <1>1 DEF Ask, Clear, Queue, Wipe, Started, Hold, QueueFails
    <3>2. \A q \in Requests \ {r} : req'[q] = req[q]
      BY <1>1 DEF Ask, Clear, Queue, Wipe, Started, Hold, QueueFails, TypeOK
    <3>3. \A q \in Requests \ {r} : ticket'[q] = ticket[q]
      BY <1>1 DEF Ask, Clear, Queue, Wipe, Started, Hold, QueueFails, TypeOK
    <3>. QED
      BY <3>1, <3>2, <3>3
  <2>2. \A l \in Lists : list'[l] \subseteq list[l]
    BY <1>1, <1>l DEF Ask, Clear, Queue, Wipe, Started, Hold, QueueFails
  <2>3. UNCHANGED <<wk, lock, match>>
    BY <1>1 DEF Ask, Clear, Queue, Wipe, Started, Hold, QueueFails
  <2>. QED
    BY <2>1, <2>2, <2>3, OthersKeepOnce
<1>2. ASSUME NEW r \in Requests, Push(r) PROVE Once'
  <2>1. /\ req[r].at # "done" /\ req'[r].at = "done" /\ \A q \in Requests \ {r} : req'[q] = req[q]
        /\ \A q \in Requests : ticket'[q].list = ticket[q].list
    <3>1. req[r] \in RequestType /\ ticket[r] \in TicketType
      BY DEF TypeOK
    <3>2. req'[r] = [req[r] EXCEPT !.at = "done"] /\ ticket'[r] = [ticket[r] EXCEPT !.place = pushes + 1]
      BY <1>2 DEF Push, TypeOK
    <3>3. req'[r].at = "done" /\ ticket'[r].list = ticket[r].list
      BY <3>1, <3>2 DEF RequestType, TicketType
    <3>4. \A q \in Requests \ {r} : req'[q] = req[q] /\ ticket'[q] = ticket[q]
      BY <1>2 DEF Push, TypeOK
    <3>. QED
      BY <1>2, <3>3, <3>4 DEF Push
  <2>2. UNCHANGED <<wk, lock, match>> /\ \A l \in Lists : list'[l] = IF l = ticket[r].list THEN list[l] \cup {r} ELSE list[l]
    BY <1>2 DEF Push, TypeOK
  <2>3. \A t : Taken(t)' <=> Taken(t)
    BY <2>2 DEF Taken
  <2>4. ~Taken(r)
    BY <2>1 DEF Once, TakenDone
  <2>5. \A l \in Lists : list[l] \subseteq Requests
    BY DEF TypeOK
  <2>6. \A w \in Workers : wk[w].read \subseteq Requests /\ wk[w].group \subseteq Requests
    BY DEF TypeOK, WorkerType
  <2>7. ListedFree'
    <3> SUFFICES ASSUME NEW l \in Lists, NEW t \in list'[l]
                 PROVE  req'[t].at = "done" /\ ticket'[t].list = l /\ ~Taken(t)'
      BY DEF ListedFree
    <3>1. CASE t = r /\ l = ticket[r].list
      BY <2>1, <2>3, <2>4, <3>1
    <3>2. CASE t \in list[l]
      <4>1. t \in Requests /\ req[t].at = "done" /\ ticket[t].list = l /\ ~Taken(t)
        BY <2>5, <3>2 DEF Once, ListedFree
      <4>. QED
        BY <2>1, <2>3, <4>1
    <3>. QED
      BY <2>2, <3>1, <3>2
  <2>d. \A t \in Requests : req[t].at = "done" => req'[t].at = "done"
    BY <2>1
  <2>8. ReadFree' /\ TakenDone'
    <3>1. ReadFree'
      BY <2>1, <2>2, <2>3, <2>6, <2>d DEF Once, ReadFree
    <3>2. TakenDone'
      BY <2>3, <2>d DEF Once, TakenDone
    <3>. QED
      BY <3>1, <3>2
  <2>9. ChosenOff'
    <3>1. \A w \in Workers : r \notin wk[w].group
      BY <2>1 DEF Once, ReadFree
    <3>2. \A l \in Lists : list'[l] \ {r} \subseteq list[l]
      BY <2>2
    <3>3. ChosenOff
      BY DEF Once
    <3>. QED
      BY <2>2, <3>1, <3>2, <3>3 DEF ChosenOff
  <2>10. Locked' /\ MatchedOnce'
    BY <2>2 DEF Once, Locked, MatchedOnce
  <2>. QED
    BY <2>7, <2>8, <2>9, <2>10 DEF Once
<1>3. ASSUME NEW j \in Jobs, CancelStep(j) PROVE Once'
  <2>1. UNCHANGED <<req, ticket, match, wk, lock>>
    BY <1>3 DEF CancelStep, CancelGet, CancelList, CancelHash, CancelTell, CancelEnds
  <2>2. \A l \in Lists : list'[l] \subseteq list[l]
    BY <1>3, <1>l DEF CancelStep, CancelGet, CancelList, CancelHash, CancelTell, CancelEnds
  <2>. QED
    BY <2>1, <2>2, OthersKeepOnce
<1>4. ASSUME NEW p \in Players, GameCancels(p) \/ Disconnect(p) \/ Login(p) \/ Replace(p) \/ DropStep(p) PROVE Once'
  <2>1. UNCHANGED <<req, ticket, match, wk, lock>>
    BY <1>4 DEF GameCancels, Disconnect, Login, Replace, DropStep, DropGet, DropList, DropHash, DropIdle
  <2>2. \A l \in Lists : list'[l] \subseteq list[l]
    BY <1>4, <1>l DEF GameCancels, Disconnect, Login, Replace, DropStep, DropGet, DropList, DropHash, DropIdle
  <2>. QED
    BY <2>1, <2>2, OthersKeepOnce
<1>5. ASSUME NEW w \in Workers, NEW l \in Lists, Acquire(w, l) PROVE Once'
  <2>1. /\ wk'[w].at = "read" /\ wk'[w].l = l /\ wk'[w].read = wk[w].read /\ wk'[w].group = wk[w].group
        /\ \A v \in Workers \ {w} : wk'[v] = wk[v]
    <3>1. wk'[w] = [wk[w] EXCEPT !.at = "read", !.l = l] /\ \A v \in Workers \ {w} : wk'[v] = wk[v]
      BY <1>5 DEF Acquire, TypeOK
    <3>. QED
      BY <1>w, <3>1 DEF WorkerType
  <2>2. lock[l] = None /\ lock'[l] = w /\ \A k \in Lists \ {l} : lock'[k] = lock[k]
    BY <1>5 DEF Acquire, TypeOK
  <2>3. wk[w].read = {} /\ wk[w].group = {}
    BY <1>5 DEF Acquire, Once, Locked
  <2>4. UNCHANGED <<list, req, ticket, match>>
    BY <1>5 DEF Acquire
  <2>5. Locked'
    BY <2>1, <2>2, NoneAssumption DEF Once, Locked, Named, WorkerNamed
  <2>6. \A t : Taken(t)' <=> Taken(t)
    BY <2>4 DEF Taken
  <2>7. ListedFree' /\ TakenDone' /\ MatchedOnce'
    BY <2>4, <2>6 DEF Once, ListedFree, TakenDone, MatchedOnce
  <2>8. ReadFree' /\ ChosenOff'
    BY <2>1, <2>3, <2>4, <2>6 DEF Once, ReadFree, ChosenOff
  <2>. QED
    BY <2>5, <2>7, <2>8 DEF Once
<1>6. ASSUME NEW w \in Workers, WorkerStep(w) PROVE Once'
  <2>1. wk[w].at # "idle"
    BY <1>6 DEF WorkerStep, Read, ReadClosed, Closing, Closed, Clean, Choose, Take, Make
  <2>2. wk[w].l \in Lists
    BY <2>1 DEF Named, WorkerNamed
  <2>3. CASE Read(w)
    <3>1. CASE Release(w)
      BY <2>1, <2>3, <3>1, StopKeepsOnce DEF Read
    <3>2. CASE UNCHANGED lock /\ wk' = [wk EXCEPT ![w].at = "clean", ![w].read = list[wk[w].l]]
      <4> DEFINE x == [wk[w] EXCEPT !.at = "clean", !.read = list[wk[w].l]]
      <4>0. list[wk[w].l] \subseteq Requests
        BY <2>2 DEF TypeOK
      <4>1. x \in WorkerType /\ x.l = wk[w].l /\ x.at = "clean" /\ x.read = list[wk[w].l] /\ x.group = wk[w].group
        BY <1>w, <4>0 DEF WorkerType
      <4>2. wk' = [wk EXCEPT ![w] = x]
        BY <3>2
      <4> HIDE DEF x
      <4>3. UNCHANGED <<lock, req, ticket, match, list>>
        BY <2>3, <3>2 DEF Read
      <4>. QED
        BY <2>1, <2>2, <4>1, <4>2, <4>3, WorkerKeepsOnce
    <3>. QED
      BY <2>3, <3>1, <3>2 DEF Read
  <2>4. CASE ReadClosed(w)
    <3> DEFINE x == [wk[w] EXCEPT !.at = "closing", !.read = list[wk[w].l]]
    <3>0. list[wk[w].l] \subseteq Requests
      BY <2>2 DEF TypeOK
    <3>1. x \in WorkerType /\ x.l = wk[w].l /\ x.at = "closing" /\ x.read = list[wk[w].l] /\ x.group = wk[w].group
      BY <1>w, <3>0 DEF WorkerType
    <3>2. wk' = [wk EXCEPT ![w] = x]
      BY <2>4 DEF ReadClosed
    <3> HIDE DEF x
    <3>3. UNCHANGED <<lock, req, ticket, match>> /\ \A l \in Lists : list'[l] \subseteq list[l]
      BY <2>4, <1>l DEF ReadClosed
    <3>. QED
      BY <2>1, <2>2, <3>1, <3>2, <3>3, WorkerKeepsOnce
  <2>5. CASE Closing(w)
    <3> PICK t \in wk[w].read : wk' = [wk EXCEPT ![w] = [wk[w] EXCEPT !.read = wk[w].read \ {t}]]
      BY <2>5 DEF Closing
    <3> DEFINE x == [wk[w] EXCEPT !.read = wk[w].read \ {t}]
    <3>1. x \in WorkerType /\ x.l = wk[w].l /\ x.at = wk[w].at /\ x.read \subseteq wk[w].read /\ x.group = wk[w].group
      BY <1>w DEF WorkerType
    <3>2. wk' = [wk EXCEPT ![w] = x] /\ wk[w].at = "closing"
      BY <2>5 DEF Closing
    <3> HIDE DEF x
    <3>3. UNCHANGED <<lock, req, ticket, match, list>>
      BY <2>5 DEF Closing
    <3>. QED
      BY <2>1, <2>2, <3>1, <3>2, <3>3, WorkerKeepsOnce
  <2>6. CASE Closed(w)
    BY <2>1, <2>6, StopKeepsOnce DEF Closed
  <2>7. CASE Clean(w)
    <3> DEFINE kept == wk[w].read \ Stale(wk[w].read)
               left == kept \ Silent(kept)
               x == [wk[w] EXCEPT !.at = "choose", !.read = left]
    <3>1. left \subseteq wk[w].read
      OBVIOUS
    <3>2. Leave(wk[w].read \ left) /\ wk' = [wk EXCEPT ![w] = x]
      BY <2>7 DEF Clean
    <3> HIDE DEF left
    <3>3. x \in WorkerType /\ x.l = wk[w].l /\ x.at = "choose" /\ x.read = left /\ x.group = wk[w].group
      BY <1>w, <3>1 DEF WorkerType
    <3> HIDE DEF x
    <3>4. UNCHANGED <<lock, req, ticket, match>> /\ \A l \in Lists : list'[l] \subseteq list[l]
      BY <2>7, <3>2, <1>l DEF Clean
    <3>. QED
      BY <2>1, <2>2, <3>1, <3>2, <3>3, <3>4, WorkerKeepsOnce
  <2>8. CASE Choose(w)
    <3>1. CASE Release(w)
      BY <2>1, <2>8, <3>1, StopKeepsOnce DEF Choose
    <3>2. ASSUME NEW g \in SUBSET wk[w].read, UNCHANGED lock,
                 wk' = [wk EXCEPT ![w] = [wk[w] EXCEPT !.at = "take", !.group = g]]
          PROVE  Once'
      <4> DEFINE x == [wk[w] EXCEPT !.at = "take", !.group = g]
      <4>1. x \in WorkerType /\ x.l = wk[w].l /\ x.at = "take" /\ x.read = wk[w].read /\ x.group = g
        BY <1>w DEF WorkerType
      <4> HIDE DEF x
      <4>2. wk' = [wk EXCEPT ![w] = x]
        BY <3>2 DEF x
      <4>3. UNCHANGED <<lock, req, ticket, match, list>>
        BY <2>8, <3>2 DEF Choose
      <4>. QED
        BY <2>1, <2>2, <4>1, <4>2, <4>3, WorkerKeepsOnce
    <3>3. Release(w) \/ \E g \in SUBSET wk[w].read : /\ UNCHANGED lock
                                                     /\ wk' = [wk EXCEPT ![w] = [wk[w] EXCEPT !.at = "take", !.group = g]]
      BY <2>8, ChooseFinds
    <3>. QED
      BY <3>1, <3>2, <3>3
  <2>9. CASE Take(w)
    <3> DEFINE x == [wk[w] EXCEPT !.at = "make"]
    <3>1. x \in WorkerType /\ x.l = wk[w].l /\ x.at = "make" /\ x.read = wk[w].read /\ x.group = wk[w].group
      BY <1>w DEF WorkerType
    <3>2. wk' = [wk EXCEPT ![w] = x]
      BY <2>9 DEF Take
    <3> HIDE DEF x
    <3>3. UNCHANGED <<lock, req, ticket, match>>
      BY <2>9 DEF Take
    <3>4. \A l \in Lists : list'[l] = list[l] \ wk[w].group
      BY <2>9, LeaveTyped DEF Take, TypeOK
    <3>. QED
      BY <2>1, <2>2, <3>1, <3>2, <3>3, <3>4, WorkerKeepsOnce
  <2>10. CASE Make(w)
    BY <2>10, MakeKeepsOnce
  <2>. QED
    BY <1>6, <2>3, <2>4, <2>5, <2>6, <2>7, <2>8, <2>9, <2>10 DEF WorkerStep
<1>7. ASSUME NEW w \in Workers, NoPort(w) \/ Crash(w) PROVE Once'
  <2>1. wk[w].at # "idle"
    BY <1>7 DEF NoPort, Crash
  <2>. QED
    BY <1>7, <2>1, StopKeepsOnce DEF NoPort, Crash
<1>8. ASSUME NEW l \in Lists, Expire(l) PROVE Once'
  <2>1. Dead(l) /\ lock' = [lock EXCEPT ![l] = None]
    BY <1>8 DEF Expire, Fault
  <2>2. \A w \in Workers : wk[w].at # "idle" => wk[w].l \in Lists /\ wk[w].l # l
    BY <2>1 DEF Dead, Once, Locked, Named, WorkerNamed
  <2>3. UNCHANGED <<wk, list, req, ticket, match>>
    BY <1>8 DEF Expire
  <2>4. Locked'
    BY <2>1, <2>2, <2>3 DEF Once, Locked, TypeOK
  <2>5. \A t : Taken(t)' <=> Taken(t)
    BY <2>3 DEF Taken
  <2>6. ListedFree' /\ ReadFree' /\ ChosenOff' /\ TakenDone' /\ MatchedOnce'
    BY <2>3, <2>5 DEF Once, ListedFree, ReadFree, ChosenOff, TakenDone, MatchedOnce
  <2>. QED
    BY <2>4, <2>6 DEF Once
<1>9. ASSUME NEW i \in DOMAIN match, FoundStep(i) PROVE Once'
  <2>1. UNCHANGED <<wk, lock, list, req, ticket>>
    BY <1>9 DEF FoundStep, FoundHash, FoundStatus, FoundTell
  <2>2. match[i] \in MatchType /\ DOMAIN match = 1 .. Len(match)
    BY DEF TypeOK
  <2>3. DOMAIN match' = DOMAIN match /\ match'[i].group = match[i].group /\ \A k \in DOMAIN match \ {i} : match'[k] = match[k]
    <3>1. CASE FoundHash(i)
      <4> PICK p \in match[i].todo :
             match' = [match EXCEPT ![i] = IF held[p] = None THEN [match[i] EXCEPT !.todo = match[i].todo \ {p}]
                                           ELSE [match[i] EXCEPT !.at = "status", !.p = p, !.todo = match[i].todo \ {p}]]
        BY <3>1 DEF FoundHash
      <4>1. [match[i] EXCEPT !.todo = match[i].todo \ {p}].group = match[i].group
        BY <2>2 DEF MatchType
      <4>2. [match[i] EXCEPT !.at = "status", !.p = p, !.todo = match[i].todo \ {p}].group = match[i].group
        BY <2>2 DEF MatchType
      <4>. QED
        BY <4>1, <4>2 DEF TypeOK
    <3>2. CASE FoundStatus(i)
      <4>1. [match[i] EXCEPT !.at = "hash", !.p = None].group = match[i].group
        BY <2>2 DEF MatchType
      <4>. QED
        BY <3>2, <4>1 DEF FoundStatus, TypeOK
    <3>3. CASE FoundTell(i)
      <4>1. [match[i] EXCEPT !.at = "told"].group = match[i].group
        BY <2>2 DEF MatchType
      <4>. QED
        BY <3>3, <4>1 DEF FoundTell, TypeOK
    <3>. QED
      BY <1>9, <3>1, <3>2, <3>3 DEF FoundStep
  <2>4. \A k \in DOMAIN match : match'[k].group = match[k].group
    BY <2>3
  <2>. QED
    BY <2>1, <2>3, <2>4, OthersKeepOnce
<1>10. ASSUME Tick \/ CloseWindow \/ UNCHANGED vars PROVE Once'
  <2>1. UNCHANGED <<wk, lock, list, req, ticket, match>>
    BY <1>10 DEF Tick, CloseWindow, vars
  <2>. QED
    BY <2>1, OthersKeepOnce
<1>. QED
  BY <1>1, <1>2, <1>3, <1>4, <1>5, <1>6, <1>7, <1>8, <1>9, <1>10 DEF Next, RequestStep

\* A ticket goes to one match only, whatever dies and whoever cancels: as long as no worker outlives its lock, which
\* WithLockAsync does not check for.
THEOREM MatchedOnceHolds == ASSUME "slow" \notin Faults PROVE Spec => []MatchedOnce
<1>1. Init => Typed /\ Once
  <2> SUFFICES ASSUME Init PROVE Typed /\ Once
    OBVIOUS
  <2>1. Typed
    BY InitTyped
  <2>2. match = << >> /\ \A t : ~Taken(t)
    BY DEF Init, Taken
  <2>3. \A w \in Workers : wk[w].at = "idle" /\ wk[w].read = {} /\ wk[w].group = {}
    BY DEF Init, IdleWorker
  <2>4. \A l \in Lists : list[l] = {}
    BY DEF Init
  <2>. QED
    BY <2>1, <2>2, <2>3, <2>4 DEF Once, Locked, ListedFree, ReadFree, ChosenOff, TakenDone, MatchedOnce
<1>2. Typed /\ Once /\ [Next]_vars => (Typed /\ Once)'
  BY TypedStep, OnceStep
<1>3. Once => MatchedOnce
  BY DEF Once
<1>. QED
  BY <1>1, <1>2, <1>3, PTL DEF Spec
=============================================================================
