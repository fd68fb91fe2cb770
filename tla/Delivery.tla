------------------------------ MODULE Delivery ------------------------------
(***************************************************************************)
(* One player's messages, from the replay log to the game behind an edge:  *)
(* PlayerMessages' log and channels, GatewayConnection's queue, hold and   *)
(* replay on each gateway node, and EdgeSession's cursor, through links    *)
(* that drop, nodes that die and resumes.                                  *)
(*                                                                         *)
(* The connection stays the player's current one (Presence is about that), *)
(* and a gap never outlasts the log's ReplayWindow (the edge's GiveUpMs is  *)
(* a third of it), so no entry is trimmed before it is replayed.  A frame   *)
(* queued on a link that the edge has let go of reaches no one: the queue,  *)
(* the hold and the replay are those of the edge's present link, and what a *)
(* handler of an earlier one does to its own is left out.                   *)
(***************************************************************************)
EXTENDS Naturals, Sequences, FiniteSets

CONSTANTS
    Nodes,      \* gateway node instances
    MaxLinks,   \* how many links the edge makes for the game
    Kinds,      \* of log entries: "message", "close" (applies here), "other" (does not)
    MaxEntries, \* how many entries are logged
    MaxFaults,  \* how many claims may fail on Redis
    Failing,    \* the nodes that may die
    None

ASSUME ConstantsAssumption ==
    /\ MaxLinks \in Nat /\ MaxEntries \in Nat /\ MaxFaults \in Nat
    /\ Kinds \subseteq {"message", "close", "other"}
    /\ Failing \subseteq Nodes
    /\ None \notin Nodes \cup Nat

Links == 1 .. MaxLinks

VARIABLES
    log,      \* realtime:out:{player}: the kind of each entry; its id is its place
    send,     \* ws:send messages each node has yet to handle
    close,    \* ws:disconnect requests each node has yet to handle
    pc,       \* where each link's HandleAsync is
    at,       \* its node
    current,  \* each node's _current link
    up,       \* the nodes that are up
    link,     \* the edge's present link (_link)
    cursor,   \* the last entry the game received (_cursor)
    greeted,  \* the game has its id frame (_handshaken)
    got,      \* the entries sent to the game
    game,     \* "open" or "closed"
    last,     \* the present link's _lastLogged, or the head its claim read
    pos,      \* how far its replay is (ReplayAsync's last)
    upto,     \* how far it goes: the last entry read
    held,     \* what it holds while it replays (_held)
    out,      \* its queue of frames
    closing,  \* a close was queued on it (_closing)
    floor,    \* how much was logged when the game's first link joined its node
    faults

entries  == <<log, send, close>>
handlers == <<pc, at, current, up>>
edge     == <<link, cursor, greeted, got, game>>
queue    == <<last, pos, upto, held, out, closing>>
vars     == <<entries, handlers, edge, queue, floor, faults>>

Frame(kind, id) == [kind |-> kind, id |-> id]

Goto(k, step) == pc' = [pc EXCEPT ![k] = step]

\* Mutant of Holding: what is delivered before the log is read is not held.
HoldingLate(k) == pc[k] = "replay"

\* A resume is replaying the log on link k: deliveries are held.
Holding(k) == pc[k] \in {"read", "replay"}

\* Node n's link of the player is the edge's.
Serves(n) == link # None /\ current[n] = link

\* Its EndReplay has the connection's _gate: a delivery waits for it.
Gated(n) == Serves(n) /\ pc[link] = "drain"

Ended == {"idle", "done"}

Init ==
    /\ log = <<>>
    /\ send = [n \in Nodes |-> <<>>]
    /\ close = [n \in Nodes |-> <<>>]
    /\ pc = [k \in Links |-> "idle"]
    /\ at = [k \in Links |-> None]
    /\ current = [n \in Nodes |-> None]
    /\ up = Nodes
    /\ link = None
    /\ cursor = 0
    /\ greeted = FALSE
    /\ got = <<>>
    /\ game = "open"
    /\ last = 0
    /\ pos = 0
    /\ upto = 0
    /\ held = <<>>
    /\ out = <<>>
    /\ closing = FALSE
    /\ floor = 0
    /\ faults = 0

-----------------------------------------------------------------------------
(* The log and the queue. *)

\* LogScript: the entry is appended and published, on its kind's channel, at once.
Send(kind) ==
    /\ Len(log) < MaxEntries
    /\ log' = Append(log, kind)
    /\ LET publish(q) == [n \in Nodes |-> IF n \in up THEN Append(q[n], Len(log) + 1) ELSE q[n]] IN
       IF kind = "message"
       THEN send' = publish(send) /\ UNCHANGED close
       ELSE close' = publish(close) /\ UNCHANGED send
    /\ UNCHANGED <<handlers, edge, queue, floor, faults>>

\* A message queued for the game (_lastLogged, Queue): not after a close.
QueueMessage(id) ==
    /\ last' = id
    /\ out' = IF closing THEN out ELSE Append(out, Frame("logged", id))
    /\ UNCHANGED closing

\* CloseGame: once, whoever asks first.
QueueClose ==
    /\ closing' = TRUE
    /\ out' = IF closing THEN out ELSE Append(out, Frame("close", 0))

\* DeliverNow: dropped at or below the last entry queued.
DeliverNow(id) == IF id <= last THEN UNCHANGED <<last, out, closing>> ELSE QueueMessage(id)

\* GatewaySubscriber.Deliver and GatewayConnection.Deliver: held while the link
\* replays.
Deliver(n) ==
    /\ send[n] # <<>>
    /\ ~Gated(n)
    /\ send' = [send EXCEPT ![n] = Tail(@)]
    /\ IF ~Serves(n) THEN UNCHANGED <<last, held, out, closing>>
       ELSE IF Holding(link) THEN held' = Append(held, Head(send[n])) /\ UNCHANGED <<last, out, closing>>
       ELSE DeliverNow(Head(send[n])) /\ UNCHANGED held
    /\ UNCHANGED <<log, close, handlers, edge, pos, upto, floor, faults>>

\* GatewaySubscriber.Disconnect and GatewayConnection.Disconnect.
Disconnect(n) ==
    /\ close[n] # <<>>
    /\ ~Gated(n)
    /\ close' = [close EXCEPT ![n] = Tail(@)]
    /\ IF ~Serves(n) \/ log[Head(close[n])] = "other" THEN UNCHANGED <<held, out, closing>>
       ELSE IF Holding(link) THEN held' = Append(held, Head(close[n])) /\ UNCHANGED <<out, closing>>
       ELSE QueueClose /\ UNCHANGED held
    /\ UNCHANGED <<log, send, handlers, edge, last, pos, upto, floor, faults>>

-----------------------------------------------------------------------------
(* HandleAsync on a link. *)

\* Mutant of Claim: the head is taken for the next entry's id.
ClaimAhead(k) ==
    /\ pc[k] = "claim"
    /\ Goto(k, "greet")
    /\ last' = IF k = link THEN Len(log) + 1 ELSE last
    /\ UNCHANGED <<entries, at, current, up, edge, pos, upto, held, out, closing, floor, faults>>

\* ClaimScript: the head of the log is read with the claim.
Claim(k) ==
    /\ pc[k] = "claim"
    /\ Goto(k, "greet")
    /\ last' = IF k = link THEN Len(log) ELSE last
    /\ UNCHANGED <<entries, at, current, up, edge, pos, upto, held, out, closing, floor, faults>>

\* A claim that fails on Redis gives no head: the position is zero.
ClaimFails(k) ==
    /\ pc[k] = "claim"
    /\ faults < MaxFaults
    /\ faults' = faults + 1
    /\ Goto(k, "greet")
    /\ UNCHANGED <<entries, at, current, up, edge, queue, floor>>

\* Link k is its node's link of the player; the one it replaces is closed.
Join(k) ==
    /\ current' = [current EXCEPT ![at[k]] = k]
    /\ IF Serves(at[k]) THEN QueueClose ELSE UNCHANGED <<out, closing>>

\* SendPosition, the id frame, and _current.AddOrUpdate.
Greet(k) ==
    /\ pc[k] = "greet"
    /\ Goto(k, "live")
    /\ IF k = link
       THEN /\ current' = [current EXCEPT ![at[k]] = k]
            /\ out' = <<Frame("position", last), Frame("id", 0)>>
            /\ floor' = Len(log)
            /\ UNCHANGED closing
       ELSE Join(k) /\ UNCHANGED floor
    /\ UNCHANGED <<entries, at, up, edge, last, pos, upto, held, faults>>

\* BeginReplay after the edge's cursor, then _current.AddOrUpdate.
Resume(k) ==
    /\ pc[k] = "resume"
    /\ Goto(k, "read")
    /\ IF k = link THEN last' = cursor /\ pos' = cursor ELSE UNCHANGED <<last, pos>>
    /\ Join(k)
    /\ UNCHANGED <<entries, at, up, edge, upto, held, floor, faults>>

\* ReplayAsync: XRANGE from the cursor to the end.
Read(k) ==
    /\ pc[k] = "read"
    /\ Goto(k, "replay")
    /\ upto' = IF k = link THEN Len(log) ELSE upto
    /\ UNCHANGED <<entries, at, current, up, edge, last, pos, held, out, closing, floor, faults>>

\* Mutant of Replay: a close in the log is passed over as another connection's.
ReplayPassesCloses(k) ==
    /\ pc[k] = "replay"
    /\ k = link
    /\ pos < upto
    /\ pos' = pos + 1
    /\ IF log[pos + 1] = "message" THEN QueueMessage(pos + 1) ELSE UNCHANGED <<last, out, closing>>
    /\ UNCHANGED <<entries, handlers, edge, upto, held, floor, faults>>

\* The next entry read: a message is queued, a close for this connection is
\* queued and ends the loop.
Replay(k) ==
    /\ pc[k] = "replay"
    /\ k = link
    /\ pos < upto
    /\ pos' = pos + 1
    /\ \/ log[pos + 1] = "message" /\ QueueMessage(pos + 1) /\ UNCHANGED upto
       \/ log[pos + 1] = "close" /\ QueueClose /\ upto' = pos + 1 /\ UNCHANGED last
       \/ log[pos + 1] = "other" /\ UNCHANGED <<last, out, closing, upto>>
    /\ UNCHANGED <<entries, handlers, edge, held, floor, faults>>

\* Mutant of EndReplay: what was held is forgotten.
EndForgets(k) ==
    /\ pc[k] = "replay"
    /\ k = link => pos = upto
    /\ held' = IF k = link THEN <<>> ELSE held
    /\ Goto(k, "live")
    /\ UNCHANGED <<entries, at, current, up, edge, last, pos, upto, out, closing, floor, faults>>

\* EndReplay, which keeps the gate until nothing is held.
EndReplay(k) ==
    /\ pc[k] = "replay"
    /\ k = link => pos = upto
    /\ Goto(k, IF k = link /\ held # <<>> THEN "drain" ELSE "live")
    /\ UNCHANGED <<entries, at, current, up, edge, queue, floor, faults>>

\* Its loop: what the replay sent already is passed over.
Drain(k) ==
    /\ pc[k] = "drain"
    /\ Goto(k, IF k = link /\ Tail(held) # <<>> THEN "drain" ELSE "live")
    /\ IF k # link THEN UNCHANGED <<last, held, out, closing>>
       ELSE /\ held' = Tail(held)
            /\ LET id == Head(held) IN
               IF id <= pos THEN UNCHANGED <<last, out, closing>>
               ELSE IF log[id] = "close" THEN QueueClose /\ UNCHANGED last
               ELSE DeliverNow(id)
    /\ UNCHANGED <<entries, at, current, up, edge, pos, upto, floor, faults>>

\* The receive loop of a link the edge let go of ends.
Leave(k) ==
    /\ pc[k] = "live"
    /\ k # link
    /\ Goto(k, "done")
    /\ current' = [n \in Nodes |-> IF current[n] = k THEN None ELSE current[n]]
    /\ UNCHANGED <<entries, at, up, edge, queue, floor, faults>>

-----------------------------------------------------------------------------
(* The edge. *)

\* AttachAsync: a resume after the cursor once the game has its id frame.
Attach(k, n) ==
    /\ game = "open"
    /\ link = None
    /\ pc[k] = "idle"
    /\ \A j \in 1 .. k - 1 : pc[j] # "idle"
    /\ n \in up
    /\ link' = k
    /\ at' = [at EXCEPT ![k] = n]
    /\ Goto(k, IF greeted THEN "resume" ELSE "claim")
    /\ UNCHANGED <<entries, current, up, cursor, greeted, got, game, queue, floor, faults>>

\* The edge lets go of its link, and with it of what is queued there.
LetGo ==
    /\ link' = None
    /\ last' = 0
    /\ pos' = 0
    /\ upto' = 0
    /\ held' = <<>>
    /\ out' = <<>>
    /\ closing' = FALSE

\* AttachAsync's receive loop: a logged frame only past the cursor; a close
\* instruction closes the game.
Receive ==
    /\ link # None
    /\ out # <<>>
    /\ LET f == Head(out) IN
       \/ /\ f.kind = "position"
          /\ cursor' = f.id
          /\ UNCHANGED <<greeted, got>>
       \/ /\ f.kind = "id"
          /\ greeted' = TRUE
          /\ UNCHANGED <<cursor, got>>
       \/ /\ f.kind = "logged"
          /\ cursor' = IF f.id > cursor THEN f.id ELSE cursor
          /\ got' = IF f.id > cursor THEN Append(got, f.id) ELSE got
          /\ UNCHANGED greeted
    /\ out' = Tail(out)
    /\ UNCHANGED <<entries, handlers, link, game, last, pos, upto, held, closing, floor, faults>>

ReceiveClose ==
    /\ link # None
    /\ out # <<>>
    /\ Head(out).kind = "close"
    /\ game' = "closed"
    /\ LetGo
    /\ UNCHANGED <<entries, handlers, cursor, greeted, got, floor, faults>>

\* The edge has another link left to make.
Spare == \E k \in Links : pc[k] = "idle"

\* The link drops: its keep-alive went unanswered, its queue was full, its log
\* could not be read.
LinkLost ==
    /\ link # None
    /\ Spare
    /\ LetGo
    /\ UNCHANGED <<entries, handlers, cursor, greeted, got, game, floor, faults>>

\* The game leaves, or has had no node for GiveUpMs.
GameLeaves ==
    /\ game = "open"
    /\ game' = "closed"
    /\ LetGo
    /\ UNCHANGED <<entries, handlers, cursor, greeted, got, floor, faults>>

NodeDies(n) ==
    /\ n \in up \cap Failing
    /\ up # {n}
    /\ Spare
    /\ up' = up \ {n}
    /\ pc' = [k \in Links |-> IF at[k] = n THEN "done" ELSE pc[k]]
    /\ current' = [current EXCEPT ![n] = None]
    /\ send' = [send EXCEPT ![n] = <<>>]
    /\ close' = [close EXCEPT ![n] = <<>>]
    /\ IF link # None /\ at[link] = n THEN LetGo ELSE UNCHANGED <<link, queue>>
    /\ UNCHANGED <<log, at, cursor, greeted, got, game, floor, faults>>

Handler(k) == Claim(k) \/ Greet(k) \/ Resume(k) \/ Read(k) \/ Replay(k) \/ EndReplay(k) \/ Drain(k) \/ Leave(k)

Next ==
    \/ \E kind \in Kinds : Send(kind)
    \/ \E n \in Nodes : Deliver(n) \/ Disconnect(n) \/ NodeDies(n)
    \/ \E k \in Links : Handler(k) \/ ClaimFails(k)
    \/ \E k \in Links, n \in Nodes : Attach(k, n)
    \/ Receive \/ ReceiveClose \/ LinkLost \/ GameLeaves

\* The handlers and the subscribers run on, the edge reads its link and tries
\* a node every RetryDelay.
Fairness ==
    /\ \A k \in Links : WF_vars(Handler(k))
    /\ \A n \in Nodes : WF_vars(Deliver(n)) /\ WF_vars(Disconnect(n))
    /\ WF_vars(\E k \in Links, n \in Nodes : Attach(k, n))
    /\ WF_vars(Receive \/ ReceiveClose)

Spec     == Init /\ [][Next]_vars
LiveSpec == Spec /\ Fairness

-----------------------------------------------------------------------------
Ids       == 1 .. MaxEntries
FrameType == [kind : {"position", "id", "logged", "close"}, id : 0 .. MaxEntries]

\* The types of the log, the nodes' memory and the edge's.
TypeOK ==
    /\ log \in Seq(Kinds) /\ Len(log) <= MaxEntries
    /\ send \in [Nodes -> Seq(Ids)]
    /\ close \in [Nodes -> Seq(Ids)]
    /\ pc \in [Links -> Ended \cup {"claim", "greet", "resume", "read", "replay", "drain", "live"}]
    /\ at \in [Links -> Nodes \cup {None}]
    /\ current \in [Nodes -> Links \cup {None}]
    /\ up \subseteq Nodes
    /\ link \in Links \cup {None}
    /\ cursor \in 0 .. MaxEntries
    /\ greeted \in BOOLEAN
    /\ got \in Seq(Ids)
    /\ game \in {"open", "closed"}
    /\ last \in 0 .. MaxEntries
    /\ pos \in 0 .. MaxEntries
    /\ upto \in 0 .. MaxEntries
    /\ held \in Seq(Ids)
    /\ out \in Seq(FrameType)
    /\ closing \in BOOLEAN
    /\ floor \in 0 .. MaxEntries
    /\ faults \in 0 .. MaxFaults

Promise == INSTANCE Feed WITH Kinds <- Kinds, log <- log, floor <- floor, got <- got, game <- game

\* What is delivered, through every drop, death, resume and replay, is a Feed:
\* each message once, in order, with no gap past the connection's start
\* (GatewayConnection's hold and its last-logged filter, the edge's cursor).
FeedSpec == Promise!Spec

\* Every message logged once the game's first link has joined its node reaches
\* the game, unless the game closes: no resume leaves one behind.
EveryMessageArrives ==
    \A m \in Ids :
        (greeted /\ m \in floor + 1 .. Len(log) /\ log[m] = "message")
            ~> ((\E i \in DOMAIN got : got[i] = m) \/ game = "closed")

\* A forced close that the game's gap or its resume finds in the log past what
\* the game received closes the game.
ClosesInAGap ==
    (/\ greeted /\ game = "open"
     /\ link = None
     /\ \E m \in cursor + 1 .. Len(log) : log[m] = "close") ~> (game = "closed")
=============================================================================
