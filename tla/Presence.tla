------------------------------ MODULE Presence ------------------------------
(***************************************************************************)
(* Who is connected, and where: the realtime gateway's presence of one      *)
(* player (GatewayPresence, GatewayNode.HandleAsync, GatewayReaper), with   *)
(* the edge that moves a game from node to node (EdgeSession's links).      *)
(*                                                                         *)
(* A connection is a game's session, named by its id; a socket is one run   *)
(* of HandleAsync on one node (its attachment).  A direct connection has    *)
(* one socket; an edge's connection keeps its id from socket to socket.     *)
(* Each awaited Redis command is one step, so the handlers of several       *)
(* sockets, of several nodes and the reaper interleave as they do there.    *)
(*                                                                         *)
(* Left out: active_ip_accounts (a cache the presence never reads back) and *)
(* the session token, which is the connection's for its whole life.         *)
(***************************************************************************)
EXTENDS Naturals, Sequences, FiniteSets

CONSTANTS
    Nodes,       \* gateway node instances; a restarted node is another instance
    Conns,       \* connection ids
    EdgeConns,   \* those minted by an edge, the others by the node itself
    Sockets,     \* attachments: the runs of HandleAsync
    None,
    Failing,     \* the nodes that may stop, die or lose Redis
    MaxFaults,   \* how many of a node's Redis commands may fail (RecordAsync)
    PostMatch    \* whether the post-match window (rejoin_pending) may open

ASSUME ConstantsAssumption ==
    /\ EdgeConns \subseteq Conns
    /\ Failing \subseteq Nodes
    /\ None \notin Nodes \cup Conns \cup Sockets
    /\ MaxFaults \in Nat
    /\ PostMatch \in BOOLEAN

VARIABLES
    conn,      \* realtime:conn:{player}: id, node, attach
    beat,      \* player_heartbeats: "none", "fresh", "old" (past ReapAfterMs)
    online,    \* online_players holds the player
    rejoin,    \* rejoin_pending:{player} exists
    events,    \* realtime:connections: the events appended so far (their order is no reader's)
    pc,        \* where each socket's HandleAsync is
    at,        \* each socket's node
    cid,       \* and connection id
    end,       \* how it ended: "open", "closed" (a close frame), "dropped"
    closed,    \* this node closed the game on it (ClosedGame)
    replaced,  \* the connection its claim replaced
    current,   \* each node's _current entry for the player
    asked,     \* ws:disconnect requests each node has yet to hear (their "except")
    up,        \* each node: "up", "stopping", "down"
    game,      \* each connection's game: "none", "open", "left"
    link,      \* the socket the game (or its edge) was last attached to
    greeted,   \* the edge got the id frame (_handshaken)
    faults     \* each node's Redis failures so far

presence == <<conn, beat, online, rejoin, events>>
sock     == <<at, cid, end, closed, replaced>>
nodes    == <<pc, sock, current, asked, up>>
games    == <<game, link, greeted>>
vars     == <<presence, nodes, games, faults>>

NoEntry == [id |-> None, node |-> None, attach |-> None]

Edge(s) == cid[s] \in EdgeConns

\* Neither side has ended the socket.
Open(s) == end[s] = "open"

\* The game of connection c is there and has a node.
Attached(c) == game[c] = "open" /\ link[c] # None /\ Open(link[c])

\* Where a handler that still has Redis commands to run can be.
Claiming  == {"claim", "beat", "online", "replaced", "disconnect", "connected"}
Resuming  == {"resume", "resumeBeat", "resumed"}
Releasing == {"release", "unbeat", "window", "offline", "disconnected"}
Ended     == {"idle", "done", "dead"}
Steps     == Claiming \cup Resuming \cup Releasing \cup Ended
             \cup {"join", "live", "answer", "detached"}

Init ==
    /\ conn = NoEntry
    /\ beat = "none"
    /\ online = FALSE
    /\ rejoin = FALSE
    /\ events = {}
    /\ pc = [s \in Sockets |-> "idle"]
    /\ at = [s \in Sockets |-> None]
    /\ cid = [s \in Sockets |-> None]
    /\ end = [s \in Sockets |-> "open"]
    /\ closed = [s \in Sockets |-> FALSE]
    /\ replaced = [s \in Sockets |-> None]
    /\ current = [n \in Nodes |-> None]
    /\ asked = [n \in Nodes |-> <<>>]
    /\ up = [n \in Nodes |-> "up"]
    /\ game = [c \in Conns |-> "none"]
    /\ link = [c \in Conns |-> None]
    /\ greeted = [c \in Conns |-> FALSE]
    /\ faults = [n \in Nodes |-> 0]

Event(type, c, reaped) == [type |-> type, id |-> c, reaped |-> reaped]

\* The handler of socket s goes on to step.
Goto(s, step) == pc' = [pc EXCEPT ![s] = step]

-----------------------------------------------------------------------------
(* The games and their edges. *)

\* A handshake: the node has the first frame (the session token) of a game's
\* own socket, or of an edge's link: a resume once the game has its id frame.
Accept(s, n, c) ==
    /\ pc[s] = "idle"
    /\ up[n] = "up"
    /\ game[c] = "none" \/ (c \in EdgeConns /\ game[c] = "open" /\ ~Attached(c))
    /\ at' = [at EXCEPT ![s] = n]
    /\ cid' = [cid EXCEPT ![s] = c]
    /\ Goto(s, IF greeted[c] THEN "resume" ELSE "claim")
    /\ game' = [game EXCEPT ![c] = "open"]
    /\ link' = [link EXCEPT ![c] = s]
    /\ UNCHANGED <<presence, end, closed, replaced, current, asked, up, greeted, faults>>

\* The edge gets the id frame, which the node queued after the claim.
IdFrame(c) ==
    /\ c \in EdgeConns
    /\ Attached(c)
    /\ ~greeted[c]
    /\ pc[link[c]] \in {"join", "live", "answer"}
    /\ greeted' = [greeted EXCEPT ![c] = TRUE]
    /\ UNCHANGED <<presence, nodes, game, link, faults>>

\* The game closes (or its own socket drops, or its edge has had no node for
\* GiveUpMs): the node it is attached to, if any, sees the close.
GameLeaves(c) ==
    /\ game[c] = "open"
    /\ game' = [game EXCEPT ![c] = "left"]
    /\ end' = IF Attached(c) THEN [end EXCEPT ![link[c]] = "closed"] ELSE end
    /\ UNCHANGED <<presence, pc, at, cid, closed, replaced, current, asked, up, link, greeted, faults>>

\* An edge's link ends with no close: its keep-alive went unanswered.
LinkLost(c) ==
    /\ c \in EdgeConns
    /\ Attached(c)
    /\ end' = [end EXCEPT ![link[c]] = "dropped"]
    /\ UNCHANGED <<presence, pc, at, cid, closed, replaced, current, asked, up, games, faults>>

\* The sockets S end with no close: an edge's game stays, to be linked again;
\* a direct one is gone with its socket.
Cut(S) ==
    /\ end' = [s \in Sockets |-> IF s \in S /\ Open(s) THEN "dropped" ELSE end[s]]
    /\ game' = [c \in Conns |-> IF link[c] \in S /\ c \notin EdgeConns THEN "left" ELSE game[c]]

\* The node closes the game of socket s, and so does the edge if it is still
\* attached to s.
CloseGame(s) ==
    /\ end' = [end EXCEPT ![s] = "closed"]
    /\ closed' = [closed EXCEPT ![s] = TRUE]
    /\ game' = [c \in Conns |-> IF link[c] = s /\ Attached(c) THEN "left" ELSE game[c]]

-----------------------------------------------------------------------------
(* HandleAsync: a new connection's claim (GatewayPresence.ConnectedAsync). *)

\* Mutant of Claim: the claim forgets the connection it replaces.
ClaimForgets(s) ==
    /\ pc[s] = "claim"
    /\ conn' = [id |-> cid[s], node |-> at[s], attach |-> s]
    /\ Goto(s, "beat")
    /\ UNCHANGED <<beat, online, rejoin, events, sock, current, asked, up, games, faults>>

\* Mutant of Claim: the entry's attach is given the connection's id.
ClaimSwaps(s) ==
    /\ pc[s] = "claim"
    /\ conn' = [id |-> cid[s], node |-> at[s], attach |-> cid[s]]
    /\ replaced' = [replaced EXCEPT ![s] = IF conn.id = cid[s] THEN None ELSE conn.id]
    /\ Goto(s, "beat")
    /\ UNCHANGED <<beat, online, rejoin, events, at, cid, end, closed, current, asked, up, games, faults>>

\* ClaimScript: the connection becomes the player's current one.
Claim(s) ==
    /\ pc[s] = "claim"
    /\ conn' = [id |-> cid[s], node |-> at[s], attach |-> s]
    /\ replaced' = [replaced EXCEPT ![s] = IF conn.id = cid[s] THEN None ELSE conn.id]
    /\ Goto(s, "beat")
    /\ UNCHANGED <<beat, online, rejoin, events, at, cid, end, closed, current, asked, up, games, faults>>

ClaimBeat(s) ==
    /\ pc[s] = "beat"
    /\ beat' = "fresh"
    /\ Goto(s, "online")
    /\ UNCHANGED <<conn, online, rejoin, events, sock, current, asked, up, games, faults>>

ClaimOnline(s) ==
    /\ pc[s] = "online"
    /\ online' = TRUE
    /\ Goto(s, IF replaced[s] = None THEN "connected" ELSE "replaced")
    /\ UNCHANGED <<conn, beat, rejoin, events, sock, current, asked, up, games, faults>>

AppendReplaced(s) ==
    /\ pc[s] = "replaced"
    /\ events' = events \cup {Event("replaced", replaced[s], FALSE)}
    /\ Goto(s, "disconnect")
    /\ UNCHANGED <<conn, beat, online, rejoin, sock, current, asked, up, games, faults>>

\* PlayerMessages.DisconnectAsync: every node hears it.
AskDisconnect(s) ==
    /\ pc[s] = "disconnect"
    /\ asked' = [n \in Nodes |-> IF up[n] = "down" THEN asked[n] ELSE Append(asked[n], cid[s])]
    /\ Goto(s, "connected")
    /\ UNCHANGED <<presence, sock, current, up, games, faults>>

AppendConnected(s) ==
    /\ pc[s] = "connected"
    /\ events' = events \cup {Event("connected", cid[s], FALSE)}
    /\ Goto(s, "join")
    /\ UNCHANGED <<conn, beat, online, rejoin, sock, current, asked, up, games, faults>>

-----------------------------------------------------------------------------
(* HandleAsync: an edge's resume (GatewayPresence.ResumedAsync). *)

\* ResumeScript: only while the connection is still the player's current one;
\* refused, the game is closed.
Resume(s) ==
    /\ pc[s] = "resume"
    /\ IF conn.id = cid[s]
       THEN /\ conn' = [id |-> conn.id, node |-> at[s], attach |-> s]
            /\ Goto(s, "resumeBeat")
            /\ UNCHANGED <<end, closed, game>>
       ELSE /\ CloseGame(s)
            /\ Goto(s, "done")
            /\ UNCHANGED conn
    /\ UNCHANGED <<beat, online, rejoin, events, at, cid, replaced, current, asked, up, link, greeted, faults>>

ResumeBeat(s) ==
    /\ pc[s] = "resumeBeat"
    /\ beat' = "fresh"
    /\ Goto(s, "resumed")
    /\ UNCHANGED <<conn, online, rejoin, events, sock, current, asked, up, games, faults>>

AppendResumed(s) ==
    /\ pc[s] = "resumed"
    /\ events' = events \cup {Event("resumed", cid[s], FALSE)}
    /\ Goto(s, "join")
    /\ UNCHANGED <<conn, beat, online, rejoin, sock, current, asked, up, games, faults>>

-----------------------------------------------------------------------------
(* HandleAsync: the connection lives, on its node. *)

\* _current.AddOrUpdate: the player's socket here; the one it replaces closes.
Join(s) ==
    /\ pc[s] = "join"
    /\ LET old == current[at[s]] IN
       IF old # None /\ end[old] # "closed"
       THEN CloseGame(old)
       ELSE UNCHANGED <<end, closed, game>>
    /\ current' = [current EXCEPT ![at[s]] = s]
    /\ Goto(s, "live")
    /\ UNCHANGED <<presence, at, cid, replaced, asked, up, link, greeted, faults>>

\* GatewaySubscriber.Disconnect: the player's socket here closes, unless it is
\* the one the request excepts.
Hear(n) ==
    /\ asked[n] # <<>>
    /\ up[n] # "down"
    /\ asked' = [asked EXCEPT ![n] = Tail(@)]
    /\ LET s == current[n] IN
       IF s # None /\ cid[s] # Head(asked[n]) /\ end[s] # "closed"
       THEN CloseGame(s)
       ELSE UNCHANGED <<end, closed, game>>
    /\ UNCHANGED <<presence, pc, at, cid, replaced, current, up, link, greeted, faults>>

\* GatewayPings: a game silent for SilenceCutoffMs is dropped.
CutOff(s) ==
    /\ pc[s] = "live"
    /\ current[at[s]] = s
    /\ end[s] # "closed"
    /\ CloseGame(s)
    /\ UNCHANGED <<presence, pc, at, cid, replaced, current, asked, up, link, greeted, faults>>

\* The game's answer to a ping, on the node's current socket.
Pong(s) ==
    /\ pc[s] = "live"
    /\ Open(s)
    /\ current[at[s]] = s
    /\ Goto(s, "answer")
    /\ UNCHANGED <<presence, sock, current, asked, up, games, faults>>

\* GatewayPresence.AnsweredAsync.
Answered(s) ==
    /\ pc[s] = "answer"
    /\ beat' = "fresh"
    /\ Goto(s, "live")
    /\ UNCHANGED <<conn, online, rejoin, events, sock, current, asked, up, games, faults>>

\* An edge's link that ended with no close from either side.
Reaped(s) == Edge(s) /\ end[s] = "dropped" /\ ~closed[s]

\* The receive loop ends.  A detached edge link waits for EdgeDetachGraceMs,
\* or is left to another node when this one is stopping.
Leave(s) ==
    /\ pc[s] = "live"
    /\ ~Open(s)
    /\ current' = [n \in Nodes |-> IF current[n] = s THEN None ELSE current[n]]
    /\ Goto(s, IF ~Reaped(s) THEN "release"
               ELSE IF up[at[s]] = "stopping" THEN "done" ELSE "detached")
    /\ UNCHANGED <<presence, sock, asked, up, games, faults>>

\* The grace outlasts the edge's own patience (GiveUpMs): by its end the edge
\* has given the game up or linked it elsewhere.
GraceOver(s) ==
    /\ pc[s] = "detached"
    /\ game[cid[s]] = "left" \/ link[cid[s]] # s
    /\ Goto(s, "release")
    /\ UNCHANGED <<presence, sock, current, asked, up, games, faults>>

-----------------------------------------------------------------------------
(* GatewayPresence.ClosedAsync. *)

\* Mutant of Release: the socket's attachment is not compared.
ReleaseById(s) ==
    /\ pc[s] = "release"
    /\ IF conn.id = cid[s]
       THEN conn' = NoEntry /\ Goto(s, "unbeat")
       ELSE UNCHANGED conn /\ Goto(s, "done")
    /\ UNCHANGED <<beat, online, rejoin, events, sock, current, asked, up, games, faults>>

\* ReleaseScript: only the current connection, on the socket that holds it now.
Release(s) ==
    /\ pc[s] = "release"
    /\ IF conn.id = cid[s] /\ conn.attach = s
       THEN conn' = NoEntry /\ Goto(s, "unbeat")
       ELSE UNCHANGED conn /\ Goto(s, "done")
    /\ UNCHANGED <<beat, online, rejoin, events, sock, current, asked, up, games, faults>>

ReleaseBeat(s) ==
    /\ pc[s] = "unbeat"
    /\ beat' = "none"
    /\ Goto(s, "window")
    /\ UNCHANGED <<conn, online, rejoin, events, sock, current, asked, up, games, faults>>

\* The post-match window keeps the player online.
ReleaseWindow(s) ==
    /\ pc[s] = "window"
    /\ Goto(s, IF rejoin THEN "disconnected" ELSE "offline")
    /\ UNCHANGED <<presence, sock, current, asked, up, games, faults>>

ReleaseOnline(s) ==
    /\ pc[s] = "offline"
    /\ online' = FALSE
    /\ Goto(s, "disconnected")
    /\ UNCHANGED <<conn, beat, rejoin, events, sock, current, asked, up, games, faults>>

AppendDisconnected(s) ==
    /\ pc[s] = "disconnected"
    /\ events' = events \cup {Event("disconnected", cid[s], Reaped(s))}
    /\ Goto(s, "done")
    /\ UNCHANGED <<conn, beat, online, rejoin, sock, current, asked, up, games, faults>>

-----------------------------------------------------------------------------
(* Redis failures, nodes that stop or die, the reaper, and time. *)

\* A Redis command fails.  RecordAsync skips the rest of the claim, the answer
\* or the close; a resume lets go of its link plainly and releases nothing.
Fault(s) ==
    /\ at[s] \in Failing
    /\ faults[at[s]] < MaxFaults
    /\ faults' = [faults EXCEPT ![at[s]] = @ + 1]
    /\ \/ pc[s] \in Claiming /\ Goto(s, "join") /\ UNCHANGED <<end, closed, game>>
       \/ pc[s] = "answer" /\ Goto(s, "live") /\ UNCHANGED <<end, closed, game>>
       \/ pc[s] \in Releasing /\ Goto(s, "done") /\ UNCHANGED <<end, closed, game>>
       \/ /\ pc[s] \in Resuming
          /\ Goto(s, "done")
          /\ Cut({s})
          /\ UNCHANGED closed
    /\ UNCHANGED <<presence, at, cid, replaced, current, asked, up, link, greeted>>

On(n) == {s \in Sockets : at[s] = n}

\* One other node is always up: it serves the games and runs the reaper.
Spare(n) == \E m \in Nodes \ {n} : up[m] = "up"

\* The host stops: every receive loop is cancelled, every grace cut short.
NodeStops(n) ==
    /\ n \in Failing
    /\ up[n] = "up"
    /\ Spare(n)
    /\ up' = [up EXCEPT ![n] = "stopping"]
    /\ pc' = [s \in Sockets |-> IF s \in On(n) /\ pc[s] = "detached" THEN "done" ELSE pc[s]]
    /\ Cut(On(n))
    /\ UNCHANGED <<presence, at, cid, closed, replaced, current, asked, link, greeted, faults>>

NodeStopped(n) ==
    /\ up[n] = "stopping"
    /\ \A s \in On(n) : pc[s] \in Ended
    /\ up' = [up EXCEPT ![n] = "down"]
    /\ asked' = [asked EXCEPT ![n] = <<>>]
    /\ UNCHANGED <<presence, pc, sock, current, games, faults>>

\* The process dies: its handlers stop where they are.
NodeDies(n) ==
    /\ n \in Failing
    /\ up[n] # "down"
    /\ Spare(n)
    /\ up' = [up EXCEPT ![n] = "down"]
    /\ pc' = [s \in Sockets |-> IF s \in On(n) /\ pc[s] \notin Ended THEN "dead" ELSE pc[s]]
    /\ current' = [current EXCEPT ![n] = None]
    /\ asked' = [asked EXCEPT ![n] = <<>>]
    /\ Cut(On(n))
    /\ UNCHANGED <<presence, at, cid, closed, replaced, link, greeted, faults>>

\* A node some of whose commands failed may be cut off from Redis for as long as
\* any delay below: one failure that is modelled stands for an outage.
CutFromRedis(n) == faults[n] > 0

\* GatewayReaper.GoneAsync: the node said it stopped, or its registry entry has
\* been missing for longer than it takes to write it again: it died, or cannot
\* reach Redis.  That a node which reaches Redis rewrites its entry in time (5 s,
\* against 20 s of TTL and 10 s of looks) is assumed.
Gone(n) == up[n] = "down" \/ CutFromRedis(n)

\* Mutant of Reap: a player with no entry left is passed over.
ReapEntriesOnly ==
    /\ beat = "old"
    /\ conn # NoEntry /\ Gone(conn.node)
    /\ conn' = NoEntry
    /\ beat' = "none"
    /\ online' = (online /\ rejoin)
    /\ events' = events \cup {Event("disconnected", conn.id, TRUE)}
    /\ UNCHANGED <<rejoin, nodes, games, faults>>

\* GatewayReaper.SweepAsync with ReapScript: a player silent for ReapAfterMs
\* whose current connection is on a node that is gone, or who has none left.
Reap ==
    /\ beat = "old"
    /\ conn # NoEntry => Gone(conn.node)
    /\ conn' = NoEntry
    /\ beat' = "none"
    /\ online' = (online /\ rejoin)
    /\ events' = events \cup {Event("disconnected", conn.id, TRUE)}
    /\ UNCHANGED <<rejoin, nodes, games, faults>>

\* ReapAfterMs without an answer.
Silent ==
    /\ beat = "fresh"
    /\ beat' = "old"
    /\ UNCHANGED <<conn, online, rejoin, events, nodes, games, faults>>

\* realtime:conn's PEXPIRE (ConnectionTtl, 3 min).  A handler that is running
\* renews it at each answer, or has cut its silent game off long before; but an
\* answer counts though its renewal failed, and the game then stays.
Expire ==
    /\ conn # NoEntry
    /\ beat # "fresh"
    /\ pc[conn.attach] \in Ended \/ CutFromRedis(conn.node)
    /\ conn' = NoEntry
    /\ UNCHANGED <<beat, online, rejoin, events, nodes, games, faults>>

\* MatchEnd opens rejoin_pending:{player}; it expires 45 s later.
Window ==
    /\ PostMatch
    /\ rejoin' = ~rejoin
    /\ UNCHANGED <<conn, beat, online, events, nodes, games, faults>>

Handler(s) ==
    \/ Claim(s) \/ ClaimBeat(s) \/ ClaimOnline(s) \/ AppendReplaced(s) \/ AskDisconnect(s) \/ AppendConnected(s)
    \/ Resume(s) \/ ResumeBeat(s) \/ AppendResumed(s)
    \/ Join(s) \/ Answered(s) \/ Leave(s) \/ GraceOver(s)
    \/ Release(s) \/ ReleaseBeat(s) \/ ReleaseWindow(s) \/ ReleaseOnline(s) \/ AppendDisconnected(s)

Next ==
    \/ \E s \in Sockets : Handler(s) \/ Pong(s) \/ CutOff(s) \/ Fault(s)
    \/ \E s \in Sockets, n \in Nodes, c \in Conns : Accept(s, n, c)
    \/ \E c \in Conns : IdFrame(c) \/ GameLeaves(c) \/ LinkLost(c)
    \/ \E n \in Nodes : Hear(n) \/ NodeStops(n) \/ NodeStopped(n) \/ NodeDies(n)
    \/ Reap \/ Silent \/ Expire \/ Window

\* Handlers that can step do; the reaper sweeps, silence and the TTL run out;
\* a stopping node stops; a game with no node is linked again or given up.
Fairness ==
    /\ \A s \in Sockets : WF_vars(Handler(s))
    /\ \A n \in Nodes : WF_vars(Hear(n)) /\ WF_vars(NodeStopped(n))
    /\ WF_vars(Reap)
    /\ WF_vars(Silent)
    /\ WF_vars(Expire)

Spec     == Init /\ [][Next]_vars
LiveSpec == Spec /\ Fairness

-----------------------------------------------------------------------------
EntryType == [id : Conns \cup {None}, node : Nodes \cup {None}, attach : Sockets \cup {None}]
EventType == [type : {"connected", "replaced", "resumed", "disconnected"},
              id : Conns \cup {None}, reaped : BOOLEAN]

\* The types of the presence in Redis, of the nodes' memory and of the games.
TypeOK ==
    /\ conn \in EntryType
    /\ beat \in {"none", "fresh", "old"}
    /\ online \in BOOLEAN
    /\ rejoin \in BOOLEAN
    /\ events \subseteq EventType
    /\ pc \in [Sockets -> Steps]
    /\ at \in [Sockets -> Nodes \cup {None}]
    /\ cid \in [Sockets -> Conns \cup {None}]
    /\ end \in [Sockets -> {"open", "closed", "dropped"}]
    /\ closed \in [Sockets -> BOOLEAN]
    /\ replaced \in [Sockets -> Conns \cup {None}]
    /\ current \in [Nodes -> Sockets \cup {None}]
    /\ asked \in [Nodes -> Seq(Conns \cup {None})]
    /\ up \in [Nodes -> {"up", "stopping", "down"}]
    /\ game \in [Conns -> {"none", "open", "left"}]
    /\ link \in [Conns -> Sockets \cup {None}]
    /\ greeted \in [Conns -> BOOLEAN]
    /\ faults \in [Nodes -> 0 .. MaxFaults]
    /\ \A s \in Sockets : pc[s] # "idle" => at[s] \in Nodes /\ cid[s] \in Conns

\* While the socket that holds it is open, no close lets the player's entry go:
\* that of an older socket, of a replaced connection or of a link an edge moved
\* leaves it alone (ReleaseScript's two comparisons).  The reaper and the TTL do,
\* but only when the holder's node cannot renew it: its Redis commands failed.
HolderReleases ==
    [][conn # NoEntry /\ conn' = NoEntry /\ Open(conn.attach) => UNCHANGED pc /\ CutFromRedis(conn.node)]_vars

\* Why HolderReleases holds.  A handler that is past its receive loop runs on a
\* socket that has ended, as do all those of a node that is down; the entry
\* names a socket that claimed or resumed it, on its node, under its id, and
\* that has not released it.
Holding ==
    /\ \A s \in Sockets :
          /\ pc[s] \in Releasing \cup {"detached", "done", "dead"} => ~Open(s)
          /\ at[s] \in Nodes /\ up[at[s]] = "down" => pc[s] \in Ended
    /\ \/ conn = NoEntry
       \/ /\ conn.attach \in Sockets
          /\ conn.node = at[conn.attach]
          /\ conn.id = cid[conn.attach]
          /\ pc[conn.attach] \notin {"idle", "claim", "resume"} \cup (Releasing \ {"release"})

Pending(c) ==
    \E s \in Sockets :
        \/ replaced[s] = c /\ pc[s] \in {"beat", "online", "replaced"}
        \/ cid[s] = c /\ pc[s] \in {"unbeat", "window", "offline", "disconnected"}

Told(type, c) == \E e \in events : e.type = type /\ e.id = c

\* What the readers of realtime:connections rely on: a connection announced as
\* connected is still the player's current one, or its replaced or disconnected
\* event was appended, or the handler that ended it is about to append it.
Announced ==
    \A c \in Conns : Told("connected", c) =>
        conn.id = c \/ Told("replaced", c) \/ Told("disconnected", c) \/ Pending(c)

AllLeft == \A c \in Conns : game[c] = "left"

\* Once every game has left, the entry and the heartbeat go, whatever died, was
\* cut short or failed on the way: the closes, the reaper and the TTL between
\* them leave no ghost connection, and no ghost heartbeat a late answer revived.
PresenceDrains == AllLeft ~> (conn = NoEntry /\ beat = "none")

-----------------------------------------------------------------------------
(* What the code's comments say and its interleavings do not keep: no run states it. *)

\* "a reconnect is never undone by the old socket's close": a player whose
\* current connection is live on its node is in online_players.
ConnectedIsOnline ==
    \A s \in Sockets : conn.attach = s /\ pc[s] = "live" /\ Open(s) => online
=============================================================================
