--------------------------- MODULE PresenceProofs ---------------------------
(* Theorems about Presence, for every set of nodes, connections and sockets. *)
EXTENDS Presence, TLAPS

\* What is appended to realtime:connections is an event.
LEMMA EventTyped ==
  ASSUME NEW type \in {"connected", "replaced", "resumed", "disconnected"}, NEW c \in Conns \cup {None},
         NEW r \in BOOLEAN
  PROVE  Event(type, c, r) \in EventType
BY DEF Event, EventType

\* What closing a game leaves typed.
LEMMA CloseGameTyped ==
  ASSUME TypeOK, NEW s \in Sockets, CloseGame(s)
  PROVE  /\ end' \in [Sockets -> {"open", "closed", "dropped"}]
         /\ closed' \in [Sockets -> BOOLEAN]
         /\ game' \in [Conns -> {"none", "open", "left"}]
BY DEF TypeOK, CloseGame

\* A handler that goes on to a step is still on its node, under its connection.
LEMMA GotoTyped ==
  ASSUME TypeOK, NEW s \in Sockets, NEW step \in Steps, pc[s] # "idle", Goto(s, step), UNCHANGED <<at, cid>>
  PROVE  /\ pc' \in [Sockets -> Steps]
         /\ \A q \in Sockets : pc'[q] # "idle" => at'[q] \in Nodes /\ cid'[q] \in Conns
<1>1. pc' = [pc EXCEPT ![s] = step] /\ pc \in [Sockets -> Steps] /\ UNCHANGED <<at, cid>>
  BY DEF Goto, TypeOK
<1>2. pc' \in [Sockets -> Steps]
  BY <1>1
<1>3. \A q \in Sockets : pc'[q] # "idle" => pc[q] # "idle"
  BY <1>1
<1>. QED
  BY <1>1, <1>2, <1>3 DEF TypeOK

\* The presence, the nodes' memory and the games keep their types.
THEOREM TypeCorrect == Spec => []TypeOK
<1> USE ConstantsAssumption DEF presence, nodes, games, sock
<1>1. Init => TypeOK
  <2> SUFFICES ASSUME Init PROVE TypeOK
    OBVIOUS
  <2> USE DEF Init
  <2>1. conn \in EntryType
    BY DEF NoEntry, EntryType
  <2>2. pc \in [Sockets -> Steps]
    BY DEF Steps, Ended
  <2>3. asked \in [Nodes -> Seq(Conns \cup {None})]
    OBVIOUS
  <2>4. closed \in [Sockets -> BOOLEAN] /\ greeted \in [Conns -> BOOLEAN] /\ online \in BOOLEAN /\ rejoin \in BOOLEAN
    OBVIOUS
  <2>. QED
    BY <2>1, <2>2, <2>3, <2>4 DEF TypeOK
<1>2. TypeOK /\ [Next]_vars => TypeOK'
  <2> SUFFICES ASSUME TypeOK, [Next]_vars PROVE TypeOK'
    OBVIOUS
  <2> USE DEF TypeOK, EntryType, Steps, Claiming, Resuming, Releasing, Ended, Goto, Open
  <2>1. CASE \E s \in Sockets : Claim(s)
    BY <2>1 DEF Claim
  <2>2. CASE \E s \in Sockets : ClaimBeat(s)
    BY <2>2 DEF ClaimBeat
  <2>3. CASE \E s \in Sockets : ClaimOnline(s)
    BY <2>3 DEF ClaimOnline
  <2>4. CASE \E s \in Sockets : AppendReplaced(s)
    <3> PICK s \in Sockets : AppendReplaced(s)
      BY <2>4
    <3>1. cid[s] \in Conns \cup {None} /\ replaced[s] \in Conns \cup {None}
      OBVIOUS
    <3>2. Event("replaced", replaced[s], FALSE) \in EventType
      BY <3>1, EventTyped
    <3>. QED
      BY <3>2 DEF AppendReplaced
  <2>5. CASE \E s \in Sockets : AskDisconnect(s)
    BY <2>5 DEF AskDisconnect
  <2>6. CASE \E s \in Sockets : AppendConnected(s)
    <3> PICK s \in Sockets : AppendConnected(s)
      BY <2>6
    <3>1. cid[s] \in Conns \cup {None} /\ replaced[s] \in Conns \cup {None}
      OBVIOUS
    <3>2. Event("connected", cid[s], FALSE) \in EventType
      BY <3>1, EventTyped
    <3>. QED
      BY <3>2 DEF AppendConnected
  <2>7. CASE \E s \in Sockets : Resume(s)
    <3> PICK s \in Sockets : Resume(s)
      BY <2>7
    <3>1. CASE conn.id = cid[s]
      <4>1. conn' \in EntryType
        BY <3>1 DEF Resume
      <4>. QED
        BY <3>1, <4>1 DEF Resume
    <3>2. CASE conn.id # cid[s]
      <4>1. CloseGame(s)
        BY <3>2 DEF Resume
      <4>2. /\ end' \in [Sockets -> {"open", "closed", "dropped"}]
            /\ closed' \in [Sockets -> BOOLEAN]
            /\ game' \in [Conns -> {"none", "open", "left"}]
        BY <4>1, CloseGameTyped
      <4>3. pc[s] = "resume" /\ Goto(s, "done") /\ conn' = conn
        BY <3>2 DEF Resume
      <4>4. /\ pc' \in [Sockets -> Steps]
            /\ \A q \in Sockets : pc'[q] # "idle" => at'[q] \in Nodes /\ cid'[q] \in Conns
        BY <4>3, GotoTyped DEF Resume
      <4> HIDE DEF EntryType, Steps
      <4>. QED
        BY <4>2, <4>3, <4>4 DEF Resume
    <3>. QED
      BY <3>1, <3>2
  <2>8. CASE \E s \in Sockets : ResumeBeat(s)
    BY <2>8 DEF ResumeBeat
  <2>9. CASE \E s \in Sockets : AppendResumed(s)
    <3> PICK s \in Sockets : AppendResumed(s)
      BY <2>9
    <3>1. cid[s] \in Conns \cup {None} /\ replaced[s] \in Conns \cup {None}
      OBVIOUS
    <3>2. Event("resumed", cid[s], FALSE) \in EventType
      BY <3>1, EventTyped
    <3>. QED
      BY <3>2 DEF AppendResumed
  <2>10. CASE \E s \in Sockets : Join(s)
    <3> PICK s \in Sockets : Join(s)
      BY <2>10
    <3> DEFINE old == current[at[s]]
    <3>1. CASE old # None /\ end[old] # "closed"
      <4>1. CloseGame(old)
        BY <3>1 DEF Join
      <4>2. old \in Sockets
        BY <3>1 DEF Join
      <4> HIDE DEF old
      <4>. QED
        BY <4>1, <4>2, CloseGameTyped DEF Join
    <3>2. CASE ~(old # None /\ end[old] # "closed")
      BY <3>2 DEF Join
    <3>. QED
      BY <3>1, <3>2
  <2>11. CASE \E s \in Sockets : Answered(s)
    BY <2>11 DEF Answered
  <2>12. CASE \E s \in Sockets : Leave(s)
    BY <2>12 DEF Leave, Reaped
  <2>13. CASE \E s \in Sockets : GraceOver(s)
    BY <2>13 DEF GraceOver
  <2>14. CASE \E s \in Sockets : Release(s)
    <3> PICK s \in Sockets : Release(s)
      BY <2>14
    <3>1. NoEntry \in EntryType
      BY DEF NoEntry
    <3>2. pc[s] = "release" /\ conn' \in {conn, NoEntry} /\ (Goto(s, "unbeat") \/ Goto(s, "done"))
      BY DEF Release
    <3>3. /\ pc' \in [Sockets -> Steps]
          /\ \A q \in Sockets : pc'[q] # "idle" => at'[q] \in Nodes /\ cid'[q] \in Conns
      BY <3>2, GotoTyped DEF Release
    <3> HIDE DEF EntryType, Steps
    <3>. QED
      BY <3>1, <3>2, <3>3 DEF Release
  <2>15. CASE \E s \in Sockets : ReleaseBeat(s)
    BY <2>15 DEF ReleaseBeat
  <2>16. CASE \E s \in Sockets : ReleaseWindow(s)
    BY <2>16 DEF ReleaseWindow
  <2>17. CASE \E s \in Sockets : ReleaseOnline(s)
    <3> PICK s \in Sockets : ReleaseOnline(s)
      BY <2>17
    <3>1. pc[s] = "offline" /\ Goto(s, "disconnected")
      BY DEF ReleaseOnline
    <3>2. /\ pc' \in [Sockets -> Steps]
          /\ \A q \in Sockets : pc'[q] # "idle" => at'[q] \in Nodes /\ cid'[q] \in Conns
      BY <3>1, GotoTyped DEF ReleaseOnline
    <3>3. online' \in BOOLEAN
      BY DEF ReleaseOnline
    <3> HIDE DEF EntryType, Steps
    <3>. QED
      BY <3>2, <3>3 DEF ReleaseOnline
  <2>18. CASE \E s \in Sockets : AppendDisconnected(s)
    <3> PICK s \in Sockets : AppendDisconnected(s)
      BY <2>18
    <3>1. cid[s] \in Conns \cup {None} /\ replaced[s] \in Conns \cup {None}
      OBVIOUS
    <3>2. Event("disconnected", cid[s], Reaped(s)) \in EventType
      BY <3>1, EventTyped DEF Reaped
    <3>. QED
      BY <3>2 DEF AppendDisconnected
  <2>19. CASE \E s \in Sockets : Pong(s)
    BY <2>19 DEF Pong
  <2>20. CASE \E s \in Sockets : CutOff(s)
    BY <2>20 DEF CutOff, CloseGame
  <2>21. CASE \E s \in Sockets : Fault(s)
    <3> PICK s \in Sockets : Fault(s)
      BY <2>21
    <3>1. faults' \in [Nodes -> 0 .. MaxFaults]
      BY DEF Fault
    <3>2. CASE pc[s] \in Resuming
      <4>1. Goto(s, "done") /\ Cut({s}) /\ UNCHANGED closed
        BY <3>2 DEF Fault
      <4>2. end' \in [Sockets -> {"open", "closed", "dropped"}]
        BY <4>1 DEF Cut
      <4>3. game' \in [Conns -> {"none", "open", "left"}]
        BY <4>1 DEF Cut
      <4>. QED
        BY <3>1, <3>2, <4>1, <4>2, <4>3 DEF Fault
    <3>3. CASE pc[s] \notin Resuming
      <4>1. pc[s] # "idle" /\ (Goto(s, "join") \/ Goto(s, "live") \/ Goto(s, "done")) /\ UNCHANGED <<end, closed, game>>
        BY <3>3 DEF Fault
      <4>2. /\ pc' \in [Sockets -> Steps]
            /\ \A q \in Sockets : pc'[q] # "idle" => at'[q] \in Nodes /\ cid'[q] \in Conns
        BY <4>1, GotoTyped DEF Fault
      <4> HIDE DEF EntryType, Steps
      <4>. QED
        BY <3>1, <4>1, <4>2 DEF Fault
    <3>. QED
      BY <3>2, <3>3
  <2>22. CASE \E s \in Sockets, n \in Nodes, c \in Conns : Accept(s, n, c)
    BY <2>22 DEF Accept
  <2>23. CASE \E c \in Conns : IdFrame(c)
    BY <2>23 DEF IdFrame, Attached
  <2>24. CASE \E c \in Conns : GameLeaves(c)
    BY <2>24 DEF GameLeaves, Attached
  <2>25. CASE \E c \in Conns : LinkLost(c)
    BY <2>25 DEF LinkLost, Attached
  <2>26. CASE \E n \in Nodes : Hear(n)
    <3> PICK n \in Nodes : Hear(n)
      BY <2>26
    <3> DEFINE s == current[n]
    <3> DEFINE hit == s # None /\ cid[s] # Head(asked[n]) /\ end[s] # "closed"
    <3>0. asked' \in [Nodes -> Seq(Conns \cup {None})]
      BY DEF Hear
    <3>1. CASE hit
      <4>1. CloseGame(s) /\ s \in Sockets
        BY <3>1 DEF Hear
      <4> HIDE DEF s
      <4>. QED
        BY <3>0, <4>1, CloseGameTyped DEF Hear
    <3>2. CASE ~hit
      BY <3>0, <3>2 DEF Hear
    <3>. QED
      BY <3>1, <3>2
  <2>27. CASE \E n \in Nodes : NodeStops(n)
    BY <2>27 DEF NodeStops, Cut, On
  <2>28. CASE \E n \in Nodes : NodeStopped(n)
    BY <2>28 DEF NodeStopped, On
  <2>29. CASE \E n \in Nodes : NodeDies(n)
    BY <2>29 DEF NodeDies, Cut, On
  <2>30. CASE Reap
    <3>1. conn' \in EntryType
      BY <2>30 DEF Reap, NoEntry
    <3>2. online' \in BOOLEAN
      BY <2>30 DEF Reap
    <3>3. events' \subseteq EventType
      BY <2>30, EventTyped, conn.id \in Conns \cup {None} DEF Reap
    <3>. QED
      BY <2>30, <3>1, <3>2, <3>3 DEF Reap
  <2>31. CASE Silent
    BY <2>31 DEF Silent
  <2>32. CASE Expire
    BY <2>32 DEF Expire, NoEntry
  <2>33. CASE Window
    BY <2>33 DEF Window
  <2>34. CASE UNCHANGED vars
    BY <2>34 DEF vars
  <2>. QED
    BY <2>1, <2>2, <2>3, <2>4, <2>5, <2>6, <2>7, <2>8, <2>9, <2>10, <2>11, <2>12, <2>13, <2>14, <2>15, <2>16, <2>17, <2>18, <2>19, <2>20, <2>21, <2>22, <2>23, <2>24, <2>25, <2>26, <2>27, <2>28, <2>29, <2>30, <2>31, <2>32, <2>33, <2>34 DEF Next, Handler
<1>. QED
  BY <1>1, <1>2, PTL DEF Spec

\* Holding is inductive, with the types.
THEOREM HoldingHolds == Spec => []Holding
<1> USE ConstantsAssumption DEF presence, nodes, games, sock
<1>1. Init => Holding
  BY DEF Init, Holding, Releasing
<1>2. TypeOK /\ Holding /\ [Next]_vars => Holding'
  <2> SUFFICES ASSUME TypeOK, Holding, [Next]_vars PROVE Holding'
    OBVIOUS
  <2> USE DEF TypeOK, Holding, Steps, Claiming, Resuming, Releasing, Ended, Goto, Open
  <2>1. CASE \E s \in Sockets : Claim(s)
    BY <2>1 DEF Claim
  <2>2. CASE \E s \in Sockets : ClaimBeat(s)
    BY <2>2 DEF ClaimBeat
  <2>3. CASE \E s \in Sockets : ClaimOnline(s)
    BY <2>3 DEF ClaimOnline
  <2>4. CASE \E s \in Sockets : AppendReplaced(s)
    BY <2>4 DEF AppendReplaced
  <2>5. CASE \E s \in Sockets : AskDisconnect(s)
    BY <2>5 DEF AskDisconnect
  <2>6. CASE \E s \in Sockets : AppendConnected(s)
    BY <2>6 DEF AppendConnected
  <2>7. CASE \E s \in Sockets : Resume(s)
    <3> PICK s \in Sockets : Resume(s)
      BY <2>7
    <3>1. CASE conn.id = cid[s]
      <4>1. /\ conn' = [id |-> cid[s], node |-> at[s], attach |-> s]
            /\ pc' = [pc EXCEPT ![s] = "resumeBeat"]
            /\ UNCHANGED <<end, at, cid, up>>
        BY <3>1 DEF Resume
      <4>2. pc[s] = "resume"
        BY DEF Resume
      <4>. QED
        BY <4>1, <4>2
    <3>2. CASE conn.id # cid[s]
      <4>1. /\ pc' = [pc EXCEPT ![s] = "done"]
            /\ end' = [end EXCEPT ![s] = "closed"]
            /\ UNCHANGED <<conn, at, cid, up>>
        BY <3>2 DEF Resume, CloseGame
      <4>2. pc[s] = "resume"
        BY DEF Resume
      <4>. QED
        BY <4>1, <4>2
    <3>. QED
      BY <3>1, <3>2
  <2>8. CASE \E s \in Sockets : ResumeBeat(s)
    BY <2>8 DEF ResumeBeat
  <2>9. CASE \E s \in Sockets : AppendResumed(s)
    BY <2>9 DEF AppendResumed
  <2>10. CASE \E s \in Sockets : Join(s)
    BY <2>10 DEF Join, CloseGame
  <2>11. CASE \E s \in Sockets : Answered(s)
    BY <2>11 DEF Answered
  <2>12. CASE \E s \in Sockets : Leave(s)
    BY <2>12 DEF Leave, Reaped
  <2>13. CASE \E s \in Sockets : GraceOver(s)
    BY <2>13 DEF GraceOver
  <2>14. CASE \E s \in Sockets : Release(s)
    <3> PICK s \in Sockets : Release(s)
      BY <2>14
    <3>1. pc[s] = "release" /\ UNCHANGED <<end, at, cid, up>>
      BY DEF Release
    <3>2. CASE conn.id = cid[s] /\ conn.attach = s
      <4>1. conn' = NoEntry /\ pc' = [pc EXCEPT ![s] = "unbeat"]
        BY <3>2 DEF Release
      <4>. QED
        BY <3>1, <4>1
    <3>3. CASE ~(conn.id = cid[s] /\ conn.attach = s)
      <4>1. conn' = conn /\ pc' = [pc EXCEPT ![s] = "done"]
        BY <3>3 DEF Release
      <4>. QED
        BY <3>1, <3>3, <4>1
    <3>. QED
      BY <3>2, <3>3
  <2>15. CASE \E s \in Sockets : ReleaseBeat(s)
    BY <2>15 DEF ReleaseBeat
  <2>16. CASE \E s \in Sockets : ReleaseWindow(s)
    BY <2>16 DEF ReleaseWindow
  <2>17. CASE \E s \in Sockets : ReleaseOnline(s)
    BY <2>17 DEF ReleaseOnline
  <2>18. CASE \E s \in Sockets : AppendDisconnected(s)
    BY <2>18 DEF AppendDisconnected, Reaped
  <2>19. CASE \E s \in Sockets : Pong(s)
    BY <2>19 DEF Pong
  <2>20. CASE \E s \in Sockets : CutOff(s)
    BY <2>20 DEF CutOff, CloseGame
  <2>21. CASE \E s \in Sockets : Fault(s)
    <3> PICK s \in Sockets : Fault(s)
      BY <2>21
    <3>1. CASE pc[s] \in Resuming
      <4>1. pc' = [pc EXCEPT ![s] = "done"] /\ Cut({s})
        BY <3>1 DEF Fault
      <4>2. end' = [t \in Sockets |-> IF t = s /\ end[t] = "open" THEN "dropped" ELSE end[t]]
        BY <4>1 DEF Cut
      <4>. QED
        BY <3>1, <4>1, <4>2 DEF Fault
    <3>2. CASE pc[s] \in Claiming
      <4>1. pc' = [pc EXCEPT ![s] = "join"] /\ UNCHANGED <<end, at, cid, up, conn>>
        BY <3>2 DEF Fault
      <4>2. pc[s] \notin Ended \cup Releasing \cup {"detached"}
        BY <3>2
      <4>. QED
        BY <4>1, <4>2
    <3>3. CASE pc[s] = "answer"
      BY <3>3 DEF Fault
    <3>4. CASE pc[s] \in Releasing
      <4>1. pc' = [pc EXCEPT ![s] = "done"] /\ UNCHANGED <<end, at, cid, up, conn>>
        BY <3>4 DEF Fault
      <4>2. end[s] # "open"
        BY <3>4
      <4>. QED
        BY <4>1, <4>2
    <3>. QED
      BY <3>1, <3>2, <3>3, <3>4 DEF Fault
  <2>22. CASE \E s \in Sockets, n \in Nodes, c \in Conns : Accept(s, n, c)
    BY <2>22 DEF Accept
  <2>23. CASE \E c \in Conns : IdFrame(c)
    BY <2>23 DEF IdFrame, Attached
  <2>24. CASE \E c \in Conns : GameLeaves(c)
    BY <2>24 DEF GameLeaves, Attached
  <2>25. CASE \E c \in Conns : LinkLost(c)
    BY <2>25 DEF LinkLost, Attached
  <2>26. CASE \E n \in Nodes : Hear(n)
    BY <2>26 DEF Hear, CloseGame
  <2>27. CASE \E n \in Nodes : NodeStops(n)
    BY <2>27 DEF NodeStops, Cut, On
  <2>28. CASE \E n \in Nodes : NodeStopped(n)
    BY <2>28 DEF NodeStopped, On
  <2>29. CASE \E n \in Nodes : NodeDies(n)
    BY <2>29 DEF NodeDies, Cut, On
  <2>30. CASE Reap
    BY <2>30 DEF Reap, NoEntry
  <2>31. CASE Silent
    BY <2>31 DEF Silent
  <2>32. CASE Expire
    BY <2>32 DEF Expire, NoEntry
  <2>33. CASE Window
    BY <2>33 DEF Window
  <2>34. CASE UNCHANGED vars
    BY <2>34 DEF vars
  <2>. QED
    BY <2>1, <2>2, <2>3, <2>4, <2>5, <2>6, <2>7, <2>8, <2>9, <2>10, <2>11, <2>12, <2>13, <2>14, <2>15, <2>16, <2>17, <2>18, <2>19, <2>20, <2>21, <2>22, <2>23, <2>24, <2>25, <2>26, <2>27, <2>28, <2>29, <2>30, <2>31, <2>32, <2>33, <2>34 DEF Next, Handler
<1>. QED
  BY <1>1, <1>2, TypeCorrect, PTL DEF Spec

\* No close lets go of an entry whose socket is open, whoever replaced, moved or
\* lost whom; the reaper and the TTL do for a node cut off from Redis only.
THEOREM HolderReleasesHolds == Spec => HolderReleases
<1> USE ConstantsAssumption DEF presence, nodes, games, sock
<1>1. TypeOK /\ Holding /\ [Next]_vars =>
        [conn # NoEntry /\ conn' = NoEntry /\ Open(conn.attach) => UNCHANGED pc /\ CutFromRedis(conn.node)]_vars
  <2> SUFFICES ASSUME TypeOK, Holding, Next, conn # NoEntry, conn' = NoEntry, Open(conn.attach)
               PROVE  UNCHANGED pc /\ CutFromRedis(conn.node)
    OBVIOUS
  <2>1. conn.attach \in Sockets /\ conn.node = at[conn.attach] /\ conn.node \in Nodes
    BY DEF Holding, TypeOK
  <2>2. ASSUME NEW s \in Sockets, Release(s) PROVE FALSE
    BY <2>1, <2>2 DEF Release, Holding, Releasing
  <2>3. up[conn.node] # "down" /\ (pc[conn.attach] \in Ended => pc[conn.attach] = "idle")
    BY <2>1 DEF Holding, Ended
  <2>4. CASE Reap
    BY <2>3, <2>4 DEF Reap, Gone
  <2>5. CASE Expire
    BY <2>1, <2>3, <2>5 DEF Expire, Holding
  <2>6. CASE \E s \in Sockets : Claim(s) \/ Resume(s)
    BY <2>6 DEF Claim, Resume, NoEntry, TypeOK
  <2>7. CASE UNCHANGED conn
    BY <2>7
  <2>. QED
    BY <2>2, <2>4, <2>5, <2>6, <2>7 DEF Next, Handler, ClaimBeat, ClaimOnline, AppendReplaced, AskDisconnect,
       AppendConnected, ResumeBeat, AppendResumed, Join, Answered, Leave, GraceOver, ReleaseBeat, ReleaseWindow,
       ReleaseOnline, AppendDisconnected, Pong, CutOff, Fault, Accept, IdFrame, GameLeaves, LinkLost, Hear,
       NodeStops, NodeStopped, NodeDies, Silent, Window
<1>. QED
  BY <1>1, TypeCorrect, HoldingHolds, PTL DEF Spec, HolderReleases

\* The connection has claimed the player's entry.
Begun(c) ==
    \/ Told("connected", c)
    \/ \E s \in Sockets : cid[s] = c /\ pc[s] \in Claiming \ {"claim"}

Accounted(c) == conn.id = c \/ Told("replaced", c) \/ Told("disconnected", c) \/ Pending(c)

\* With no node failing or losing commands, an entry's handler is still there.
Attended ==
    /\ \A n \in Nodes : up[n] = "up" /\ faults[n] = 0
    /\ conn = NoEntry \/ pc[conn.attach] \notin Ended
    /\ \A c \in Conns : Begun(c) => Accounted(c)

\* With no node failing or losing commands, no connection ends unannounced,
\* however the logins, the moved links and the closes of a player interleave.
THEOREM AnnouncedHolds ==
  ASSUME Failing = {}
  PROVE  Spec => []Announced
<1> USE ConstantsAssumption DEF presence, nodes, games, sock
<1>1. Init => Attended
  BY DEF Init, Attended, Begun, Told, Claiming
<1>2. TypeOK /\ Holding /\ Attended /\ [Next]_vars => Attended'
  <2> SUFFICES ASSUME TypeOK, Holding, Attended, [Next]_vars PROVE Attended'
    OBVIOUS
  <2> USE DEF Attended, Begun, Accounted, Claiming, Told, Pending, Event, Ended, Goto
  <2>a. conn = NoEntry \/ (conn.attach \in Sockets /\ conn.node \in Nodes /\ conn.id = cid[conn.attach])
    BY DEF Holding, TypeOK
  <2>b. \A s \in Sockets : cid[s] \in Conns \cup {None} /\ replaced[s] \in Conns \cup {None}
    BY DEF TypeOK
  <2>1. CASE \E s \in Sockets : Claim(s)
    <3> PICK s \in Sockets : Claim(s)
      BY <2>1
    <3>1. conn'.id = cid[s] /\ conn'.attach = s /\ pc' = [pc EXCEPT ![s] = "beat"] /\ UNCHANGED <<events, cid, up, faults>>
      BY DEF Claim
    <3>2. \A t \in Sockets \ {s} : pc'[t] = pc[t] /\ replaced'[t] = replaced[t]
      BY DEF Claim, TypeOK
    <3>3. conn.id # cid[s] => replaced'[s] = conn.id
      BY DEF Claim, TypeOK
    <3>4. pc[s] = "claim" /\ pc'[s] = "beat"
      BY DEF Claim, TypeOK
    <3>5. ASSUME NEW c \in Conns, Begun(c)' PROVE Accounted(c)'
      <4>1. CASE c = cid[s]
        BY <3>1, <4>1
      <4>2. CASE c # cid[s]
        <5>1. Begun(c)
          BY <3>1, <3>2, <3>4, <3>5, <4>2
        <5>2. Accounted(c)
          BY <5>1
        <5>3. CASE conn.id = c
          BY <3>3, <3>4, <4>2, <5>3
        <5>4. CASE Told("replaced", c) \/ Told("disconnected", c)
          BY <3>1, <5>4
        <5>5. CASE Pending(c)
          BY <3>1, <3>2, <3>4, <5>5
        <5>. QED
          BY <5>2, <5>3, <5>4, <5>5
      <4>. QED
        BY <4>1, <4>2
    <3>. QED
      BY <3>1, <3>4, <3>5
  <2>2. CASE \E s \in Sockets : ClaimBeat(s)
    BY <2>2, <2>a, <2>b DEF ClaimBeat
  <2>3. CASE \E s \in Sockets : ClaimOnline(s)
    BY <2>3, <2>a, <2>b DEF ClaimOnline
  <2>4. CASE \E s \in Sockets : AppendReplaced(s)
    <3> PICK s \in Sockets : AppendReplaced(s)
      BY <2>4
    <3>1. pc[s] = "replaced" /\ pc'[s] = "disconnect" /\ UNCHANGED <<conn, cid, up, replaced, faults>>
      BY DEF AppendReplaced, TypeOK
    <3>2. \A t \in Sockets \ {s} : pc'[t] = pc[t]
      BY DEF AppendReplaced, TypeOK
    <3>3. \A c \in Conns, ty \in {"connected", "replaced", "disconnected"} :
             Told(ty, c)' <=> Told(ty, c) \/ (ty = "replaced" /\ c = replaced[s])
      <4> DEFINE ev == Event("replaced", replaced[s], FALSE)
      <4>1. events' = events \cup {ev} /\ ev.type = "replaced" /\ ev.id = replaced[s]
        BY DEF AppendReplaced
      <4> HIDE DEF ev
      <4>. QED
        BY <4>1
    <3>. QED
      BY <3>1, <3>2, <3>3, <2>a, <2>b DEF Holding, Releasing
  <2>5. CASE \E s \in Sockets : AskDisconnect(s)
    BY <2>5, <2>a, <2>b DEF AskDisconnect
  <2>6. CASE \E s \in Sockets : AppendConnected(s)
    <3> PICK s \in Sockets : AppendConnected(s)
      BY <2>6
    <3>1. pc[s] = "connected" /\ pc'[s] = "join" /\ UNCHANGED <<conn, cid, up, replaced, faults>>
      BY DEF AppendConnected, TypeOK
    <3>2. \A t \in Sockets \ {s} : pc'[t] = pc[t]
      BY DEF AppendConnected, TypeOK
    <3>3. \A c \in Conns, ty \in {"connected", "replaced", "disconnected"} :
             Told(ty, c)' <=> Told(ty, c) \/ (ty = "connected" /\ c = cid[s])
      <4> DEFINE ev == Event("connected", cid[s], FALSE)
      <4>1. events' = events \cup {ev} /\ ev.type = "connected" /\ ev.id = cid[s]
        BY DEF AppendConnected
      <4> HIDE DEF ev
      <4>. QED
        BY <4>1
    <3>. QED
      BY <3>1, <3>2, <3>3, <2>a, <2>b DEF Holding, Releasing
  <2>7. CASE \E s \in Sockets : Resume(s)
    <3> PICK s \in Sockets : Resume(s)
      BY <2>7
    <3>1. pc[s] = "resume" /\ pc'[s] \in {"resumeBeat", "done"} /\ UNCHANGED <<events, cid, up, replaced, faults>>
      BY DEF Resume, TypeOK
    <3>2. \A t \in Sockets \ {s} : pc'[t] = pc[t]
      BY DEF Resume, TypeOK
    <3>3. conn'.id = conn.id
      BY DEF Resume
    <3>4. conn' = NoEntry \/ pc'[conn'.attach] \notin Ended
      <4>1. CASE conn.id = cid[s]
        BY <4>1 DEF Resume, TypeOK
      <4>2. CASE conn.id # cid[s]
        BY <3>1, <3>2, <4>2, <2>a DEF Resume, Holding
      <4>. QED
        BY <4>1, <4>2
    <3>. QED
      BY <3>1, <3>2, <3>3, <3>4
  <2>8. CASE \E s \in Sockets : ResumeBeat(s)
    BY <2>8, <2>a, <2>b DEF ResumeBeat
  <2>9. CASE \E s \in Sockets : AppendResumed(s)
    BY <2>9, <2>a, <2>b DEF AppendResumed
  <2>10. CASE \E s \in Sockets : Join(s)
    BY <2>10, <2>a, <2>b DEF Join, CloseGame
  <2>11. CASE \E s \in Sockets : Answered(s)
    BY <2>11, <2>a, <2>b DEF Answered
  <2>12. CASE \E s \in Sockets : Leave(s)
    <3> PICK s \in Sockets : Leave(s)
      BY <2>12
    <3>1. up[at[s]] = "up" /\ UNCHANGED <<conn, events, cid, up, replaced, faults>>
      BY DEF Leave, TypeOK
    <3>2. pc[s] = "live" /\ pc'[s] \in {"release", "detached"}
      BY <3>1 DEF Leave, TypeOK
    <3>3. \A t \in Sockets \ {s} : pc'[t] = pc[t]
      BY DEF Leave, TypeOK
    <3>. QED
      BY <3>1, <3>2, <3>3, <2>a
  <2>13. CASE \E s \in Sockets : GraceOver(s)
    BY <2>13, <2>a, <2>b DEF GraceOver
  <2>14. CASE \E s \in Sockets : Release(s)
    <3> PICK s \in Sockets : Release(s)
      BY <2>14
    <3>1. pc[s] = "release" /\ pc'[s] \in {"unbeat", "done"} /\ UNCHANGED <<events, cid, up, replaced, faults>>
      BY DEF Release, TypeOK
    <3>2. \A t \in Sockets \ {s} : pc'[t] = pc[t]
      BY DEF Release, TypeOK
    <3>3. CASE conn.id = cid[s] /\ conn.attach = s
      <4>1. pc'[s] = "unbeat" /\ conn' = NoEntry
        BY <3>3 DEF Release, TypeOK
      <4>. QED
        BY <3>1, <3>2, <3>3, <4>1
    <3>4. CASE ~(conn.id = cid[s] /\ conn.attach = s)
      <4>1. conn' = conn
        BY <3>4 DEF Release
      <4>. QED
        BY <3>1, <3>2, <3>4, <4>1, <2>a
    <3>. QED
      BY <3>3, <3>4
  <2>15. CASE \E s \in Sockets : ReleaseBeat(s)
    BY <2>15, <2>a, <2>b DEF ReleaseBeat
  <2>16. CASE \E s \in Sockets : ReleaseWindow(s)
    BY <2>16, <2>a, <2>b DEF ReleaseWindow
  <2>17. CASE \E s \in Sockets : ReleaseOnline(s)
    BY <2>17, <2>a, <2>b DEF ReleaseOnline
  <2>18. CASE \E s \in Sockets : AppendDisconnected(s)
    <3> PICK s \in Sockets : AppendDisconnected(s)
      BY <2>18
    <3>1. pc[s] = "disconnected" /\ pc'[s] = "done" /\ UNCHANGED <<conn, cid, up, replaced, faults>>
      BY DEF AppendDisconnected, TypeOK
    <3>2. \A t \in Sockets \ {s} : pc'[t] = pc[t]
      BY DEF AppendDisconnected, TypeOK
    <3>3. \A c \in Conns, ty \in {"connected", "replaced", "disconnected"} :
             Told(ty, c)' <=> Told(ty, c) \/ (ty = "disconnected" /\ c = cid[s])
      <4> DEFINE ev == Event("disconnected", cid[s], Reaped(s))
      <4>1. events' = events \cup {ev} /\ ev.type = "disconnected" /\ ev.id = cid[s]
        BY DEF AppendDisconnected
      <4> HIDE DEF ev
      <4>. QED
        BY <4>1
    <3>. QED
      BY <3>1, <3>2, <3>3, <2>a, <2>b DEF Holding, Releasing
  <2>19. CASE \E s \in Sockets : Pong(s)
    BY <2>19, <2>a, <2>b DEF Pong
  <2>20. CASE \E s \in Sockets : CutOff(s)
    BY <2>20, <2>a, <2>b DEF CutOff, CloseGame
  <2>21. CASE \E s \in Sockets : Fault(s)
    BY <2>21 DEF Fault
  <2>22. CASE \E s \in Sockets, n \in Nodes, c \in Conns : Accept(s, n, c)
    BY <2>22, <2>a, <2>b DEF Accept
  <2>23. CASE \E c \in Conns : IdFrame(c)
    BY <2>23, <2>a, <2>b DEF IdFrame, Attached
  <2>24. CASE \E c \in Conns : GameLeaves(c)
    BY <2>24, <2>a, <2>b DEF GameLeaves, Attached
  <2>25. CASE \E c \in Conns : LinkLost(c)
    BY <2>25, <2>a, <2>b DEF LinkLost, Attached
  <2>26. CASE \E n \in Nodes : Hear(n)
    BY <2>26, <2>a, <2>b DEF Hear, CloseGame
  <2>27. CASE \E n \in Nodes : NodeStops(n)
    BY <2>27, <2>a, <2>b DEF NodeStops, Cut, On
  <2>28. CASE \E n \in Nodes : NodeStopped(n)
    BY <2>28, <2>a, <2>b DEF NodeStopped, On
  <2>29. CASE \E n \in Nodes : NodeDies(n)
    BY <2>29, <2>a, <2>b DEF NodeDies, Cut, On
  <2>30. CASE Reap
    BY <2>30, <2>a, <2>b, ~(0 > 0) DEF Reap, NoEntry, Gone, CutFromRedis
  <2>31. CASE Silent
    BY <2>31, <2>a, <2>b DEF Silent
  <2>32. CASE Expire
    BY <2>32, <2>a, <2>b, ~(0 > 0) DEF Expire, NoEntry, CutFromRedis
  <2>33. CASE Window
    BY <2>33, <2>a, <2>b DEF Window
  <2>34. CASE UNCHANGED vars
    BY <2>34, <2>a, <2>b DEF vars
  <2>. QED
    BY <2>1, <2>2, <2>3, <2>4, <2>5, <2>6, <2>7, <2>8, <2>9, <2>10, <2>11, <2>12, <2>13, <2>14, <2>15, <2>16, <2>17, <2>18, <2>19, <2>20, <2>21, <2>22, <2>23, <2>24, <2>25, <2>26, <2>27, <2>28, <2>29, <2>30, <2>31, <2>32, <2>33, <2>34 DEF Next, Handler
<1>3. Attended => Announced
  BY DEF Attended, Announced, Begun, Accounted
<1>. QED
  BY <1>1, <1>2, <1>3, TypeCorrect, HoldingHolds, PTL DEF Spec
=============================================================================
