--------------------------- MODULE DeliveryProofs ---------------------------
(***************************************************************************)
(* Theorems about Delivery, for any nodes, links and log: its types, and    *)
(* that what it delivers is a Feed.                                         *)
(***************************************************************************)
EXTENDS Delivery, SequenceTheorems, TLAPS

-----------------------------------------------------------------------------
(* Sequences. *)

LEMMA Appended ==
  ASSUME NEW S, NEW s \in Seq(S), NEW e \in S
  PROVE  /\ Append(s, e) \in Seq(S) /\ Len(s) \in Nat /\ Len(Append(s, e)) = Len(s) + 1
         /\ DOMAIN s = 1 .. Len(s) /\ DOMAIN Append(s, e) = 1 .. Len(s) + 1
         /\ \A i \in 1 .. Len(s) : Append(s, e)[i] = s[i]
         /\ Append(s, e)[Len(s) + 1] = e
OBVIOUS

LEMMA Tailed ==
  ASSUME NEW S, NEW s \in Seq(S), s # <<>>
  PROVE  /\ Tail(s) \in Seq(S) /\ Len(s) \in Nat /\ Len(s) >= 1 /\ Len(Tail(s)) = Len(s) - 1
         /\ Head(s) = s[1] /\ s[1] \in S
         /\ DOMAIN s = 1 .. Len(s) /\ DOMAIN Tail(s) = 1 .. Len(s) - 1
         /\ \A i \in 1 .. Len(s) - 1 : Tail(s)[i] = s[i + 1]
BY HeadTailProperties, EmptySeq, LenProperties

-----------------------------------------------------------------------------
(* Types. *)

Logged   == 1 .. Len(log)
Messages == {m \in Logged : log[m] = "message"}
Others   == Logged \ Messages
Applying == {m \in Logged : log[m] # "other"}
Frames   == [kind : {"position", "id", "logged", "close"}, id : 0 .. Len(log)]

EntriesOK ==
    /\ log \in Seq(Kinds) /\ Len(log) <= MaxEntries
    /\ send \in [Nodes -> Seq(Messages)]
    /\ close \in [Nodes -> Seq(Others)]
HandlersOK ==
    /\ pc \in [Links -> Ended \cup {"claim", "greet", "resume", "read", "replay", "drain", "live"}]
    /\ at \in [Links -> Nodes \cup {None}]
    /\ \A k \in Links : pc[k] \notin Ended => at[k] \in Nodes
    /\ current \in [Nodes -> Links \cup {None}]
    /\ up \subseteq Nodes
EdgeOK ==
    /\ link \in Links \cup {None}
    /\ cursor \in 0 .. Len(log)
    /\ greeted \in BOOLEAN
    /\ got \in Seq(Logged)
    /\ game \in {"open", "closed"}
QueueOK ==
    /\ {last, pos, upto, floor} \subseteq 0 .. Len(log)
    /\ held \in Seq(Applying)
    /\ out \in Seq(Frames)
    /\ closing \in BOOLEAN
    /\ faults \in 0 .. MaxFaults

\* EndReplay's loop has something to look at.
DrainOK == link # None /\ pc[link] = "drain" => held # <<>>

Typed == EntriesOK /\ HandlersOK /\ EdgeOK /\ QueueOK /\ DrainOK

LEMMA TypedType == Typed => TypeOK
<1> SUFFICES ASSUME Typed PROVE TypeOK
  OBVIOUS
<1>1. MaxEntries \in Nat /\ Len(log) \in Nat /\ Len(log) <= MaxEntries
  BY ConstantsAssumption DEF Typed, EntriesOK
<1>2. Messages \subseteq Ids /\ Others \subseteq Ids /\ Applying \subseteq Ids /\ Logged \subseteq Ids /\ Frames \subseteq FrameType
  BY <1>1 DEF Messages, Others, Applying, Logged, Ids, Frames, FrameType
<1>3. Seq(Messages) \subseteq Seq(Ids) /\ Seq(Others) \subseteq Seq(Ids) /\ Seq(Applying) \subseteq Seq(Ids) /\ Seq(Logged) \subseteq Seq(Ids)
  BY <1>2, SeqMonotonic
<1>4. Seq(Frames) \subseteq Seq(FrameType)
  BY <1>2, SeqMonotonic
<1>5. send \in [Nodes -> Seq(Ids)] /\ close \in [Nodes -> Seq(Ids)]
  BY <1>3 DEF Typed, EntriesOK
<1>6. 0 .. Len(log) \subseteq 0 .. MaxEntries
  BY <1>1
<1>. QED
  BY <1>3, <1>4, <1>5, <1>6 DEF Typed, TypeOK, EntriesOK, HandlersOK, EdgeOK, QueueOK

LEMMA TypedInit == Init => Typed
<1> SUFFICES ASSUME Init PROVE Typed
  OBVIOUS
<1>0. Len(log) = 0
  BY DEF Init
<1>e. \A S : <<>> \in Seq(S)
  BY EmptySeq
<1>1. 0 \in 0 .. Len(log) /\ 0 \in 0 .. MaxFaults /\ Len(log) <= MaxEntries
  BY <1>0, ConstantsAssumption
<1>2. got \in Seq(Logged) /\ held \in Seq(Applying) /\ out \in Seq(Frames) /\ log \in Seq(Kinds)
  BY <1>e DEF Init
<1>3. send \in [Nodes -> Seq(Messages)] /\ close \in [Nodes -> Seq(Others)]
  BY <1>e DEF Init
<1>4. HandlersOK
  BY DEF Init, HandlersOK, Ended
<1>5. last = 0 /\ pos = 0 /\ upto = 0 /\ floor = 0 /\ cursor = 0 /\ faults = 0 /\ link = None /\ greeted = FALSE /\ closing = FALSE /\ game = "open"
  BY DEF Init
<1>. QED
  BY <1>1, <1>2, <1>3, <1>4, <1>5 DEF Typed, EntriesOK, EdgeOK, QueueOK, DrainOK

LEMMA LogSame ==
  ASSUME log' = log
  PROVE  Logged' = Logged /\ Messages' = Messages /\ Others' = Others /\ Applying' = Applying /\ Frames' = Frames
BY DEF Logged, Messages, Others, Applying, Frames

\* An entry is what it was, and the new one is the last.
LEMMA LogGrows ==
  ASSUME Typed, NEW kind \in Kinds, Send(kind)
  PROVE  /\ Len(log') = Len(log) + 1 /\ Len(log) \in Nat /\ \A m \in Logged : log'[m] = log[m]
         /\ Logged' = Logged \cup {Len(log')} /\ Len(log') \notin Logged /\ log'[Len(log')] = kind
         /\ Messages' = IF kind = "message" THEN Messages \cup {Len(log')} ELSE Messages
         /\ Others' = IF kind = "message" THEN Others ELSE Others \cup {Len(log')}
         /\ Applying \subseteq Applying' /\ Frames \subseteq Frames'
<1>1. log \in Seq(Kinds) /\ log' = Append(log, kind)
  BY DEF Typed, EntriesOK, Send
<1>2. /\ Len(log') = Len(log) + 1 /\ Len(log) \in Nat /\ \A m \in 1 .. Len(log) : log'[m] = log[m]
      /\ log'[Len(log) + 1] = kind
  BY <1>1, Appended
<1>3. Logged' = Logged \cup {Len(log')} /\ Len(log') \notin Logged /\ \A m \in Logged : log'[m] = log[m]
  BY <1>2 DEF Logged
<1>4. Messages' = IF kind = "message" THEN Messages \cup {Len(log')} ELSE Messages
  BY <1>2, <1>3 DEF Messages
<1>5. Others' = IF kind = "message" THEN Others ELSE Others \cup {Len(log')}
  BY <1>3, <1>4 DEF Others, Messages
<1>6. Applying \subseteq Applying' /\ Frames \subseteq Frames'
  BY <1>2, <1>3 DEF Applying, Frames
<1>. QED
  BY <1>2, <1>3, <1>4, <1>5, <1>6

\* What is logged is published; what a node handles is gone.
LEMMA EntriesStep ==
  ASSUME Typed, [Next]_vars
  PROVE  EntriesOK' /\ (log' = log \/ \E kind \in Kinds : Send(kind))
<1>e. send \in [Nodes -> Seq(Messages)] /\ close \in [Nodes -> Seq(Others)]
  BY DEF Typed, EntriesOK
<1>u. ASSUME log' = log, send' \in [Nodes -> Seq(Messages)], close' \in [Nodes -> Seq(Others)] PROVE EntriesOK' /\ log' = log
  BY <1>u, LogSame DEF Typed, EntriesOK
<1>n. UNCHANGED entries => EntriesOK' /\ log' = log
  BY <1>e, <1>u DEF entries
<1>1. ASSUME NEW kind \in Kinds, Send(kind) PROVE EntriesOK'
  <2>1. log' \in Seq(Kinds) /\ Len(log') <= MaxEntries
    BY <1>1, LogGrows, ConstantsAssumption DEF Send, Typed, EntriesOK
  <2>g. Messages \subseteq Messages' /\ Others \subseteq Others' /\ Len(log') = Len(log) + 1
    BY <1>1, LogGrows
  <2>s. Seq(Messages) \subseteq Seq(Messages') /\ Seq(Others) \subseteq Seq(Others')
    BY <2>g, SeqMonotonic
  <2>2. CASE kind = "message"
    <3>1. Len(log) + 1 \in Messages'
      BY <1>1, <2>2, <2>g, LogGrows
    <3>2. close' = close /\ send' = [n \in Nodes |-> IF n \in up THEN Append(send[n], Len(log) + 1) ELSE send[n]]
      BY <1>1, <2>2 DEF Send
    <3>3. ASSUME NEW n \in Nodes PROVE send'[n] \in Seq(Messages')
      <4>1. send[n] \in Seq(Messages')
        BY <1>e, <2>s
      <4>. QED
        BY <3>1, <3>2, <4>1, Appended
    <3>4. send' \in [Nodes -> Seq(Messages')]
      BY <3>2, <3>3
    <3>. QED
      BY <1>e, <2>1, <2>s, <3>2, <3>4 DEF EntriesOK
  <2>3. CASE kind # "message"
    <3>1. Len(log) + 1 \in Others'
      BY <1>1, <2>3, <2>g, LogGrows
    <3>2. send' = send /\ close' = [n \in Nodes |-> IF n \in up THEN Append(close[n], Len(log) + 1) ELSE close[n]]
      BY <1>1, <2>3 DEF Send
    <3>3. ASSUME NEW n \in Nodes PROVE close'[n] \in Seq(Others')
      <4>1. close[n] \in Seq(Others')
        BY <1>e, <2>s
      <4>. QED
        BY <3>1, <3>2, <4>1, Appended
    <3>4. close' \in [Nodes -> Seq(Others')]
      BY <3>2, <3>3
    <3>. QED
      BY <1>e, <2>1, <2>s, <3>2, <3>4 DEF EntriesOK
  <2>. QED
    BY <2>2, <2>3
<1>2. ASSUME NEW n \in Nodes, Deliver(n) PROVE EntriesOK' /\ log' = log
  <2>1. send[n] # <<>> /\ send' = [send EXCEPT ![n] = Tail(send[n])] /\ close' = close /\ log' = log
    BY <1>2 DEF Deliver
  <2>2. Tail(send[n]) \in Seq(Messages)
    BY <1>e, <2>1, Tailed
  <2>. QED
    BY <1>e, <1>u, <2>1, <2>2
<1>3. ASSUME NEW n \in Nodes, Disconnect(n) PROVE EntriesOK' /\ log' = log
  <2>1. close[n] # <<>> /\ close' = [close EXCEPT ![n] = Tail(close[n])] /\ send' = send /\ log' = log
    BY <1>3 DEF Disconnect
  <2>2. Tail(close[n]) \in Seq(Others)
    BY <1>e, <2>1, Tailed
  <2>. QED
    BY <1>e, <1>u, <2>1, <2>2
<1>4. ASSUME NEW n \in Nodes, NodeDies(n) PROVE EntriesOK' /\ log' = log
  <2>1. send' = [send EXCEPT ![n] = <<>>] /\ close' = [close EXCEPT ![n] = <<>>] /\ log' = log
    BY <1>4 DEF NodeDies
  <2>2. <<>> \in Seq(Messages) /\ <<>> \in Seq(Others)
    BY EmptySeq
  <2>. QED
    BY <1>e, <1>u, <2>1, <2>2
<1>5. ASSUME NEW k \in Links, Handler(k) \/ ClaimFails(k) PROVE UNCHANGED entries
  BY <1>5 DEF Handler, Claim, Greet, Resume, Read, Replay, EndReplay, Drain, Leave, ClaimFails
<1>6. ASSUME NEW k \in Links, NEW n \in Nodes, Attach(k, n) PROVE UNCHANGED entries
  BY <1>6 DEF Attach
<1>7. Receive \/ ReceiveClose \/ LinkLost \/ GameLeaves \/ UNCHANGED vars => UNCHANGED entries
  BY DEF Receive, ReceiveClose, LinkLost, GameLeaves, vars
<1>. QED
  BY <1>1, <1>2, <1>3, <1>4, <1>5, <1>6, <1>7, <1>n DEF Next

LEMMA NoneIsNone == None \notin Links /\ None \notin Nodes /\ None \notin Nat /\ Links \subseteq Nat
BY ConstantsAssumption DEF Links

LEMMA HandlersStep ==
  ASSUME Typed, [Next]_vars
  PROVE  HandlersOK'
<1> DEFINE Steps == Ended \cup {"claim", "greet", "resume", "read", "replay", "drain", "live"}
<1>h. /\ pc \in [Links -> Steps] /\ at \in [Links -> Nodes \cup {None}] /\ current \in [Nodes -> Links \cup {None}] /\ up \subseteq Nodes
      /\ \A k \in Links : pc[k] \notin Ended => at[k] \in Nodes
  BY DEF Typed, HandlersOK
<1>u. UNCHANGED handlers => HandlersOK'
  BY <1>h DEF handlers, HandlersOK
<1>g. ASSUME NEW k \in Links, NEW step \in Steps, Goto(k, step), at' = at, current' \in [Nodes -> Links \cup {None}], up' = up,
             pc[k] \notin Ended
      PROVE  HandlersOK'
  <2>1. pc' = [pc EXCEPT ![k] = step] /\ pc' \in [Links -> Steps]
    BY <1>h, <1>g DEF Goto
  <2>2. \A j \in Links : pc'[j] \notin Ended => at[j] \in Nodes
    BY <1>h, <1>g, <2>1
  <2>. QED
    BY <1>h, <1>g, <2>1, <2>2 DEF HandlersOK
<1>1. ASSUME NEW kind \in Kinds, Send(kind) PROVE UNCHANGED handlers
  BY <1>1 DEF Send
<1>2. ASSUME NEW n \in Nodes, Deliver(n) \/ Disconnect(n) PROVE UNCHANGED handlers
  BY <1>2 DEF Deliver, Disconnect
<1>3. ASSUME NEW n \in Nodes, NodeDies(n) PROVE HandlersOK'
  <2>1. /\ pc' = [k \in Links |-> IF at[k] = n THEN "done" ELSE pc[k]] /\ at' = at
        /\ current' = [current EXCEPT ![n] = None] /\ up' = up \ {n}
    BY <1>3 DEF NodeDies
  <2>2. pc' \in [Links -> Steps] /\ \A k \in Links : pc'[k] \notin Ended => at[k] \in Nodes
    BY <1>h, <2>1 DEF Ended
  <2>. QED
    BY <1>h, <2>1, <2>2 DEF HandlersOK
<1>4. ASSUME NEW k \in Links, Claim(k) \/ ClaimFails(k) \/ Read(k) \/ EndReplay(k) \/ Drain(k) PROVE HandlersOK'
  <2>1. at' = at /\ current' = current /\ up' = up /\ pc[k] \in {"claim", "read", "replay", "drain"}
    BY <1>4 DEF Claim, ClaimFails, Read, EndReplay, Drain
  <2>2. \E step \in Steps : Goto(k, step)
    BY <1>4 DEF Claim, ClaimFails, Read, EndReplay, Drain
  <2>. QED
    BY <1>g, <1>h, <2>1, <2>2 DEF Ended
<1>5. ASSUME NEW k \in Links, Greet(k) \/ Resume(k) PROVE HandlersOK'
  <2>1. at' = at /\ up' = up /\ current' = [current EXCEPT ![at[k]] = k] /\ pc[k] \in {"greet", "resume"}
    BY <1>5 DEF Greet, Resume, Join
  <2>2. \E step \in Steps : Goto(k, step)
    BY <1>5 DEF Greet, Resume
  <2>3. current' \in [Nodes -> Links \cup {None}]
    BY <1>h, <2>1
  <2>. QED
    BY <1>g, <2>1, <2>2, <2>3 DEF Ended
<1>6. ASSUME NEW k \in Links, Leave(k) PROVE HandlersOK'
  <2>1. /\ at' = at /\ up' = up /\ current' = [n \in Nodes |-> IF current[n] = k THEN None ELSE current[n]]
        /\ pc[k] = "live" /\ Goto(k, "done")
    BY <1>6 DEF Leave
  <2>2. current' \in [Nodes -> Links \cup {None}]
    BY <1>h, <2>1
  <2>. QED
    BY <1>g, <2>1, <2>2 DEF Ended
<1>7. ASSUME NEW k \in Links, Replay(k) PROVE UNCHANGED handlers
  BY <1>7 DEF Replay
<1>8. ASSUME NEW k \in Links, NEW n \in Nodes, Attach(k, n) PROVE HandlersOK'
  <2>1. /\ at' = [at EXCEPT ![k] = n] /\ current' = current /\ up' = up
        /\ \E step \in {"resume", "claim"} : pc' = [pc EXCEPT ![k] = step]
    BY <1>8 DEF Attach, Goto
  <2>2. pc' \in [Links -> Steps] /\ at' \in [Links -> Nodes \cup {None}] /\ \A j \in Links : pc'[j] \notin Ended => at'[j] \in Nodes
    BY <1>h, <2>1
  <2>. QED
    BY <1>h, <2>1, <2>2 DEF HandlersOK
<1>9. Receive \/ ReceiveClose \/ LinkLost \/ GameLeaves \/ UNCHANGED vars => UNCHANGED handlers
  BY DEF Receive, ReceiveClose, LinkLost, GameLeaves, vars
<1>. QED
  BY <1>u, <1>1, <1>2, <1>3, <1>4, <1>5, <1>6, <1>7, <1>8, <1>9 DEF Next, Handler

\* The frames the edge reads are of the log.
LEMMA EdgeStep ==
  ASSUME Typed, [Next]_vars
  PROVE  EdgeOK'
<1>e. link \in Links \cup {None} /\ cursor \in 0 .. Len(log) /\ greeted \in BOOLEAN /\ got \in Seq(Logged) /\ game \in {"open", "closed"}
  BY DEF Typed, EdgeOK
<1>l. Len(log) \in Nat /\ out \in Seq(Frames)
  BY DEF Typed, EntriesOK, QueueOK
<1>u. ASSUME log' = log, link' \in Links \cup {None}, UNCHANGED <<cursor, greeted, got>>, game' \in {"open", "closed"} PROVE EdgeOK'
  BY <1>e, <1>u, LogSame DEF EdgeOK
<1>1. ASSUME NEW kind \in Kinds, Send(kind) PROVE EdgeOK'
  <2>1. Len(log') = Len(log) + 1 /\ Logged \subseteq Logged' /\ UNCHANGED <<link, cursor, greeted, got, game>>
    BY <1>1, LogGrows DEF Send, edge
  <2>2. got \in Seq(Logged')
    BY <1>e, <2>1, SeqMonotonic
  <2>. QED
    BY <1>e, <1>l, <2>1, <2>2 DEF EdgeOK
<1>2. ASSUME NEW n \in Nodes, Deliver(n) \/ Disconnect(n) PROVE EdgeOK'
  BY <1>2, <1>e, <1>u DEF Deliver, Disconnect, edge
<1>3. ASSUME NEW n \in Nodes, NodeDies(n) PROVE EdgeOK'
  BY <1>3, <1>e, <1>u DEF NodeDies, LetGo
<1>4. ASSUME NEW k \in Links, Handler(k) \/ ClaimFails(k) PROVE UNCHANGED <<edge, log>>
  BY <1>4 DEF Handler, Claim, ClaimFails, Greet, Resume, Read, Replay, EndReplay, Drain, Leave, entries
<1>5. ASSUME NEW k \in Links, NEW n \in Nodes, Attach(k, n) PROVE EdgeOK'
  BY <1>5, <1>e, <1>u DEF Attach, entries
<1>6. ASSUME Receive PROVE EdgeOK'
  <2>1. log' = log /\ link' = link /\ game' = game
    BY <1>6 DEF Receive, entries
  <2>2. Head(out) \in Frames
    BY <1>6, <1>l, Tailed DEF Receive
  <2>3. Head(out).id \in 0 .. Len(log)
    BY <2>2 DEF Frames
  <2>4. cursor' \in 0 .. Len(log) /\ greeted' \in BOOLEAN
    BY <1>6, <1>e, <2>3 DEF Receive
  <2>5. got' \in Seq(Logged)
    <3>1. CASE Head(out).id > cursor
      <4>1. Head(out).id \in Logged
        BY <1>e, <1>l, <2>3, <3>1 DEF Logged
      <4>2. got' = got \/ got' = Append(got, Head(out).id)
        BY <1>6 DEF Receive
      <4>. QED
        BY <1>e, <4>1, <4>2, Appended
    <3>2. CASE ~(Head(out).id > cursor)
      BY <1>6, <1>e, <3>2 DEF Receive
    <3>. QED
      BY <3>1, <3>2
  <2>. QED
    BY <1>e, <2>1, <2>4, <2>5, LogSame DEF EdgeOK
<1>7. ASSUME ReceiveClose \/ LinkLost \/ GameLeaves PROVE EdgeOK'
  BY <1>7, <1>e, <1>u DEF ReceiveClose, LinkLost, GameLeaves, LetGo, entries
<1>8. UNCHANGED vars => UNCHANGED <<edge, log>>
  BY DEF vars, entries
<1>9. UNCHANGED <<edge, log>> => EdgeOK'
  BY <1>e, <1>u DEF edge
<1>. QED
  BY <1>1, <1>2, <1>3, <1>4, <1>5, <1>6, <1>7, <1>8, <1>9 DEF Next

\* What is queued is a frame of an entry of the log.
LEMMA Queues ==
  ASSUME Typed
  PROVE  /\ \A id \in Logged : QueueMessage(id) \/ DeliverNow(id) =>
               last' \in 0 .. Len(log) /\ out' \in Seq(Frames) /\ closing' \in BOOLEAN
         /\ QueueClose => out' \in Seq(Frames) /\ closing' \in BOOLEAN
<1>q. last \in 0 .. Len(log) /\ out \in Seq(Frames) /\ closing \in BOOLEAN /\ Len(log) \in Nat
  BY DEF Typed, QueueOK, EntriesOK
<1>1. ASSUME NEW id \in Logged PROVE id \in 0 .. Len(log) /\ Append(out, Frame("logged", id)) \in Seq(Frames)
  <2>1. id \in 0 .. Len(log)
    BY DEF Logged
  <2>2. Frame("logged", id) \in Frames
    BY <2>1 DEF Frame, Frames
  <2>. QED
    BY <1>q, <2>1, <2>2, Appended
<1>2. Append(out, Frame("close", 0)) \in Seq(Frames)
  <2>1. Frame("close", 0) \in Frames
    BY <1>q DEF Frame, Frames
  <2>. QED
    BY <1>q, <2>1, Appended
<1>. QED
  BY <1>q, <1>1, <1>2 DEF QueueMessage, DeliverNow, QueueClose

LEMMA QueueStep ==
  ASSUME Typed, [Next]_vars
  PROVE  QueueOK'
<1> DEFINE Upto == 0 .. Len(log)
<1>q. /\ last \in Upto /\ pos \in Upto /\ upto \in Upto /\ floor \in Upto /\ Len(log) \in Nat
      /\ held \in Seq(Applying) /\ out \in Seq(Frames) /\ closing \in BOOLEAN /\ faults \in 0 .. MaxFaults
  BY DEF Typed, QueueOK, EntriesOK
<1>z. 0 \in Upto /\ Len(log) \in Upto /\ cursor \in Upto
  BY <1>q DEF Typed, EdgeOK
<1>e. \A S : <<>> \in Seq(S)
  BY EmptySeq
<1>i. Messages \subseteq Logged /\ Messages \subseteq Applying /\ \A m \in Others : log[m] # "other" => m \in Applying
  BY DEF Messages, Logged, Applying, Others
<1>u. ASSUME log' = log, last' \in Upto, pos' \in Upto, upto' \in Upto, floor' \in Upto, held' \in Seq(Applying), out' \in Seq(Frames),
             closing' \in BOOLEAN, faults' \in 0 .. MaxFaults
      PROVE  QueueOK'
  BY <1>u, LogSame DEF QueueOK
<1>n. UNCHANGED <<log, queue, floor, faults>> => QueueOK'
  BY <1>q, <1>u DEF queue
<1>l. LetGo => /\ last' \in Upto /\ pos' \in Upto /\ upto' \in Upto /\ held' \in Seq(Applying) /\ out' \in Seq(Frames)
               /\ closing' \in BOOLEAN
  BY <1>z, <1>e DEF LetGo
<1>1. ASSUME NEW kind \in Kinds, Send(kind) PROVE QueueOK'
  <2>1. Len(log') = Len(log) + 1 /\ Applying \subseteq Applying' /\ Frames \subseteq Frames' /\ UNCHANGED <<queue, floor, faults>>
    BY <1>1, LogGrows DEF Send
  <2>2. held \in Seq(Applying') /\ out \in Seq(Frames')
    BY <1>q, <2>1, SeqMonotonic
  <2>3. Upto \subseteq 0 .. Len(log')
    BY <1>q, <2>1
  <2>. QED
    BY <1>q, <2>1, <2>2, <2>3 DEF QueueOK, queue
<1>2. ASSUME NEW n \in Nodes, Deliver(n) PROVE QueueOK'
  <2>1. send[n] \in Seq(Messages) /\ send[n] # <<>>
    BY <1>2 DEF Deliver, Typed, EntriesOK
  <2>2. Head(send[n]) \in Logged /\ Append(held, Head(send[n])) \in Seq(Applying)
    BY <1>i, <1>q, <2>1, Tailed, Appended
  <2>3. UNCHANGED <<log, pos, upto, floor, faults>> /\ (UNCHANGED <<last, out, closing>> \/ DeliverNow(Head(send[n])))
        /\ (held' = held \/ held' = Append(held, Head(send[n])))
    BY <1>2 DEF Deliver
  <2>. QED
    BY <1>q, <1>u, <2>2, <2>3, Queues
<1>3. ASSUME NEW n \in Nodes, Disconnect(n) PROVE QueueOK'
  <2>1. close[n] \in Seq(Others) /\ close[n] # <<>>
    BY <1>3 DEF Disconnect, Typed, EntriesOK
  <2>2. log[Head(close[n])] # "other" => Append(held, Head(close[n])) \in Seq(Applying)
    BY <1>i, <1>q, <2>1, Tailed, Appended
  <2>3. UNCHANGED <<log, last, pos, upto, floor, faults>> /\ (UNCHANGED <<out, closing>> \/ QueueClose)
        /\ (held' = held \/ (log[Head(close[n])] # "other" /\ held' = Append(held, Head(close[n]))))
    BY <1>3 DEF Disconnect
  <2>. QED
    BY <1>q, <1>u, <2>2, <2>3, Queues
<1>4. ASSUME NEW n \in Nodes, NodeDies(n) PROVE QueueOK'
  BY <1>4, <1>l, <1>n, <1>q, <1>u DEF NodeDies, queue
<1>5. ASSUME NEW k \in Links, Claim(k) PROVE QueueOK'
  BY <1>5, <1>q, <1>u, <1>z DEF Claim, entries
<1>6. ASSUME NEW k \in Links, ClaimFails(k) PROVE QueueOK'
  BY <1>6, <1>q, <1>u, ConstantsAssumption DEF ClaimFails, entries, queue
<1>j. ASSUME NEW k \in Links, Join(k) PROVE out' \in Seq(Frames) /\ closing' \in BOOLEAN
  BY <1>j, <1>q, Queues DEF Join
<1>7. ASSUME NEW k \in Links, Greet(k) PROVE QueueOK'
  <2>1. UNCHANGED <<log, last, pos, upto, held, faults>> /\ floor' \in Upto
    BY <1>7, <1>q, <1>z DEF Greet, entries
  <2>2. out' \in Seq(Frames) /\ closing' \in BOOLEAN
    <3>1. CASE k = link
      <4>1. Frame("position", last) \in Frames /\ Frame("id", 0) \in Frames
        BY <1>q, <1>z DEF Frame, Frames
      <4>2. <<Frame("position", last), Frame("id", 0)>> \in Seq(Frames)
        BY <4>1
      <4>. QED
        BY <1>7, <1>q, <3>1, <4>2 DEF Greet
    <3>2. CASE k # link
      BY <1>7, <1>j, <3>2 DEF Greet
    <3>. QED
      BY <3>1, <3>2
  <2>. QED
    BY <1>q, <1>u, <2>1, <2>2
<1>8. ASSUME NEW k \in Links, Resume(k) PROVE QueueOK'
  <2>1. UNCHANGED <<log, upto, held, floor, faults>> /\ last' \in Upto /\ pos' \in Upto /\ Join(k)
    BY <1>8, <1>q, <1>z DEF Resume, entries
  <2>. QED
    BY <1>j, <1>q, <1>u, <2>1
<1>9. ASSUME NEW k \in Links, Read(k) PROVE QueueOK'
  BY <1>9, <1>q, <1>u, <1>z DEF Read, entries
<1>10. ASSUME NEW k \in Links, Replay(k) PROVE QueueOK'
  <2>1. UNCHANGED <<log, held, floor, faults>> /\ pos' = pos + 1 /\ pos < upto /\ (upto' = upto \/ upto' = pos + 1)
    BY <1>10 DEF Replay, entries
  <2>2. pos + 1 \in Logged /\ pos + 1 \in Upto
    BY <1>q, <2>1 DEF Logged
  <2>3. QueueMessage(pos + 1) \/ (QueueClose /\ UNCHANGED last) \/ UNCHANGED <<last, out, closing>>
    BY <1>10 DEF Replay
  <2>. QED
    BY <1>q, <1>u, <2>1, <2>2, <2>3, Queues
<1>11. ASSUME NEW k \in Links, EndReplay(k) \/ Leave(k) PROVE UNCHANGED <<log, queue, floor, faults>>
  BY <1>11 DEF EndReplay, Leave, entries
<1>12. ASSUME NEW k \in Links, Drain(k) PROVE QueueOK'
  <2>1. UNCHANGED <<log, pos, upto, floor, faults>>
    BY <1>12 DEF Drain, entries
  <2>2. CASE k # link
    BY <1>12, <1>q, <1>u, <2>1, <2>2 DEF Drain
  <2>3. CASE k = link
    <3>1. held # <<>>
      BY <1>12, <2>3, NoneIsNone DEF Typed, DrainOK, Drain
    <3>2. Head(held) \in Logged /\ Tail(held) \in Seq(Applying) /\ held' = Tail(held)
      BY <1>12, <1>q, <2>3, <3>1, Tailed DEF Drain, Applying
    <3>3. UNCHANGED <<last, out, closing>> \/ (QueueClose /\ UNCHANGED last) \/ DeliverNow(Head(held))
      BY <1>12, <2>3 DEF Drain
    <3>. QED
      BY <1>q, <1>u, <2>1, <3>2, <3>3, Queues
  <2>. QED
    BY <2>2, <2>3
<1>13. ASSUME NEW k \in Links, NEW n \in Nodes, Attach(k, n) PROVE UNCHANGED <<log, queue, floor, faults>>
  BY <1>13 DEF Attach, entries
<1>14. ASSUME Receive PROVE QueueOK'
  <2>1. UNCHANGED <<log, last, pos, upto, held, closing, floor, faults>> /\ out' = Tail(out) /\ out # <<>>
    BY <1>14 DEF Receive, entries
  <2>. QED
    BY <1>q, <1>u, <2>1, Tailed
<1>15. ASSUME ReceiveClose \/ LinkLost \/ GameLeaves PROVE QueueOK'
  BY <1>15, <1>l, <1>q, <1>u DEF ReceiveClose, LinkLost, GameLeaves, entries
<1>16. UNCHANGED vars => UNCHANGED <<log, queue, floor, faults>>
  BY DEF vars, entries
<1>. QED
  BY <1>n, <1>1, <1>2, <1>3, <1>4, <1>5, <1>6, <1>7, <1>8, <1>9, <1>10, <1>11, <1>12, <1>13, <1>14, <1>15, <1>16 DEF Next, Handler

\* EndReplay's loop ends when nothing is held, and none is dropped on the way.
LEMMA DrainStep ==
  ASSUME Typed, [Next]_vars
  PROVE  DrainOK'
<1>d. DrainOK /\ pc \in [Links -> Ended \cup {"claim", "greet", "resume", "read", "replay", "drain", "live"}] /\ link \in Links \cup {None}
  BY DEF Typed, HandlersOK, EdgeOK
<1>u. UNCHANGED <<link, pc, held>> => DrainOK'
  BY <1>d DEF DrainOK
<1>g. ASSUME NEW k \in Links, NEW step, Goto(k, step), link' = link, held' = held, pc[k] # "drain",
             k = link /\ step = "drain" => held # <<>>
      PROVE  DrainOK'
  BY <1>d, <1>g DEF DrainOK, Goto
<1>1. ASSUME NEW kind \in Kinds, Send(kind) PROVE UNCHANGED <<link, pc, held>>
  BY <1>1 DEF Send, handlers, edge, queue
<1>2. ASSUME NEW n \in Nodes, Deliver(n) \/ Disconnect(n) PROVE DrainOK'
  <2>1. UNCHANGED <<link, pc>>
    BY <1>2 DEF Deliver, Disconnect, handlers, edge
  <2>2. held' = held \/ (Serves(n) /\ ~Gated(n))
    BY <1>2 DEF Deliver, Disconnect
  <2>. QED
    BY <1>d, <2>1, <2>2 DEF DrainOK, Gated, Serves
<1>3. ASSUME NEW n \in Nodes, NodeDies(n) PROVE DrainOK'
  <2>1. pc' = [k \in Links |-> IF at[k] = n THEN "done" ELSE pc[k]]
    BY <1>3 DEF NodeDies
  <2>2. link' = None \/ (link' = link /\ held' = held)
    BY <1>3 DEF NodeDies, LetGo, queue
  <2>. QED
    BY <1>d, <2>1, <2>2 DEF DrainOK
<1>4. ASSUME NEW k \in Links, Claim(k) \/ ClaimFails(k) \/ Greet(k) \/ Resume(k) \/ Read(k) \/ Leave(k) PROVE DrainOK'
  <2>1. UNCHANGED <<link, held>> /\ pc[k] # "drain" /\ \E step \in {"greet", "live", "read", "replay", "done"} : Goto(k, step)
    BY <1>4 DEF Claim, ClaimFails, Greet, Resume, Read, Leave, edge, queue
  <2>. QED
    BY <1>g, <2>1
<1>5. ASSUME NEW k \in Links, Replay(k) PROVE UNCHANGED <<link, pc, held>>
  BY <1>5 DEF Replay, handlers, edge
<1>6. ASSUME NEW k \in Links, EndReplay(k) PROVE DrainOK'
  <2>1. UNCHANGED <<link, held>> /\ pc[k] # "drain" /\ Goto(k, IF k = link /\ held # <<>> THEN "drain" ELSE "live")
    BY <1>6 DEF EndReplay, edge, queue
  <2>. QED
    BY <1>g, <2>1
<1>7. ASSUME NEW k \in Links, Drain(k) PROVE DrainOK'
  <2>1. link' = link /\ pc' = [pc EXCEPT ![k] = IF k = link /\ Tail(held) # <<>> THEN "drain" ELSE "live"]
        /\ held' = IF k = link THEN Tail(held) ELSE held
    BY <1>7 DEF Drain, edge, Goto
  <2>. QED
    BY <1>d, <2>1 DEF DrainOK
<1>8. ASSUME NEW k \in Links, NEW n \in Nodes, Attach(k, n) PROVE DrainOK'
  <2>1. link' = k /\ \E step \in {"resume", "claim"} : pc' = [pc EXCEPT ![k] = step]
    BY <1>8 DEF Attach, Goto
  <2>. QED
    BY <1>d, <2>1 DEF DrainOK
<1>9. Receive => UNCHANGED <<link, pc, held>>
  BY DEF Receive, handlers
<1>10. ReceiveClose \/ LinkLost \/ GameLeaves => link' = None
  BY DEF ReceiveClose, LinkLost, GameLeaves, LetGo
<1>11. link' = None => DrainOK'
  BY DEF DrainOK
<1>12. UNCHANGED vars => UNCHANGED <<link, pc, held>>
  BY DEF vars, handlers, edge, queue
<1>. QED
  BY <1>u, <1>1, <1>2, <1>3, <1>4, <1>5, <1>6, <1>7, <1>8, <1>9, <1>10, <1>11, <1>12 DEF Next, Handler

LEMMA TypedStep == Typed /\ [Next]_vars => Typed'
<1> SUFFICES ASSUME Typed, [Next]_vars PROVE Typed'
  OBVIOUS
<1>. QED
  BY EntriesStep, HandlersStep, EdgeStep, QueueStep, DrainStep DEF Typed

\* Every entry, position and frame of the delivery is of the log and of its
\* type, for any nodes, links and log.
THEOREM TypeCorrect == Spec => []TypeOK
<1>1. Spec => []Typed
  BY TypedInit, TypedStep, PTL DEF Spec
<1>. QED
  BY <1>1, TypedType, PTL

-----------------------------------------------------------------------------
(* Where the links are. *)

Joined == {"read", "replay", "drain", "live"}

\* A node's link of the player is one that joined it there.
Homes == \A n \in Nodes : current[n] # None => pc[current[n]] \in Joined /\ at[current[n]] = n

\* The edge's link is on a node that is up, which serves it from its join until
\* it is told to close; it resumes when the game has its id frame.
Linked ==
  link # None =>
    /\ game = "open" /\ pc[link] \notin Ended /\ at[link] \in up
    /\ pc[link] \in Joined /\ ~closing => current[at[link]] = link
    /\ pc[link] \in {"claim", "greet"} => ~greeted
    /\ pc[link] \in {"resume", "read", "replay", "drain"} => greeted
    /\ pc[link] \in {"read", "replay"} => last <= pos
    /\ pc[link] \notin Joined => out = <<>> /\ held = <<>> /\ ~closing

Unlinked == link = None => last = 0 /\ pos = 0 /\ upto = 0 /\ held = <<>> /\ out = <<>> /\ ~closing

Places == Homes /\ Linked /\ Unlinked

LEMMA PlacesInit == Init => Places
BY DEF Init, Places, Homes, Linked, Unlinked

LEMMA HandlersTyped ==
  ASSUME Typed
  PROVE  /\ pc \in [Links -> Ended \cup {"claim", "greet", "resume", "read", "replay", "drain", "live"}]
         /\ at \in [Links -> Nodes \cup {None}]
         /\ \A k \in Links : pc[k] \notin Ended => at[k] \in Nodes
         /\ current \in [Nodes -> Links \cup {None}]
         /\ up \subseteq Nodes /\ link \in Links \cup {None}
         /\ Ended = {"idle", "done"}
         /\ None \notin Links /\ None \notin Nodes
BY NoneIsNone DEF Typed, HandlersOK, EdgeOK, Ended

LEMMA HomesStep ==
  ASSUME Typed, Homes, [Next]_vars
  PROVE  Homes'
<1>h. /\ pc \in [Links -> Ended \cup {"claim", "greet", "resume", "read", "replay", "drain", "live"}]
      /\ at \in [Links -> Nodes \cup {None}]
      /\ \A k \in Links : pc[k] \notin Ended => at[k] \in Nodes
      /\ current \in [Nodes -> Links \cup {None}]
      /\ None \notin Links /\ None \notin Nodes /\ Ended = {"idle", "done"}
      /\ \A n \in Nodes : current[n] # None => pc[current[n]] \in Joined /\ at[current[n]] = n
  BY HandlersTyped DEF Homes
<1>u. UNCHANGED handlers => Homes'
  BY <1>h DEF handlers, Homes
<1>1. ASSUME NEW kind \in Kinds, Send(kind) PROVE UNCHANGED handlers
  BY <1>1 DEF Send
<1>2. ASSUME NEW n \in Nodes, Deliver(n) \/ Disconnect(n) PROVE UNCHANGED handlers
  BY <1>2 DEF Deliver, Disconnect
<1>3. ASSUME NEW n \in Nodes, NodeDies(n) PROVE Homes'
  <2>1. pc' = [k \in Links |-> IF at[k] = n THEN "done" ELSE pc[k]] /\ at' = at /\ current' = [current EXCEPT ![n] = None]
    BY <1>3 DEF NodeDies
  <2>. QED
    BY <1>h, <2>1 DEF Homes
<1>4. ASSUME NEW k \in Links, Claim(k) \/ ClaimFails(k) PROVE Homes'
  <2>1. UNCHANGED <<at, current>> /\ pc[k] = "claim" /\ pc' = [pc EXCEPT ![k] = "greet"]
    BY <1>4 DEF Claim, ClaimFails, Goto
  <2>2. \A n \in Nodes : current[n] # None => current[n] # k
    BY <1>h, <2>1 DEF Joined
  <2>. QED
    BY <1>h, <2>1, <2>2 DEF Homes
<1>5. ASSUME NEW k \in Links, Read(k) \/ EndReplay(k) \/ Drain(k) PROVE Homes'
  <2>1. UNCHANGED <<at, current>> /\ \E step \in Joined : pc' = [pc EXCEPT ![k] = step]
    BY <1>5 DEF Read, EndReplay, Drain, Goto, Joined
  <2>. QED
    BY <1>h, <2>1 DEF Homes
<1>6. ASSUME NEW k \in Links, Greet(k) \/ Resume(k) PROVE Homes'
  <2>1. at' = at /\ current' = [current EXCEPT ![at[k]] = k] /\ pc[k] \in {"greet", "resume"}
        /\ \E step \in Joined : pc' = [pc EXCEPT ![k] = step]
    BY <1>6 DEF Greet, Resume, Join, Goto, Joined
  <2>2. at[k] \in Nodes
    BY <1>h, <2>1
  <2>. QED
    BY <1>h, <2>1, <2>2 DEF Homes
<1>7. ASSUME NEW k \in Links, Leave(k) PROVE Homes'
  <2>1. at' = at /\ current' = [n \in Nodes |-> IF current[n] = k THEN None ELSE current[n]] /\ pc' = [pc EXCEPT ![k] = "done"]
    BY <1>7 DEF Leave, Goto
  <2>. QED
    BY <1>h, <2>1 DEF Homes
<1>8. ASSUME NEW k \in Links, Replay(k) PROVE UNCHANGED handlers
  BY <1>8 DEF Replay
<1>9. ASSUME NEW k \in Links, NEW n \in Nodes, Attach(k, n) PROVE Homes'
  <2>1. at' = [at EXCEPT ![k] = n] /\ current' = current /\ pc[k] = "idle" /\ \E step \in {"resume", "claim"} : pc' = [pc EXCEPT ![k] = step]
    BY <1>9 DEF Attach, Goto
  <2>2. \A m \in Nodes : current[m] # None => current[m] # k
    BY <1>h, <2>1 DEF Joined
  <2>. QED
    BY <1>h, <2>1, <2>2 DEF Homes
<1>10. Receive \/ ReceiveClose \/ LinkLost \/ GameLeaves \/ UNCHANGED vars => UNCHANGED handlers
  BY DEF Receive, ReceiveClose, LinkLost, GameLeaves, vars
<1>. QED
  BY <1>u, <1>1, <1>2, <1>3, <1>4, <1>5, <1>6, <1>7, <1>8, <1>9, <1>10 DEF Next, Handler

LEMMA UnlinkedStep ==
  ASSUME Typed, Places, [Next]_vars
  PROVE  Unlinked'
<1>h. link \in Links \cup {None} /\ None \notin Links /\ (link = None => last = 0 /\ pos = 0 /\ upto = 0 /\ held = <<>> /\ out = <<>> /\ ~closing)
  BY HandlersTyped DEF Places, Unlinked
<1>u. UNCHANGED <<link, queue>> \/ link' # None \/ LetGo => Unlinked'
  BY <1>h DEF Unlinked, queue, LetGo
<1>e. UNCHANGED edge => link' = link
  BY DEF edge
<1>1. ASSUME NEW kind \in Kinds, Send(kind) PROVE UNCHANGED <<link, queue>>
  BY <1>1 DEF Send, edge
<1>2. ASSUME NEW n \in Nodes, Deliver(n) \/ Disconnect(n) PROVE Unlinked'
  <2>1. link' = link /\ (link = None => UNCHANGED queue)
    BY <1>2 DEF Deliver, Disconnect, edge, queue, Serves
  <2>. QED
    BY <1>u, <2>1
<1>3. ASSUME NEW n \in Nodes, NodeDies(n) PROVE Unlinked'
  BY <1>3, <1>u DEF NodeDies
<1>4. ASSUME NEW k \in Links, Handler(k) \/ ClaimFails(k) PROVE Unlinked'
  <2>1. link' = link
    BY <1>4 DEF Handler, Claim, ClaimFails, Greet, Resume, Read, Replay, EndReplay, Drain, Leave, edge
  <2>2. link = None => UNCHANGED queue
    <3>1. link = None => k # link /\ (Join(k) => UNCHANGED <<out, closing>>)
      BY <1>h DEF Join, Serves
    <3>. QED
      BY <1>4, <3>1 DEF Handler, Claim, ClaimFails, Greet, Resume, Read, Replay, EndReplay, Drain, Leave, queue
  <2>. QED
    BY <1>u, <2>1, <2>2
<1>5. ASSUME NEW k \in Links, NEW n \in Nodes, Attach(k, n) PROVE link' # None
  BY <1>5, <1>h DEF Attach
<1>6. Receive => link' # None
  BY DEF Receive
<1>7. ReceiveClose \/ LinkLost \/ GameLeaves => LetGo
  BY DEF ReceiveClose, LinkLost, GameLeaves
<1>8. UNCHANGED vars => UNCHANGED <<link, queue>>
  BY DEF vars, edge
<1>. QED
  BY <1>u, <1>1, <1>2, <1>3, <1>4, <1>5, <1>6, <1>7, <1>8 DEF Next

\* What changes a queue is a delivery on the edge's link, or a link that takes
\* its place on its node.
LEMMA JoinEffect ==
  ASSUME Typed, Places, NEW k \in Links, Join(k), pc[k] \in {"greet", "resume"}
  PROVE  /\ k = link => UNCHANGED <<out, closing>>
         /\ link # None /\ pc[link] \notin Joined => UNCHANGED <<out, closing>>
         /\ UNCHANGED <<out, closing>> \/ QueueClose
         /\ link # None /\ link # k /\ pc[link] \in Joined /\ ~closing' => current'[at[link]] = link
<1>h. /\ current \in [Nodes -> Links \cup {None}] /\ at[k] \in Nodes
      /\ link \in Links \cup {None} /\ None \notin Links
      /\ Ended = {"idle", "done"} /\ pc[k] \notin Joined
  BY HandlersTyped DEF Joined
<1>p. Serves(at[k]) => pc[link] \in Joined /\ k # link
  BY <1>h DEF Serves, Places, Homes
<1>l. link # None /\ pc[link] \in Joined /\ ~closing => current[at[link]] = link
  BY DEF Places, Linked
<1>j. /\ current' = [current EXCEPT ![at[k]] = k]
      /\ IF Serves(at[k]) THEN QueueClose ELSE UNCHANGED <<out, closing>>
  BY DEF Join
<1>c. QueueClose => closing'
  BY DEF QueueClose
<1>s. link # None /\ link # k /\ pc[link] \in Joined /\ ~closing' => at[k] # at[link] /\ ~closing
  BY <1>c, <1>h, <1>j, <1>l DEF Serves
<1>t. link # None /\ pc[link] \in Joined => at[link] \in Nodes
  BY HandlersTyped DEF Joined
<1>. QED
  BY <1>h, <1>j, <1>l, <1>p, <1>s, <1>t

LEMMA LinkedStep ==
  ASSUME Typed, Places, [Next]_vars
  PROVE  Linked'
<1> DEFINE Rest(step) ==
      /\ step \in {"claim", "greet"} => ~greeted
      /\ step \in {"resume", "read", "replay", "drain"} => greeted
<1>h. /\ pc \in [Links -> Ended \cup {"claim", "greet", "resume", "read", "replay", "drain", "live"}]
      /\ at \in [Links -> Nodes \cup {None}]
      /\ current \in [Nodes -> Links \cup {None}]
      /\ link \in Links \cup {None} /\ None \notin Links /\ None \notin Nodes
      /\ \A j \in Links : pc[j] \notin Ended => at[j] \in Nodes
      /\ Ended = {"idle", "done"}
  BY HandlersTyped
<1>l. link # None => /\ game = "open" /\ pc[link] \notin Ended /\ at[link] \in up
                     /\ pc[link] \in Joined /\ ~closing => current[at[link]] = link
                     /\ Rest(pc[link])
                     /\ pc[link] \in {"read", "replay"} => last <= pos
                     /\ pc[link] \notin Joined => out = <<>> /\ held = <<>> /\ ~closing
  BY DEF Places, Linked
<1>n. Unlinked /\ Homes
  BY DEF Places
<1>i. last \in Nat /\ pos \in Nat /\ cursor \in Nat
  BY DEF Typed, QueueOK, EdgeOK
<1>z. link' = None => Linked'
  BY DEF Linked
<1>g. LetGo => link' = None
  BY DEF LetGo
<1>c. QueueClose => closing'
  BY DEF QueueClose
<1>u. UNCHANGED <<handlers, edge, queue>> => Linked'
  BY <1>l DEF handlers, edge, queue, Linked, Joined
<1>1. ASSUME NEW kind \in Kinds, Send(kind) PROVE UNCHANGED <<handlers, edge, queue>>
  BY <1>1 DEF Send
<1>2. ASSUME NEW n \in Nodes, Deliver(n) \/ Disconnect(n) PROVE Linked'
  <2>1. UNCHANGED <<pc, at, current, up, link, greeted, game, pos>>
    BY <1>2 DEF Deliver, Disconnect, handlers, edge
  <2>2. UNCHANGED <<last, held, out, closing>> \/ (Serves(n) /\ Holding(link) /\ UNCHANGED <<last, out, closing>>)
        \/ (Serves(n) /\ ~Holding(link))
    BY <1>2 DEF Deliver, Disconnect
  <2>3. closing => closing'
    BY <1>2, <1>c DEF Deliver, Disconnect, DeliverNow, QueueMessage
  <2>4. Serves(n) => pc[link] \in Joined
    BY <1>h, <1>n DEF Serves, Homes
  <2>5. Holding(link) \/ pc[link] \notin {"read", "replay"}
    BY DEF Holding
  <2>. QED
    BY <1>l, <2>1, <2>2, <2>3, <2>4, <2>5 DEF Linked
<1>3. ASSUME NEW n \in Nodes, NodeDies(n) PROVE Linked'
  <2>1. CASE link # None /\ at[link] = n
    BY <1>3, <1>g, <1>z, <2>1 DEF NodeDies
  <2>2. CASE ~(link # None /\ at[link] = n)
    <3>1. /\ UNCHANGED <<at, link, greeted, game, last, pos, held, out, closing>> /\ up' = up \ {n}
          /\ pc' = [k \in Links |-> IF at[k] = n THEN "done" ELSE pc[k]] /\ current' = [current EXCEPT ![n] = None]
      BY <1>3, <2>2 DEF NodeDies, queue
    <3>2. link # None => pc'[link] = pc[link] /\ current'[at[link]] = current[at[link]]
      BY <1>h, <1>l, <2>2, <3>1
    <3>. QED
      BY <1>l, <2>2, <3>1, <3>2 DEF Linked
  <2>. QED
    BY <2>1, <2>2
\* A step of another link's handler.
<1>m. ASSUME NEW k \in Links, NEW step, Goto(k, step), k # link, UNCHANGED <<at, up, edge, last, pos, held>>,
             link # None /\ pc[link] \notin Joined => UNCHANGED <<out, closing>>,
             link # None /\ pc[link] \in Joined /\ ~closing' => current'[at[link]] = link
      PROVE  Linked'
  <2>1. link # None => pc'[link] = pc[link]
    BY <1>h, <1>m DEF Goto
  <2>2. UNCHANGED <<link, greeted, game>>
    BY <1>m DEF edge
  <2>. QED
    BY <1>l, <1>m, <2>1, <2>2 DEF Linked
<1>4. ASSUME NEW k \in Links, Claim(k) \/ ClaimFails(k) PROVE Linked'
  <2>1. /\ UNCHANGED <<at, current, up, link, greeted, game, pos, held, out, closing>> /\ pc[k] = "claim"
        /\ pc' = [pc EXCEPT ![k] = "greet"] /\ (k # link => last' = last)
    BY <1>4 DEF Claim, ClaimFails, edge, queue, Goto
  <2>. QED
    BY <1>h, <1>l, <2>1 DEF Linked, Joined
<1>5. ASSUME NEW k \in Links, Greet(k) PROVE Linked'
  <2>1. UNCHANGED <<at, up, edge, last, pos, held>> /\ pc[k] = "greet" /\ Goto(k, "live")
    BY <1>5 DEF Greet
  <2>2. CASE k = link
    <3>1. closing' = closing /\ current' = [current EXCEPT ![at[link]] = link] /\ pc' = [pc EXCEPT ![link] = "live"]
      BY <1>5, <2>1, <2>2 DEF Greet, Goto
    <3>2. UNCHANGED <<link, greeted, game>> /\ at[link] \in Nodes
      BY <1>h, <2>1, <2>2 DEF edge
    <3>. QED
      BY <1>h, <1>l, <2>1, <2>2, <3>1, <3>2 DEF Linked, Joined
  <2>3. CASE k # link
    BY <1>5, <1>m, <2>1, <2>3, JoinEffect DEF Greet
  <2>. QED
    BY <2>2, <2>3
<1>6. ASSUME NEW k \in Links, Resume(k) PROVE Linked'
  <2>1. UNCHANGED <<at, up, edge, held>> /\ pc[k] = "resume" /\ Goto(k, "read") /\ Join(k)
    BY <1>6 DEF Resume
  <2>2. CASE k = link
    <3>1. UNCHANGED <<out, closing>> /\ current' = [current EXCEPT ![at[link]] = link] /\ pc' = [pc EXCEPT ![link] = "read"]
          /\ last' = pos' /\ pos' = cursor
      BY <1>6, <2>1, <2>2, JoinEffect DEF Resume, Goto, Join
    <3>2. UNCHANGED <<link, greeted, game>> /\ at[link] \in Nodes
      BY <1>h, <2>1, <2>2 DEF edge
    <3>. QED
      BY <1>h, <1>i, <1>l, <2>1, <2>2, <3>1, <3>2 DEF Linked, Joined
  <2>3. CASE k # link
    BY <1>6, <1>m, <2>1, <2>3, JoinEffect DEF Resume
  <2>. QED
    BY <2>2, <2>3
<1>7. ASSUME NEW k \in Links, Read(k) PROVE Linked'
  <2>1. UNCHANGED <<at, current, up, link, greeted, game, last, pos, held, out, closing>> /\ pc[k] = "read" /\ pc' = [pc EXCEPT ![k] = "replay"]
    BY <1>7 DEF Read, edge, Goto
  <2>. QED
    BY <1>h, <1>l, <2>1 DEF Linked, Joined
<1>8. ASSUME NEW k \in Links, Replay(k) PROVE Linked'
  <2>1. UNCHANGED <<pc, at, current, up, link, greeted, game, held>> /\ pc[k] = "replay" /\ k = link /\ pos' = pos + 1
    BY <1>8 DEF Replay, handlers, edge
  <2>2. last' = last \/ last' = pos + 1
    BY <1>8 DEF Replay, QueueMessage
  <2>3. closing => closing'
    BY <1>8, <1>c DEF Replay, QueueMessage
  <2>4. link # None /\ last' <= pos'
    BY <1>h, <1>i, <1>l, <2>1, <2>2
  <2>. QED
    BY <1>l, <2>1, <2>3, <2>4 DEF Linked, Joined
<1>9. ASSUME NEW k \in Links, EndReplay(k) PROVE Linked'
  <2>1. /\ UNCHANGED <<at, current, up, link, greeted, game, last, pos, held, out, closing>> /\ pc[k] = "replay"
        /\ \E step \in {"drain", "live"} : pc' = [pc EXCEPT ![k] = step]
    BY <1>9 DEF EndReplay, edge, queue, Goto
  <2>. QED
    BY <1>h, <1>l, <2>1 DEF Linked, Joined
<1>10. ASSUME NEW k \in Links, Drain(k) PROVE Linked'
  <2>1. /\ UNCHANGED <<at, current, up, link, greeted, game, pos>> /\ pc[k] = "drain"
        /\ \E step \in {"drain", "live"} : pc' = [pc EXCEPT ![k] = step]
        /\ k # link => UNCHANGED <<last, held, out, closing>>
    BY <1>10 DEF Drain, edge, Goto
  <2>3. closing => closing'
    BY <1>10, <1>c DEF Drain, DeliverNow, QueueMessage
  <2>. QED
    BY <1>h, <1>l, <2>1, <2>3 DEF Linked, Joined
<1>11. ASSUME NEW k \in Links, Leave(k) PROVE Linked'
  <2>1. /\ UNCHANGED <<at, up, edge, last, pos, held, out, closing>> /\ k # link /\ Goto(k, "done")
        /\ current' = [n \in Nodes |-> IF current[n] = k THEN None ELSE current[n]]
    BY <1>11 DEF Leave, queue
  <2>. QED
    BY <1>h, <1>l, <1>m, <2>1
<1>12. ASSUME NEW k \in Links, NEW n \in Nodes, Attach(k, n) PROVE Linked'
  <2>1. /\ at' = [at EXCEPT ![k] = n] /\ UNCHANGED <<up, greeted, game, held, out, closing>> /\ link = None /\ link' = k /\ n \in up
        /\ pc' = [pc EXCEPT ![k] = IF greeted THEN "resume" ELSE "claim"] /\ game = "open"
    BY <1>12 DEF Attach, queue, Goto
  <2>. QED
    BY <1>h, <1>n, <2>1 DEF Linked, Unlinked, Joined
<1>13. ASSUME Receive PROVE Linked'
  <2>1. UNCHANGED <<pc, at, current, up, link, game, last, pos, held, closing>> /\ link # None /\ out # <<>>
        /\ (greeted' = greeted \/ greeted' = TRUE)
    BY <1>13 DEF Receive, handlers
  <2>2. pc[link] \in Joined
    BY <1>l, <2>1
  <2>. QED
    BY <1>l, <2>1, <2>2 DEF Linked, Joined
<1>14. ReceiveClose \/ LinkLost \/ GameLeaves => Linked'
  BY <1>g, <1>z DEF ReceiveClose, LinkLost, GameLeaves
<1>15. UNCHANGED vars => UNCHANGED <<handlers, edge, queue>>
  BY DEF vars
<1>. QED
  BY <1>u, <1>1, <1>2, <1>3, <1>4, <1>5, <1>6, <1>7, <1>8, <1>9, <1>10, <1>11, <1>12, <1>13, <1>14, <1>15 DEF Next, Handler

LEMMA PlacesStep == Typed /\ Places /\ [Next]_vars => Places'
BY HomesStep, LinkedStep, UnlinkedStep DEF Places

-----------------------------------------------------------------------------
(* The queue. *)

Last   == IF got = <<>> THEN 0 ELSE got[Len(got)]
Placed == out # <<>> /\ out[1].kind = "position"

\* Each message queued is past what is queued before it.
Rising ==
  \A i, j \in DOMAIN out :
      i < j /\ out[j].kind = "logged" /\ out[i].kind \in {"position", "logged"} => out[i].id < out[j].id

\* It is one the queue's end is at or past, the edge's cursor is behind, and the
\* game has its id frame before it.
Queued ==
  \A j \in DOMAIN out :
      out[j].kind = "logged" =>
        /\ out[j].id \in Messages /\ out[j].id <= last
        /\ ~Placed => out[j].id > cursor
        /\ ~greeted => \E i \in DOMAIN out : i < j /\ out[i].kind = "id"

\* A position is the first frame of the game's first link, from before it joined.
Positioned ==
  \A i \in DOMAIN out :
      out[i].kind = "position" => i = 1 /\ ~greeted /\ out[i].id <= floor /\ out[i].id <= last

Ready ==
  link # None /\ pc[link] \in Joined =>
      /\ ~Placed => cursor <= last
      /\ ~greeted => \E i \in DOMAIN out : out[i].kind = "id"

Received == (~greeted => got = <<>>) /\ Last <= cursor

Outs == Rising /\ Queued /\ Positioned /\ Ready /\ Received

\* No message past floor that the game has yet to get is missing up to h.
Covered(h) ==
  \A m \in Messages :
      Last < m /\ m <= h /\ m > floor => \E i \in DOMAIN out : out[i].kind = "logged" /\ out[i].id = m

Passed   == \A m \in Messages : Last < m /\ m <= cursor => m <= floor
NoGap    == \A j \in DOMAIN out : out[j].kind = "logged" => Covered(out[j].id)
UpToLast == link # None /\ pc[link] \notin {"claim", "greet"} /\ ~closing => Covered(last)

Cover == Passed /\ NoGap /\ UpToLast

LEMMA OutsInit == Init => Outs /\ Cover
BY DEF Init, Outs, Rising, Queued, Positioned, Ready, Received, Cover, Passed, NoGap, UpToLast, Last, Logged, Messages

LEMMA QueueTyped ==
  ASSUME Typed
  PROVE  /\ Len(log) \in Nat /\ last \in 0 .. Len(log) /\ pos \in 0 .. Len(log) /\ upto \in 0 .. Len(log)
         /\ floor \in 0 .. Len(log) /\ cursor \in 0 .. Len(log) /\ greeted \in BOOLEAN /\ closing \in BOOLEAN
         /\ held \in Seq(Applying) /\ out \in Seq(Frames) /\ got \in Seq(Logged)
         /\ \A i \in DOMAIN out : out[i].id \in 0 .. Len(log) /\ out[i].id \in Nat /\ out[i].kind \in {"position", "id", "logged", "close"}
         /\ Len(out) \in Nat /\ DOMAIN out = 1 .. Len(out)
         /\ Messages \subseteq 1 .. Len(log) /\ Messages \subseteq Nat
         /\ Last \in Nat /\ Last <= Len(log)
<1>1. /\ Len(log) \in Nat /\ last \in 0 .. Len(log) /\ pos \in 0 .. Len(log) /\ upto \in 0 .. Len(log)
      /\ floor \in 0 .. Len(log) /\ cursor \in 0 .. Len(log) /\ greeted \in BOOLEAN /\ closing \in BOOLEAN
      /\ held \in Seq(Applying) /\ out \in Seq(Frames) /\ got \in Seq(Logged)
  BY DEF Typed, EntriesOK, QueueOK, EdgeOK
<1>2. Len(out) \in Nat /\ DOMAIN out = 1 .. Len(out) /\ \A i \in DOMAIN out : out[i] \in Frames
  BY <1>1
<1>3. \A i \in DOMAIN out : out[i].id \in 0 .. Len(log) /\ out[i].kind \in {"position", "id", "logged", "close"}
  BY <1>2 DEF Frames
<1>4. Messages \subseteq 1 .. Len(log) /\ Logged \subseteq 1 .. Len(log)
  BY DEF Messages, Logged
<1>5. Last \in 0 .. Len(log)
  <2>1. CASE got = <<>>
    BY <1>1, <2>1 DEF Last
  <2>2. CASE got # <<>>
    <3>1. got[Len(got)] \in Logged
      <4>1. got \in Seq(Logged)
        BY <1>1
      <4>. QED
        BY <2>2, <4>1
    <3>2. Len(log) \in Nat /\ got[Len(got)] \in 1 .. Len(log)
      BY <1>1, <1>4, <3>1
    <3>. QED
      BY <2>2, <3>2 DEF Last
  <2>. QED
    BY <2>1, <2>2
<1>. QED
  BY <1>1, <1>2, <1>3, <1>4, <1>5

\* A step that leaves the queue and the edge alone.
LEMMA OutsSame ==
  ASSUME Typed, Outs, Cover,
         UNCHANGED <<out, last, cursor, greeted, got, floor>>,
         Messages \subseteq Messages', \A m \in Messages' : m \in Messages \/ m = Len(log) + 1,
         link' # None /\ pc'[link'] \in Joined => link # None /\ pc[link] \in Joined,
         link' # None /\ pc'[link'] \notin {"claim", "greet"} /\ ~closing' => link # None /\ pc[link] \notin {"claim", "greet"} /\ ~closing
  PROVE  Outs' /\ Cover'
<1>1. Last' = Last /\ Placed' = Placed
  BY DEF Last, Placed
<1>2. Outs'
  BY <1>1 DEF Outs, Rising, Queued, Positioned, Ready, Received
<1>t. /\ Len(log) \in Nat /\ last \in 0 .. Len(log) /\ cursor \in 0 .. Len(log)
      /\ \A i \in DOMAIN out : out[i].id \in 0 .. Len(log)
  BY QueueTyped
<1>m. \A h \in 0 .. Len(log) : \A m \in Messages' : m <= h => m \in Messages
  BY <1>t
<1>3. \A h \in 0 .. Len(log) : Covered(h) => Covered(h)'
  BY <1>1, <1>m DEF Covered
<1>4. Passed'
  BY <1>1, <1>m, <1>t DEF Cover, Passed
<1>5. NoGap'
  BY <1>3, <1>t DEF Cover, NoGap
<1>6. UpToLast'
  BY <1>3, <1>t DEF Cover, UpToLast
<1>. QED
  BY <1>2, <1>4, <1>5, <1>6 DEF Cover

\* A link that is new, or gone.
LEMMA OutsEmpty ==
  ASSUME Typed, Outs, Cover,
         out' = <<>>, UNCHANGED <<log, cursor, greeted, got, floor>>,
         ~(link' # None /\ pc'[link'] \in Joined),
         last' = 0 \/ pc'[link'] \in {"claim", "greet"}
  PROVE  Outs' /\ Cover'
<1>1. Last' = Last /\ Messages' = Messages /\ DOMAIN out' = {}
  BY DEF Last, Messages, Logged
<1>2. Outs'
  BY <1>1 DEF Outs, Rising, Queued, Positioned, Ready, Received
<1>3. Passed'
  BY <1>1 DEF Cover, Passed
<1>4. NoGap'
  BY <1>1 DEF NoGap
<1>5. last' = 0 => Covered(last)'
  BY <1>1, QueueTyped DEF Covered
<1>6. UpToLast'
  BY <1>5 DEF UpToLast
<1>. QED
  BY <1>2, <1>3, <1>4, <1>6 DEF Cover

\* A message queued past the last one, with none between them to queue.
LEMMA OutsMessage ==
  ASSUME Typed, Outs, Cover, NEW id \in Messages, id > last, QueueMessage(id),
         link # None, pc[link] \in Joined, pc'[link] \in Joined,
         ~closing => \A m \in Messages : last < m /\ m < id => m <= floor,
         UNCHANGED <<log, edge, floor>>
  PROVE  Outs' /\ Cover'
<1>t. /\ last \in Nat /\ floor \in Nat /\ cursor \in Nat /\ Len(out) \in Nat /\ DOMAIN out = 1 .. Len(out)
      /\ \A i \in DOMAIN out : out[i].id \in Nat
      /\ Messages \subseteq Nat /\ Last \in Nat /\ id \in Nat
  BY QueueTyped
<1>1. Last' = Last /\ Messages' = Messages /\ UNCHANGED <<link, cursor, greeted, got>>
  BY DEF Last, Messages, Logged, edge
<1>2. last' = id /\ closing' = closing /\ out' = IF closing THEN out ELSE Append(out, Frame("logged", id))
  BY DEF QueueMessage
<1>o. /\ Rising /\ Queued /\ Positioned /\ Received /\ (~Placed => cursor <= last)
      /\ (~greeted => \E i \in DOMAIN out : out[i].kind = "id")
  BY DEF Outs, Ready
<1>c. Passed /\ NoGap /\ (~closing => Covered(last))
  BY DEF Cover, UpToLast, Joined
<1>3. CASE closing
  <2>1. out' = out /\ Placed' = Placed /\ last' = id /\ floor' = floor
    BY <1>2, <1>3 DEF Placed
  <2>2. Rising' /\ Received'
    BY <1>1, <1>o, <2>1 DEF Rising, Received
  <2>7. Ready'
    BY <1>1, <1>o, <1>t, <2>1 DEF Ready
  <2>5. Queued'
    <3> SUFFICES ASSUME NEW j \in DOMAIN out, out[j].kind = "logged"
                 PROVE  /\ out[j].id \in Messages /\ out[j].id <= id
                        /\ ~Placed => out[j].id > cursor
                        /\ ~greeted => \E i \in DOMAIN out : i < j /\ out[i].kind = "id"
      BY <1>1, <1>2, <2>1 DEF Queued
    <3>. QED
      BY <1>o, <1>t DEF Queued
  <2>6. Positioned'
    <3> SUFFICES ASSUME NEW i \in DOMAIN out, out[i].kind = "position"
                 PROVE  i = 1 /\ ~greeted /\ out[i].id <= floor /\ out[i].id <= id
      BY <1>1, <2>1 DEF Positioned
    <3>. QED
      BY <1>o, <1>t DEF Positioned
  <2>3. \A h : Covered(h)' <=> Covered(h)
    BY <1>1, <2>1 DEF Covered
  <2>4. Cover'
    BY <1>1, <1>2, <1>3, <1>c, <2>1, <2>3 DEF Cover, Passed, NoGap, UpToLast
  <2>. QED
    BY <2>2, <2>4, <2>5, <2>6, <2>7 DEF Outs
<1>4. CASE ~closing
  <2> DEFINE n == Len(out) + 1
  <2>1. /\ DOMAIN out' = 1 .. n /\ out'[n] = Frame("logged", id) /\ \A i \in DOMAIN out : out'[i] = out[i]
        /\ n \notin DOMAIN out /\ out' # <<>>
    <3>1. out \in Seq(Frames) /\ Frame("logged", id) \in Frames
      BY QueueTyped DEF Frame, Frames
    <3>2. out' = Append(out, Frame("logged", id))
      BY <1>2, <1>4
    <3>. QED
      BY <3>1, <3>2, Appended, <1>t
  <2>2. out'[n].kind = "logged" /\ out'[n].id = id
    BY <2>1 DEF Frame
  <2>3. Placed' = Placed
    BY <1>t, <2>1, <2>2 DEF Placed
  <2>d. \A i \in DOMAIN out' : i \in DOMAIN out \/ i = n
    BY <1>t, <2>1
  <2>e. \A i \in DOMAIN out : i \in DOMAIN out' /\ i < n /\ i \in Nat
    BY <1>t, <2>1
  <2>f. \A i \in DOMAIN out : out[i].kind \in {"position", "logged"} => out[i].id <= last
    BY <1>o DEF Queued, Positioned
  <2> HIDE DEF n
  <2>4. Rising'
    <3> SUFFICES ASSUME NEW i \in DOMAIN out', NEW j \in DOMAIN out', i < j, out'[j].kind = "logged", out'[i].kind \in {"position", "logged"}
                 PROVE  out'[i].id < out'[j].id
      BY DEF Rising
    <3>1. i \in DOMAIN out
      BY <1>t, <2>1 DEF n
    <3>2. CASE j = n
      BY <1>t, <2>1, <2>2, <2>f, <3>1, <3>2
    <3>3. CASE j \in DOMAIN out
      BY <1>o, <2>1, <3>1, <3>3 DEF Rising
    <3>. QED
      BY <2>d, <3>2, <3>3
  <2>5. Queued'
    <3> SUFFICES ASSUME NEW j \in DOMAIN out', out'[j].kind = "logged"
                 PROVE  /\ out'[j].id \in Messages /\ out'[j].id <= id
                        /\ ~Placed => out'[j].id > cursor
                        /\ ~greeted => \E i \in DOMAIN out' : i < j /\ out'[i].kind = "id"
      BY <1>1, <1>2, <2>3 DEF Queued
    <3>2. CASE j = n
      BY <1>o, <1>t, <2>1, <2>2, <2>e, <3>2
    <3>3. CASE j \in DOMAIN out
      BY <1>o, <1>t, <2>1, <2>e, <3>3 DEF Queued
    <3>. QED
      BY <2>d, <3>2, <3>3
  <2>6. Positioned'
    BY <1>1, <1>2, <1>o, <1>t, <2>1, <2>2, <2>d DEF Positioned
  <2>7. Ready' /\ Received'
    BY <1>1, <1>2, <1>o, <1>t, <2>1, <2>3, <2>e DEF Ready, Received
  <2>8. \A h : Covered(h) => Covered(h)'
    BY <1>1, <2>1, <2>e DEF Covered
  <2>9. Covered(id)'
    <3> SUFFICES ASSUME NEW m \in Messages, Last < m, m <= id, m > floor
                 PROVE  \E i \in DOMAIN out' : out'[i].kind = "logged" /\ out'[i].id = m
      BY <1>1 DEF Covered
    <3>1. CASE m = id
      <4>1. n \in DOMAIN out'
        BY <1>t, <2>1 DEF n
      <4>. QED
        BY <2>2, <3>1, <4>1
    <3>2. CASE m # id
      <4>1. m <= last
        BY <1>4, <1>t, <3>2
      <4>. QED
        BY <1>1, <1>t, <4>1, <1>4, <1>c, <2>1, <2>e DEF Covered
    <3>. QED
      BY <3>1, <3>2
  <2>10. Passed'
    BY <1>1, <1>c DEF Passed
  <2>11. NoGap'
    BY <1>c, <2>1, <2>2, <2>8, <2>9, <2>d DEF NoGap
  <2>12. UpToLast'
    BY <1>2, <2>9 DEF UpToLast
  <2>. QED
    BY <2>4, <2>5, <2>6, <2>7, <2>10, <2>11, <2>12 DEF Outs, Cover
<1>. QED
  BY <1>3, <1>4

\* A close, after which nothing is queued.
LEMMA OutsClose ==
  ASSUME Typed, Outs, Cover, QueueClose,
         UNCHANGED <<log, last, cursor, greeted, got, floor>>,
         link' # None /\ pc'[link'] \in Joined => link # None /\ pc[link] \in Joined
  PROVE  Outs' /\ Cover'
<1>1. Last' = Last /\ Messages' = Messages
  BY DEF Last, Messages, Logged
<1>2. closing' /\ out' = IF closing THEN out ELSE Append(out, Frame("close", 0))
  BY DEF QueueClose
<1>3. CASE closing
  BY <1>1, <1>2, <1>3, OutsSame
<1>4. CASE ~closing
  <2> DEFINE n == Len(out) + 1
  <2>t. Len(out) \in Nat /\ DOMAIN out = 1 .. Len(out)
    BY QueueTyped
  <2>1. /\ DOMAIN out' = 1 .. n /\ out'[n].kind = "close" /\ \A i \in DOMAIN out : out'[i] = out[i]
        /\ n \notin DOMAIN out /\ out' # <<>>
    <3>1. out \in Seq(Frames) /\ Frame("close", 0) \in Frames
      BY QueueTyped DEF Frame, Frames
    <3>2. out' = Append(out, Frame("close", 0))
      BY <1>2, <1>4
    <3>. QED
      BY <3>1, <3>2, Appended, <2>t DEF Frame
  <2>2. Placed' = Placed
    BY <2>t, <2>1 DEF Placed
  <2>3. \A i \in DOMAIN out' : i \in DOMAIN out \/ i = n
    BY <2>t, <2>1
  <2>4. \A i \in DOMAIN out : i \in DOMAIN out' /\ i < n
    BY <2>t, <2>1
  <2>o. Rising /\ Queued /\ Positioned /\ Ready /\ Received /\ Passed /\ NoGap
    BY DEF Outs, Cover
  <2> HIDE DEF n
  <2>5. Rising' /\ Queued'
    BY <1>1, <2>o, <2>1, <2>2, <2>3, <2>4 DEF Rising, Queued
  <2>6. Positioned' /\ Ready' /\ Received'
    BY <1>1, <2>o, <2>1, <2>2, <2>3, <2>4 DEF Positioned, Ready, Received
  <2>7. \A h : Covered(h) => Covered(h)'
    BY <1>1, <2>1, <2>4 DEF Covered
  <2>8. Passed' /\ NoGap' /\ UpToLast'
    BY <1>1, <1>2, <2>o, <2>1, <2>3, <2>7 DEF Passed, NoGap, UpToLast
  <2>. QED
    BY <2>5, <2>6, <2>8 DEF Outs, Cover
<1>. QED
  BY <1>3, <1>4

\* A resume starts at the cursor, with an empty queue.
LEMMA OutsResume ==
  ASSUME Typed, Places, Outs, Cover, link # None, Resume(link)
  PROVE  Outs' /\ Cover'
<1>1. /\ last' = cursor /\ UNCHANGED <<log, link, cursor, greeted, got, floor>> /\ pc[link] = "resume"
      /\ pc' = [pc EXCEPT ![link] = "read"] /\ Join(link)
  BY DEF Resume, entries, edge, Goto
<1>2. link \in Links /\ out = <<>> /\ greeted
  BY <1>1, HandlersTyped DEF Places, Linked, Joined
<1>3. out' = <<>>
  BY <1>1, <1>2, JoinEffect
<1>4. Last' = Last /\ Messages' = Messages /\ DOMAIN out' = {}
  BY <1>1, <1>3 DEF Last, Messages, Logged
<1>5. Outs'
  BY <1>1, <1>2, <1>3, <1>4, QueueTyped DEF Outs, Rising, Queued, Positioned, Ready, Received
<1>6. Passed'
  BY <1>1, <1>4 DEF Cover, Passed
<1>7. NoGap'
  BY <1>4 DEF NoGap
<1>8. Covered(last)'
  BY <1>1, <1>4, QueueTyped DEF Covered, Cover, Passed
<1>. QED
  BY <1>5, <1>6, <1>7, <1>8 DEF Cover, UpToLast

\* The game's first link joins: what the log holds so far is not for it.
LEMMA OutsGreet ==
  ASSUME Typed, Places, Outs, Cover, link # None, Greet(link)
  PROVE  Outs' /\ Cover'
<1>1. /\ floor' = Len(log) /\ UNCHANGED <<log, link, cursor, greeted, got, last>> /\ pc[link] = "greet"
      /\ out' = <<Frame("position", last), Frame("id", 0)>>
  BY DEF Greet, entries, edge
<1>2. ~greeted
  BY <1>1 DEF Places, Linked, Joined
<1>3. Last' = Last /\ Messages' = Messages /\ got' = <<>> /\ Placed'
  BY <1>1, <1>2 DEF Last, Messages, Logged, Placed, Frame, Outs, Received
<1>4. DOMAIN out' = {1, 2} /\ out'[1] = Frame("position", last) /\ out'[2] = Frame("id", 0)
  BY <1>1
<1>5. /\ out'[1].kind = "position" /\ out'[1].id = last /\ out'[2].kind = "id"
      /\ \A j \in DOMAIN out' : out'[j].kind # "logged"
  BY <1>4 DEF Frame
<1>t. last \in 0 .. Len(log) /\ Len(log) \in Nat /\ Messages \subseteq 1 .. Len(log)
  BY QueueTyped
<1>6. Rising' /\ Queued' /\ NoGap'
  BY <1>5 DEF Rising, Queued, NoGap
<1>7. Positioned' /\ Ready' /\ Received'
  BY <1>1, <1>2, <1>3, <1>4, <1>5, <1>t DEF Positioned, Ready, Received, Outs
<1>8. Passed' /\ \A h : Covered(h)'
  BY <1>1, <1>3, <1>t DEF Passed, Covered
<1>. QED
  BY <1>6, <1>7, <1>8 DEF Outs, Cover, UpToLast

\* What the head of the queue says of it.
LEMMA Headed ==
  ASSUME Typed, Places, Outs, Cover, link # None, out # <<>>
  PROVE  /\ Head(out) = out[1] /\ 1 \in DOMAIN out /\ pc[link] \in Joined /\ Len(out) \in Nat
         /\ DOMAIN out = 1 .. Len(out) /\ DOMAIN Tail(out) = 1 .. Len(out) - 1
         /\ \A i \in DOMAIN Tail(out) : i + 1 \in DOMAIN out /\ Tail(out)[i] = out[i + 1]
         /\ \A i \in DOMAIN out : i = 1 \/ (i - 1 \in DOMAIN Tail(out) /\ out[i] = Tail(out)[i - 1])
         /\ \A i \in DOMAIN Tail(out) : Tail(out)[i].kind # "position"
         /\ out[1].kind \in {"position", "id", "logged", "close"} /\ out[1].id \in 0 .. Len(log)
         /\ Tail(out) = <<>> \/ 1 \in DOMAIN Tail(out)
<1>1. out \in Seq(Frames) /\ \A i \in DOMAIN out : out[i].id \in 0 .. Len(log) /\ out[i].kind \in {"position", "id", "logged", "close"}
  BY QueueTyped
<1>2. /\ Head(out) = out[1] /\ Len(out) \in Nat /\ Len(out) >= 1 /\ Len(Tail(out)) = Len(out) - 1 /\ Tail(out) \in Seq(Frames)
      /\ DOMAIN out = 1 .. Len(out) /\ DOMAIN Tail(out) = 1 .. Len(out) - 1
      /\ \A i \in 1 .. Len(out) - 1 : Tail(out)[i] = out[i + 1]
  BY <1>1, Tailed
<1>3. \A i \in DOMAIN Tail(out) : i + 1 \in DOMAIN out /\ Tail(out)[i] = out[i + 1] /\ i + 1 # 1
  BY <1>2
<1>4. \A i \in DOMAIN out : i = 1 \/ (i - 1 \in DOMAIN Tail(out) /\ out[i] = Tail(out)[i - 1])
  BY <1>2
<1>5. \A i \in DOMAIN Tail(out) : Tail(out)[i].kind # "position"
  BY <1>3 DEF Outs, Positioned
<1>6. pc[link] \in Joined
  BY DEF Places, Linked
<1>7. Tail(out) = <<>> \/ 1 \in DOMAIN Tail(out)
  <2>1. Len(Tail(out)) = 0 => Tail(out) = <<>>
    BY <1>2, EmptySeq
  <2>. QED
    BY <1>2, <2>1
<1>. QED
  BY <1>1, <1>2, <1>3, <1>4, <1>5, <1>6, <1>7

\* The edge takes the head of the queue: its cursor and the game follow.
LEMMA OutsReceive ==
  ASSUME Typed, Places, Outs, Cover, Receive
  PROVE  Outs' /\ Cover'
<1>1. /\ link # None /\ out # <<>> /\ out' = Tail(out)
      /\ UNCHANGED <<log, pc, link, last, closing, floor>>
  BY DEF Receive, entries, handlers
<1> DEFINE f == out[1]
<1>h. /\ Head(out) = f /\ 1 \in DOMAIN out /\ pc[link] \in Joined /\ Len(out) \in Nat
      /\ DOMAIN out = 1 .. Len(out) /\ DOMAIN out' = 1 .. Len(out) - 1
      /\ \A i \in DOMAIN out' : i + 1 \in DOMAIN out /\ out'[i] = out[i + 1]
      /\ \A i \in DOMAIN out : i = 1 \/ (i - 1 \in DOMAIN out' /\ out[i] = out'[i - 1])
      /\ \A i \in DOMAIN out' : out'[i].kind # "position"
      /\ f.kind \in {"position", "id", "logged", "close"} /\ f.id \in 0 .. Len(log)
      /\ out' = <<>> \/ 1 \in DOMAIN out'
  BY <1>1, Headed
<1>t. /\ Len(log) \in Nat /\ last \in 0 .. Len(log) /\ floor \in 0 .. Len(log) /\ cursor \in 0 .. Len(log) /\ greeted \in BOOLEAN
      /\ Messages \subseteq Nat /\ Last \in Nat /\ got \in Seq(Logged)
      /\ \A i \in DOMAIN out : out[i].id \in Nat
  BY QueueTyped
<1>o. Rising /\ Queued /\ Positioned /\ Ready /\ Received /\ Passed /\ NoGap /\ UpToLast
  BY DEF Outs, Cover
<1>m. Messages' = Messages
  BY <1>1 DEF Messages, Logged
<1>p. ~Placed'
  BY <1>h DEF Placed
<1>b. Placed <=> f.kind = "position"
  BY <1>1 DEF Placed
<1>n. \A i \in DOMAIN out' : i \in Nat /\ 1 < i + 1
  BY <1>h
<1> HIDE DEF f
\* What stays queued is what was, one place nearer.
<1>2. Rising' /\ Positioned'
  <2>1. Rising'
    <3> SUFFICES ASSUME NEW i \in DOMAIN out', NEW j \in DOMAIN out', i < j, out'[j].kind = "logged", out'[i].kind \in {"position", "logged"}
                 PROVE  out'[i].id < out'[j].id
      BY DEF Rising
    <3>1. i + 1 < j + 1
      BY <1>n
    <3>. QED
      BY <1>h, <1>o, <3>1 DEF Rising
  <2>. QED
    BY <1>h, <2>1 DEF Positioned
<1>3. \A m \in Messages : \A h : Covered(h) /\ Last < m /\ m <= h /\ m > floor /\ ~(f.kind = "logged" /\ f.id = m) =>
          \E i \in DOMAIN out' : out'[i].kind = "logged" /\ out'[i].id = m
  BY <1>h DEF Covered, f
<1>4. CASE f.kind = "position"
  <2>1. cursor' = f.id /\ UNCHANGED <<greeted, got>> /\ ~greeted /\ f.id <= floor /\ f.id <= last /\ got = <<>>
    BY <1>4, <1>h, <1>o DEF Receive, Positioned, Received, f
  <2>2. Last' = Last /\ Last = 0
    BY <2>1 DEF Last
  <2>3. Queued'
    <3> SUFFICES ASSUME NEW j \in DOMAIN out', out'[j].kind = "logged"
                 PROVE  /\ out'[j].id \in Messages /\ out'[j].id <= last
                        /\ out'[j].id > f.id
                        /\ \E i \in DOMAIN out' : i < j /\ out'[i].kind = "id"
      BY <1>1, <1>m, <2>1 DEF Queued
    <3>1. j + 1 \in DOMAIN out /\ out'[j] = out[j + 1] /\ 1 < j + 1
      BY <1>h, <1>n
    <3>2. out'[j].id \in Messages /\ out'[j].id <= last /\ \E i \in DOMAIN out : i < j + 1 /\ out[i].kind = "id"
      BY <1>o, <2>1, <3>1 DEF Queued
    <3>3. f.id < out'[j].id
      BY <1>4, <1>h, <1>o, <3>1 DEF Rising, f
    <3>4. PICK i \in DOMAIN out : i < j + 1 /\ out[i].kind = "id"
      BY <3>2
    <3>5. i # 1
      BY <1>4, <3>4 DEF f
    <3>6. i - 1 \in DOMAIN out' /\ out'[i - 1].kind = "id" /\ i - 1 < j
      BY <1>h, <1>n, <3>4, <3>5
    <3>. QED
      BY <1>t, <3>1, <3>2, <3>3, <3>6
  <2>4. Ready'
    <3>1. PICK i \in DOMAIN out : out[i].kind = "id"
      BY <1>1, <1>h, <1>o, <2>1 DEF Ready
    <3>2. i - 1 \in DOMAIN out' /\ out'[i - 1].kind = "id"
      BY <1>4, <1>h, <3>1 DEF f
    <3>. QED
      BY <2>1, <3>2, <1>1 DEF Ready
  <2>5. Received'
    BY <1>h, <2>1, <2>2 DEF Received
  <2>6. Passed'
    BY <1>1, <1>h, <1>m, <1>t, <2>1 DEF Passed
  <2>7. \A h : Covered(h) => Covered(h)'
    BY <1>1, <1>3, <1>4, <1>m, <2>2 DEF Covered
  <2>8. NoGap'
    BY <1>h, <1>o, <2>7 DEF NoGap
  <2>9. UpToLast'
    BY <1>1, <1>o, <2>7 DEF UpToLast
  <2>. QED
    BY <1>2, <2>3, <2>4, <2>5, <2>6, <2>8, <2>9 DEF Outs, Cover
<1>5. CASE f.kind = "id"
  <2>1. UNCHANGED <<cursor, got>> /\ greeted' = TRUE /\ ~Placed
    BY <1>5, <1>b, <1>h DEF Receive
  <2>2. Last' = Last
    BY <2>1 DEF Last
  <2>3. Queued'
    BY <1>1, <1>h, <1>m, <1>o, <2>1 DEF Queued
  <2>4. Ready'
    BY <1>1, <1>h, <1>o, <2>1 DEF Ready
  <2>5. Received' /\ Passed'
    BY <1>1, <1>m, <1>o, <2>1, <2>2 DEF Received, Passed
  <2>7. \A h : Covered(h) => Covered(h)'
    BY <1>1, <1>3, <1>5, <1>m, <2>2 DEF Covered
  <2>8. NoGap'
    BY <1>h, <1>o, <2>7 DEF NoGap
  <2>9. UpToLast'
    BY <1>1, <1>o, <2>7 DEF UpToLast
  <2>. QED
    BY <1>2, <2>3, <2>4, <2>5, <2>8, <2>9 DEF Outs, Cover
<1>6. CASE f.kind = "logged"
  <2>1. ~Placed /\ f.id \in Messages /\ f.id > cursor /\ f.id <= last
    BY <1>6, <1>b, <1>h, <1>o DEF Queued, f
  <2>g. greeted
    <3>1. ~greeted => \E i \in DOMAIN out : i < 1 /\ out[i].kind = "id"
      BY <1>6, <1>h, <1>o DEF Queued, f
    <3>. QED
      BY <1>h, <3>1
  <2>2. cursor' = f.id /\ got' = Append(got, f.id) /\ greeted' = greeted
    BY <1>6, <1>h, <2>1 DEF Receive
  <2>3. Last' = f.id
    <3>1. f.id \in Logged
      BY <2>1 DEF Messages
    <3>2. got' # <<>> /\ Len(got') = Len(got) + 1 /\ got'[Len(got) + 1] = f.id
      BY <1>t, <2>2, <3>1
    <3>. QED
      BY <3>2 DEF Last
  <2>4. \A j \in DOMAIN out' : out'[j].kind = "logged" => out'[j].id > f.id /\ out'[j].id \in Messages /\ out'[j].id <= last
    BY <1>6, <1>h, <1>n, <1>o DEF Queued, Rising, f
  <2>5. Queued'
    BY <1>1, <1>m, <2>2, <2>4, <2>g DEF Queued
  <2>6. Ready' /\ Received'
    BY <1>1, <1>h, <2>1, <2>2, <2>3, <2>g DEF Ready, Received
  <2>7. Passed'
    BY <1>h, <1>m, <1>t, <2>2, <2>3 DEF Passed
  <2>8. \A h : Covered(h) => Covered(h)'
    <3> SUFFICES ASSUME NEW h, Covered(h), NEW m \in Messages, f.id < m, m <= h, m > floor
                 PROVE  \E i \in DOMAIN out' : out'[i].kind = "logged" /\ out'[i].id = m
      BY <1>1, <1>m, <2>3 DEF Covered
    <3>1. Last <= cursor /\ cursor < f.id /\ f.id \in Nat /\ m \in Nat
      BY <1>h, <1>o, <1>t, <2>1 DEF Received
    <3>2. Last < m /\ f.id # m
      BY <1>t, <3>1
    <3>. QED
      BY <1>3, <3>2
  <2>9. NoGap'
    BY <1>h, <1>o, <2>8 DEF NoGap
  <2>10. UpToLast'
    BY <1>1, <1>o, <2>8 DEF UpToLast
  <2>. QED
    BY <1>2, <2>5, <2>6, <2>7, <2>9, <2>10 DEF Outs, Cover
<1>. QED
  BY <1>4, <1>5, <1>6, <1>h DEF Receive

-----------------------------------------------------------------------------
(* What is still to be queued. *)

\* A node handles its messages in the log's order.
InOrder == \A n \in Nodes : \A i, j \in DOMAIN send[n] : i < j => send[n][i] < send[n][j]

\* Message m is yet to be queued on the edge's link: read, held or delivered.
Coming(m) ==
  \/ pc[link] = "read"
  \/ pc[link] = "replay" /\ m <= upto
  \/ pc[link] \in {"replay", "drain"} /\ \E i \in DOMAIN held : held[i] = m
  \/ \E i \in DOMAIN send[at[link]] : send[at[link]][i] = m

\* What a resume holds is in the log's order, and before what its node has yet
\* to handle.
HeldFirst ==
  /\ \A i, j \in DOMAIN held : i < j /\ held[i] \in Messages /\ held[j] \in Messages => held[i] < held[j]
  /\ \A i \in DOMAIN held, j \in DOMAIN send[at[link]] : held[i] \in Messages => held[i] < send[at[link]][j]

Serving == link # None /\ pc[link] \in Joined /\ ~closing

Pending ==
  Serving =>
    /\ pc[link] \in {"read", "replay", "drain"} => \A m \in Messages : m <= pos => m <= last
    /\ \A m \in Messages : m > last /\ m > floor => Coming(m)
    /\ pc[link] # "live" => HeldFirst

LEMMA PendingInit == Init => InOrder /\ Pending
BY DEF Init, InOrder, Pending, Serving

LEMMA SendTyped ==
  ASSUME Typed
  PROVE  /\ send \in [Nodes -> Seq(Messages)] /\ Messages \subseteq 1 .. Len(log) /\ Messages \subseteq Nat /\ Len(log) \in Nat
         /\ \A n \in Nodes : /\ send[n] \in Seq(Messages) /\ Len(send[n]) \in Nat /\ DOMAIN send[n] = 1 .. Len(send[n])
                             /\ \A i \in DOMAIN send[n] : send[n][i] \in Messages
         /\ held \in Seq(Applying) /\ Len(held) \in Nat /\ DOMAIN held = 1 .. Len(held)
         /\ \A i \in DOMAIN held : held[i] \in Applying
         /\ Applying \subseteq 1 .. Len(log) /\ Applying \subseteq Nat
<1>1. send \in [Nodes -> Seq(Messages)] /\ Len(log) \in Nat /\ held \in Seq(Applying)
  BY DEF Typed, EntriesOK, QueueOK
<1>2. Messages \subseteq 1 .. Len(log) /\ Applying \subseteq 1 .. Len(log)
  BY DEF Messages, Applying, Logged
<1>3. \A n \in Nodes : send[n] \in Seq(Messages)
  BY <1>1
<1>4. \A S : \A q \in Seq(S) : Len(q) \in Nat /\ DOMAIN q = 1 .. Len(q) /\ \A i \in DOMAIN q : q[i] \in S
  OBVIOUS
<1>. QED
  BY <1>1, <1>2, <1>3, <1>4

\* The effect of an entry taken from the front of a queue, and of one added.
LEMMA TailIs ==
  ASSUME NEW S, NEW q \in Seq(S), q # <<>>
  PROVE  /\ Head(q) = q[1] /\ 1 \in DOMAIN q /\ Head(q) \in S
         /\ \A i \in DOMAIN Tail(q) : i + 1 \in DOMAIN q /\ Tail(q)[i] = q[i + 1] /\ 1 < i + 1 /\ i \in Nat
         /\ \A i \in DOMAIN q : i = 1 \/ (i - 1 \in DOMAIN Tail(q) /\ q[i] = Tail(q)[i - 1] /\ i \in Nat /\ 1 < i)
         /\ DOMAIN q \subseteq Nat
<1>1. /\ Tail(q) \in Seq(S) /\ Len(q) \in Nat /\ Len(q) >= 1 /\ Head(q) = q[1] /\ q[1] \in S
      /\ DOMAIN q = 1 .. Len(q) /\ DOMAIN Tail(q) = 1 .. Len(q) - 1
      /\ \A i \in 1 .. Len(q) - 1 : Tail(q)[i] = q[i + 1]
  BY Tailed
<1>. QED
  BY <1>1

LEMMA AppendIs ==
  ASSUME NEW S, NEW q \in Seq(S), NEW e \in S
  PROVE  /\ \A i \in DOMAIN q : i \in DOMAIN Append(q, e) /\ Append(q, e)[i] = q[i] /\ i < Len(q) + 1
         /\ Len(q) + 1 \in DOMAIN Append(q, e) /\ Append(q, e)[Len(q) + 1] = e
         /\ \A i \in DOMAIN Append(q, e) : i \in DOMAIN q \/ i = Len(q) + 1
         /\ DOMAIN q \subseteq Nat /\ Len(q) \in Nat
<1>1. /\ Len(q) \in Nat
      /\ DOMAIN q = 1 .. Len(q) /\ DOMAIN Append(q, e) = 1 .. Len(q) + 1
      /\ \A i \in 1 .. Len(q) : Append(q, e)[i] = q[i]
      /\ Append(q, e)[Len(q) + 1] = e
  BY Appended
<1>. QED
  BY <1>1

LEMMA InOrderStep ==
  ASSUME Typed, InOrder, [Next]_vars
  PROVE  InOrder'
<1>u. send' = send => InOrder'
  BY DEF InOrder
<1>1. ASSUME NEW kind \in Kinds, Send(kind) PROVE InOrder'
  <2>1. CASE kind # "message"
    BY <1>1, <1>u, <2>1 DEF Send
  <2>2. CASE kind = "message"
    <3> DEFINE new == Len(log) + 1
    <3>1. send' = [n \in Nodes |-> IF n \in up THEN Append(send[n], new) ELSE send[n]]
      BY <1>1, <2>2 DEF Send
    <3> SUFFICES ASSUME NEW n \in Nodes, NEW i \in DOMAIN send'[n], NEW j \in DOMAIN send'[n], i < j
                 PROVE  send'[n][i] < send'[n][j]
      BY DEF InOrder
    <3>2. CASE n \notin up
      BY <3>1, <3>2 DEF InOrder
    <3>3. CASE n \in up
      <4>1. send[n] \in Seq(Messages \cup {new}) /\ new \in Messages \cup {new}
        <5>1. send[n] \in Seq(Messages)
          BY SendTyped
        <5>. QED
          BY <5>1, SeqMonotonic, Messages \subseteq Messages \cup {new}
      <4>2. send'[n] = Append(send[n], new)
        BY <3>1, <3>3
      <4>3. /\ \A x \in DOMAIN send[n] : x \in DOMAIN send'[n] /\ send'[n][x] = send[n][x] /\ x < Len(send[n]) + 1
            /\ send'[n][Len(send[n]) + 1] = new
            /\ \A x \in DOMAIN send'[n] : x \in DOMAIN send[n] \/ x = Len(send[n]) + 1
            /\ DOMAIN send[n] \subseteq Nat /\ Len(send[n]) \in Nat
        BY <4>1, <4>2, AppendIs
      <4>4. \A x \in DOMAIN send[n] : send[n][x] < new
        BY SendTyped
      <4>5. i \in DOMAIN send[n]
        BY <4>3
      <4>. QED
        BY <4>3, <4>4, <4>5 DEF InOrder
    <3>. QED
      BY <3>2, <3>3
  <2>. QED
    BY <2>1, <2>2
<1>2. ASSUME NEW n \in Nodes, Deliver(n) PROVE InOrder'
  <2>1. send' = [send EXCEPT ![n] = Tail(send[n])] /\ send[n] # <<>>
    BY <1>2 DEF Deliver
  <2>2. send \in [Nodes -> Seq(Messages)]
    BY SendTyped
  <2>3. \A i \in DOMAIN Tail(send[n]) : i + 1 \in DOMAIN send[n] /\ Tail(send[n])[i] = send[n][i + 1] /\ i \in Nat
    BY <2>1, <2>2, TailIs
  <2>. QED
    BY <2>1, <2>2, <2>3 DEF InOrder
<1>3. ASSUME NEW n \in Nodes, NodeDies(n) PROVE InOrder'
  <2>1. send' = [send EXCEPT ![n] = <<>>] /\ send \in [Nodes -> Seq(Messages)] /\ DOMAIN <<>> = {}
    BY <1>3, SendTyped DEF NodeDies
  <2>. QED
    BY <2>1 DEF InOrder
<1>4. ASSUME NEW n \in Nodes, Disconnect(n) PROVE send' = send
  BY <1>4 DEF Disconnect
<1>5. ASSUME NEW k \in Links, Handler(k) \/ ClaimFails(k) PROVE send' = send
  BY <1>5 DEF Handler, Claim, Greet, Resume, Read, Replay, EndReplay, Drain, Leave, ClaimFails, entries
<1>6. ASSUME NEW k \in Links, NEW n \in Nodes, Attach(k, n) PROVE send' = send
  BY <1>6 DEF Attach, entries
<1>7. Receive \/ ReceiveClose \/ LinkLost \/ GameLeaves \/ UNCHANGED vars => send' = send
  BY DEF Receive, ReceiveClose, LinkLost, GameLeaves, vars, entries
<1>. QED
  BY <1>u, <1>1, <1>2, <1>3, <1>4, <1>5, <1>6, <1>7 DEF Next

\* No message is passed over: what is queued next is the first still to come.
LEMMA NextOfNode ==
  ASSUME Typed, Places, InOrder, Pending, Serving, pc[link] = "live", send[at[link]] # <<>>,
         NEW m \in Messages, last < m, m < Head(send[at[link]])
  PROVE  m <= floor
<1>1. at[link] \in Nodes /\ link \in Links
  BY HandlersTyped DEF Serving
<1>2. send[at[link]] \in Seq(Messages)
  BY <1>1, SendTyped
<1>3. Head(send[at[link]]) = send[at[link]][1] /\ 1 \in DOMAIN send[at[link]] /\ Head(send[at[link]]) \in Messages
  BY <1>2, TailIs
<1>4. \A i \in DOMAIN send[at[link]] : i = 1 \/ 1 < i
  BY <1>2
<1>n. \A i \in DOMAIN send[at[link]] : send[at[link]][i] \in Nat
  BY <1>1, SendTyped
<1>5. \A i \in DOMAIN send[at[link]] : ~(send[at[link]][i] < send[at[link]][1])
  <2>1. \A i \in DOMAIN send[at[link]] : 1 < i => send[at[link]][1] < send[at[link]][i]
    BY <1>1, <1>3 DEF InOrder
  <2>. QED
    BY <1>3, <1>4, <1>n, <2>1
<1>6. m > floor => Coming(m)
  BY DEF Pending, Serving
<1>7. ~Coming(m)
  BY <1>3, <1>5 DEF Coming
<1>8. m \in Nat /\ floor \in Nat
  BY QueueTyped
<1>. QED
  BY <1>6, <1>7, <1>8

LEMMA NextOfReplay ==
  ASSUME Typed, Pending, Serving, pc[link] = "replay",
         NEW m \in Messages, last < m, m < pos + 1
  PROVE  FALSE
<1>1. m <= pos => m <= last
  BY DEF Pending
<1>2. m \in Nat /\ pos \in Nat /\ last \in Nat
  BY QueueTyped
<1>. QED
  BY <1>1, <1>2

LEMMA NextOfHeld ==
  ASSUME Typed, Places, Pending, Serving, pc[link] = "drain", held # <<>>, Head(held) \in Messages,
         NEW m \in Messages, last < m, m < Head(held)
  PROVE  m <= floor
<1>1. at[link] \in Nodes /\ link \in Links
  BY HandlersTyped DEF Serving
<1>2. held \in Seq(Applying) /\ send[at[link]] \in Seq(Messages)
  BY <1>1, SendTyped
<1>3. Head(held) = held[1] /\ 1 \in DOMAIN held /\ \A i \in DOMAIN held : i = 1 \/ 1 < i
  BY <1>2, TailIs
<1>h. HeldFirst
  BY DEF Pending
<1>m. m \in Nat /\ floor \in Nat /\ Messages \subseteq Nat
  BY QueueTyped
<1>k. held[1] \in Messages /\ held[1] \in Nat /\ m < held[1]
  BY <1>3, <1>m
<1>4. \A i \in DOMAIN held : held[i] # m
  <2>1. \A i \in DOMAIN held : 1 < i /\ held[i] \in Messages => held[1] < held[i]
    BY <1>3, <1>h, <1>k DEF HeldFirst
  <2>. QED
    BY <1>3, <1>k, <1>m, <2>1
<1>5. \A i \in DOMAIN send[at[link]] : send[at[link]][i] # m
  <2>1. \A i \in DOMAIN send[at[link]] : held[1] < send[at[link]][i]
    BY <1>3, <1>h, <1>k DEF HeldFirst
  <2>. QED
    BY <1>k, <1>m, <2>1
<1>6. m > floor => Coming(m)
  BY DEF Pending, Serving
<1>7. ~Coming(m)
  BY <1>4, <1>5 DEF Coming
<1>. QED
  BY <1>6, <1>7, <1>m

LEMMA OutsStep ==
  ASSUME Typed, Places, Outs, Cover, InOrder, Pending, [Next]_vars
  PROVE  Outs' /\ Cover'
<1>h. /\ pc \in [Links -> Ended \cup {"claim", "greet", "resume", "read", "replay", "drain", "live"}]
      /\ link \in Links \cup {None} /\ None \notin Links
      /\ Ended = {"idle", "done"}
  BY HandlersTyped
<1>m. log' = log => Messages' = Messages
  BY DEF Messages, Logged
\* The queue is left alone.
<1>s. ASSUME UNCHANGED <<log, link, cursor, greeted, got, floor, out, last>>,
             link # None /\ pc'[link] \in Joined => pc[link] \in Joined,
             link # None /\ pc'[link] \notin {"claim", "greet"} => pc[link] \notin {"claim", "greet"},
             closing => closing'
      PROVE  Outs' /\ Cover'
  BY <1>m, <1>s, OutsSame
<1>u. UNCHANGED <<log, handlers, edge, queue, floor>> => Outs' /\ Cover'
  BY <1>s DEF handlers, edge, queue
<1>g. ASSUME LetGo, UNCHANGED <<log, cursor, greeted, got, floor>> PROVE Outs' /\ Cover'
  BY <1>g, OutsEmpty DEF LetGo
<1>1. ASSUME NEW kind \in Kinds, Send(kind) PROVE Outs' /\ Cover'
  <2>1. UNCHANGED <<pc, link, closing, cursor, greeted, got, floor, out, last>>
    BY <1>1 DEF Send, handlers, edge, queue
  <2>2. Messages \subseteq Messages' /\ \A m \in Messages' : m \in Messages \/ m = Len(log) + 1
    BY <1>1, LogGrows
  <2>. QED
    BY <2>1, <2>2, OutsSame
\* One entry is delivered on the edge's link: what it holds is not disturbed.
<1>d. ASSUME NEW n \in Nodes, Serves(n), ~Gated(n), ~Holding(link) PROVE link # None /\ at[link] = n /\ pc[link] = "live"
  <2>1. link # None /\ current[n] = link
    BY <1>d DEF Serves
  <2>2. pc[link] \in Joined /\ at[link] = n
    BY <2>1 DEF Places, Homes
  <2>. QED
    BY <1>d, <2>1, <2>2 DEF Gated, Holding, Joined
<1>2. ASSUME NEW n \in Nodes, Deliver(n) PROVE Outs' /\ Cover'
  <2>1. UNCHANGED <<log, handlers, edge, pos, upto, floor>> /\ ~Gated(n) /\ send[n] # <<>>
    BY <1>2 DEF Deliver
  <2>l. UNCHANGED <<pc, link, cursor, greeted, got>>
    BY <2>1 DEF handlers, edge
  <2>2. CASE UNCHANGED <<last, out, closing>>
    BY <1>s, <2>1, <2>2, <2>l
  <2>3. CASE Serves(n) /\ ~Holding(link) /\ QueueMessage(Head(send[n])) /\ ~(Head(send[n]) <= last)
    <3>1. link # None /\ at[link] = n /\ pc[link] = "live" /\ pc'[link] = "live"
      BY <1>d, <2>1, <2>3, <2>l
    <3>2. send[n] \in Seq(Messages)
      BY SendTyped
    <3>3. Head(send[n]) \in Messages
      BY <2>1, <3>2, TailIs
    <3>4. Head(send[n]) > last
      BY <2>3, <3>3, QueueTyped
    <3>5. ~closing => \A m \in Messages : last < m /\ m < Head(send[n]) => m <= floor
      BY <2>1, <3>1, NextOfNode DEF Serving, Joined
    <3>. QED
      BY <2>1, <2>3, <3>1, <3>3, <3>4, <3>5, OutsMessage DEF Joined
  <2>. QED
    BY <1>2, <2>2, <2>3 DEF Deliver, DeliverNow
<1>3. ASSUME NEW n \in Nodes, Disconnect(n) PROVE Outs' /\ Cover'
  <2>1. UNCHANGED <<log, handlers, edge, last, floor>> /\ (UNCHANGED <<out, closing>> \/ QueueClose)
    BY <1>3 DEF Disconnect
  <2>l. UNCHANGED <<pc, link, cursor, greeted, got>>
    BY <2>1 DEF handlers, edge
  <2>. QED
    BY <1>s, <2>1, <2>l, OutsClose
<1>4. ASSUME NEW n \in Nodes, NodeDies(n) PROVE Outs' /\ Cover'
  <2>1. UNCHANGED <<log, cursor, greeted, got, floor>> /\ pc' = [k \in Links |-> IF at[k] = n THEN "done" ELSE pc[k]]
    BY <1>4 DEF NodeDies
  <2>2. CASE LetGo
    BY <1>g, <2>1, <2>2
  <2>3. CASE ~(link # None /\ at[link] = n) /\ UNCHANGED <<link, queue>>
    <3>1. link # None => pc'[link] = pc[link]
      BY <1>h, <2>1, <2>3
    <3>. QED
      BY <1>s, <2>1, <2>3, <3>1 DEF queue
  <2>. QED
    BY <1>4, <2>2, <2>3 DEF NodeDies
\* A handler of a link the edge has let go of, or a step of it that queues nothing.
<1>5. ASSUME NEW k \in Links, NEW step, Goto(k, step), UNCHANGED <<log, edge, last, floor>>,
             k # link \/ (pc[k] \in Joined /\ step \in Joined),
             UNCHANGED <<out, closing>> \/ QueueClose
      PROVE  Outs' /\ Cover'
  <2>1. UNCHANGED <<link, cursor, greeted, got>>
    BY <1>5 DEF edge
  <2>2. link # None => pc'[link] = pc[link] \/ (pc[link] \in Joined /\ pc'[link] \in Joined)
    BY <1>5, <1>h DEF Goto
  <2>3. UNCHANGED <<out, closing>> => Outs' /\ Cover'
    BY <1>5, <1>s, <2>1, <2>2 DEF Joined
  <2>. QED
    BY <1>5, <2>1, <2>2, <2>3, OutsClose
<1>6. ASSUME NEW k \in Links, Claim(k) \/ ClaimFails(k) PROVE Outs' /\ Cover'
  <2>1. UNCHANGED <<log, edge, out, closing, floor>> /\ pc[k] = "claim" /\ Goto(k, "greet")
    BY <1>6 DEF Claim, ClaimFails, entries, queue
  <2>2. CASE k = link
    <3>1. out = <<>> /\ pc'[link] = "greet"
      BY <1>h, <2>1, <2>2 DEF Places, Linked, Joined, Goto
    <3>2. link' = link /\ UNCHANGED <<cursor, greeted, got>>
      BY <2>1 DEF edge
    <3>. QED
      BY <2>1, <3>1, <3>2, OutsEmpty DEF Joined
  <2>3. CASE k # link
    <3>1. last' = last
      BY <1>6, <2>3 DEF Claim, ClaimFails, queue
    <3>. QED
      BY <1>5, <2>1, <2>3, <3>1
  <2>. QED
    BY <2>2, <2>3
<1>7. ASSUME NEW k \in Links, Greet(k) PROVE Outs' /\ Cover'
  <2>1. CASE k = link
    BY <1>7, <1>h, <2>1, OutsGreet
  <2>2. CASE k # link
    <3>1. UNCHANGED <<log, edge, last, floor>> /\ Goto(k, "live") /\ Join(k) /\ pc[k] = "greet"
      BY <1>7, <2>2 DEF Greet, entries
    <3>. QED
      BY <1>5, <2>2, <3>1, JoinEffect
  <2>. QED
    BY <2>1, <2>2
<1>8. ASSUME NEW k \in Links, Resume(k) PROVE Outs' /\ Cover'
  <2>1. CASE k = link
    BY <1>8, <1>h, <2>1, OutsResume
  <2>2. CASE k # link
    <3>1. UNCHANGED <<log, edge, last, floor>> /\ Goto(k, "read") /\ Join(k) /\ pc[k] = "resume"
      BY <1>8, <2>2 DEF Resume, entries
    <3>. QED
      BY <1>5, <2>2, <3>1, JoinEffect
  <2>. QED
    BY <2>1, <2>2
<1>9. ASSUME NEW k \in Links, Read(k) \/ EndReplay(k) PROVE Outs' /\ Cover'
  <2>1. UNCHANGED <<log, edge, last, floor, out, closing>> /\ pc[k] \in Joined /\ \E step \in Joined : Goto(k, step)
    BY <1>9 DEF Read, EndReplay, entries, queue, Joined
  <2>. QED
    BY <1>5, <2>1
<1>10. ASSUME NEW k \in Links, Leave(k) PROVE Outs' /\ Cover'
  <2>1. UNCHANGED <<log, edge, last, floor, out, closing>> /\ k # link /\ Goto(k, "done")
    BY <1>10 DEF Leave, entries, queue
  <2>. QED
    BY <1>5, <2>1
<1>11. ASSUME NEW k \in Links, Replay(k) PROVE Outs' /\ Cover'
  <2>1. UNCHANGED <<log, pc, edge, floor>> /\ k = link /\ link # None /\ pc[link] = "replay" /\ pos < upto
    BY <1>11, <1>h DEF Replay, entries, handlers
  <2>2. UNCHANGED <<link, cursor, greeted, got>>
    BY <2>1 DEF edge
  <2>3. CASE log[pos + 1] = "message" /\ QueueMessage(pos + 1)
    <3>1. /\ pos \in Nat /\ upto \in 0 .. Len(log) /\ last \in Nat /\ Len(log) \in Nat
      BY QueueTyped
    <3>2. pos + 1 \in Messages
      BY <2>1, <2>3, <3>1 DEF Messages, Logged
    <3>3. last <= pos
      BY <2>1 DEF Places, Linked
    <3>4. ~closing => \A m \in Messages : last < m /\ m < pos + 1 => m <= floor
      BY <2>1, NextOfReplay DEF Serving, Joined
    <3>5. pos + 1 > last
      BY <3>1, <3>3
    <3>. QED
      BY <2>1, <2>3, <3>2, <3>4, <3>5, OutsMessage DEF Joined
  <2>4. CASE QueueClose /\ UNCHANGED last
    BY <2>1, <2>2, <2>4, OutsClose
  <2>5. CASE UNCHANGED <<last, out, closing>>
    BY <1>s, <2>1, <2>2, <2>5
  <2>. QED
    BY <1>11, <2>3, <2>4, <2>5 DEF Replay
<1>12. ASSUME NEW k \in Links, Drain(k) PROVE Outs' /\ Cover'
  <2>1. UNCHANGED <<log, edge, floor>> /\ pc[k] = "drain" /\ \E step \in {"drain", "live"} : Goto(k, step)
    BY <1>12 DEF Drain, entries
  <2>2. CASE UNCHANGED <<last, out, closing>> \/ (QueueClose /\ UNCHANGED last)
    BY <1>5, <2>1, <2>2 DEF Joined
  <2>3. CASE k = link /\ ~(Head(held) <= pos) /\ log[Head(held)] # "close" /\ ~(Head(held) <= last) /\ QueueMessage(Head(held))
    <3>1. link # None /\ held # <<>> /\ pc[link] = "drain" /\ pc'[link] \in Joined
      BY <1>h, <2>1, <2>3 DEF Typed, DrainOK, Goto, Joined
    <3>2. held \in Seq(Applying)
      BY QueueTyped
    <3>3. Head(held) \in Applying
      BY <3>1, <3>2, TailIs
    <3>4. Head(held) \in Messages
      <4>1. Head(held) \in Logged /\ log[Head(held)] # "other"
        BY <3>3 DEF Applying
      <4>2. log[Head(held)] \in Kinds
        BY <4>1 DEF Typed, EntriesOK, Logged
      <4>. QED
        BY <2>3, <4>1, <4>2, ConstantsAssumption DEF Messages
    <3>5. Head(held) > last
      BY <2>3, <3>4, QueueTyped
    <3>6. ~closing => \A m \in Messages : last < m /\ m < Head(held) => m <= floor
      BY <3>1, <3>4, NextOfHeld DEF Serving, Joined
    <3>. QED
      BY <2>1, <2>3, <3>1, <3>4, <3>5, <3>6, OutsMessage DEF Joined
  <2>. QED
    BY <1>12, <2>2, <2>3 DEF Drain, DeliverNow
<1>13. ASSUME NEW k \in Links, NEW n \in Nodes, Attach(k, n) PROVE Outs' /\ Cover'
  <2>1. /\ link = None /\ link' = k /\ UNCHANGED <<log, cursor, greeted, got, floor, out, last>>
        /\ \E step \in {"resume", "claim"} : pc' = [pc EXCEPT ![k] = step]
    BY <1>13 DEF Attach, entries, queue, Goto
  <2>2. out = <<>> /\ last = 0
    BY <2>1 DEF Places, Unlinked
  <2>3. pc'[link'] \notin Joined
    BY <1>h, <2>1 DEF Joined
  <2>. QED
    BY <2>1, <2>2, <2>3, OutsEmpty
<1>14. ReceiveClose \/ LinkLost \/ GameLeaves => LetGo /\ UNCHANGED <<log, cursor, greeted, got, floor>>
  BY DEF ReceiveClose, LinkLost, GameLeaves, entries
<1>15. UNCHANGED vars => UNCHANGED <<log, handlers, edge, queue, floor>>
  BY DEF vars, entries
<1>. QED
  BY <1>u, <1>g, <1>1, <1>2, <1>3, <1>4, <1>6, <1>7, <1>8, <1>9, <1>10, <1>11, <1>12, <1>13, <1>14, <1>15, OutsReceive DEF Next, Handler

\* What the edge's link has yet to handle is what its node has.
LEMMA ServingTyped ==
  ASSUME Typed, Places, Serving
  PROVE  /\ link \in Links /\ at[link] \in Nodes /\ at[link] \in up /\ current[at[link]] = link /\ Serves(at[link])
         /\ \A n \in Nodes : Serves(n) => n = at[link]
         /\ send[at[link]] \in Seq(Messages)
<1>1. link \in Links /\ at[link] \in Nodes /\ None \notin Links
  BY HandlersTyped DEF Serving, Joined
<1>2. at[link] \in up /\ current[at[link]] = link
  BY DEF Serving, Places, Linked
<1>3. Serves(at[link]) /\ \A n \in Nodes : Serves(n) => n = at[link]
  BY <1>2 DEF Serves, Serving, Places, Homes
<1>4. send[at[link]] \in Seq(Messages)
  BY <1>1, SendTyped
<1>. QED
  BY <1>1, <1>2, <1>3, <1>4

\* A message is logged: the node handles it last.
LEMMA PendingSend ==
  ASSUME Typed, Places, Pending, NEW kind \in Kinds, Send(kind)
  PROVE  Pending'
<1> SUFFICES ASSUME Serving PROVE Pending'
  BY DEF Send, handlers, edge, queue, Serving, Pending
<1> DEFINE n == at[link]
           new == Len(log) + 1
<1>1. UNCHANGED <<pc, at, link, last, pos, upto, held, closing, floor>>
  BY DEF Send, handlers, edge, queue
<1>2. n \in Nodes /\ n \in up /\ send[n] \in Seq(Messages)
  BY ServingTyped
<1>3. /\ pc[link] \in {"read", "replay", "drain"} => \A m \in Messages : m <= pos => m <= last
      /\ \A m \in Messages : m > last /\ m > floor => Coming(m)
      /\ pc[link] # "live" => HeldFirst
  BY DEF Pending
<1>t. /\ new \in Nat /\ pos < new /\ Messages \subseteq Nat /\ \A m \in Messages : m < new /\ \A i \in DOMAIN held : held[i] # new
      /\ \A i \in DOMAIN held : held[i] < new
  BY SendTyped, QueueTyped
<1>4. Messages' = IF kind = "message" THEN Messages \cup {new} ELSE Messages
  BY LogGrows
<1>5. CASE kind # "message"
  <2>1. send' = send /\ Messages' = Messages
    BY <1>4, <1>5 DEF Send
  <2>. QED
    BY <1>1, <1>3, <2>1 DEF Pending, Coming, HeldFirst
<1>6. CASE kind = "message"
  <2>1. send'[n] = Append(send[n], new) /\ Messages' = Messages \cup {new}
    BY <1>2, <1>4, <1>6 DEF Send
  <2>2. send[n] \in Seq(Messages') /\ new \in Messages'
    BY <1>2, <2>1, SeqMonotonic, Messages \subseteq Messages \cup {new}
  <2>3. /\ \A i \in DOMAIN send[n] : i \in DOMAIN send'[n] /\ send'[n][i] = send[n][i]
        /\ Len(send[n]) + 1 \in DOMAIN send'[n] /\ send'[n][Len(send[n]) + 1] = new
        /\ \A i \in DOMAIN send'[n] : i \in DOMAIN send[n] \/ i = Len(send[n]) + 1
    <3>1. /\ \A i \in DOMAIN send[n] : i \in DOMAIN Append(send[n], new) /\ Append(send[n], new)[i] = send[n][i]
          /\ Len(send[n]) + 1 \in DOMAIN Append(send[n], new) /\ Append(send[n], new)[Len(send[n]) + 1] = new
          /\ \A i \in DOMAIN Append(send[n], new) : i \in DOMAIN send[n] \/ i = Len(send[n]) + 1
      BY <2>2, AppendIs
    <3>. QED
      BY <2>1, <3>1
  <2>i. \A i \in DOMAIN held : held[i] \in Messages' => held[i] \in Messages
    BY <1>t, <2>1 DEF Serving
  <2> HIDE DEF new
  <2>4. \A m \in Messages' : m > last /\ m > floor => Coming(m)'
    <3> SUFFICES ASSUME NEW m \in Messages', m > last, m > floor PROVE Coming(m)'
      OBVIOUS
    <3>1. CASE m \in Messages
      <4>1. CASE \E i \in DOMAIN send[n] : send[n][i] = m
        <5>1. \E i \in DOMAIN send'[n] : send'[n][i] = m
          BY <2>3, <4>1
        <5>. QED
          BY <1>1, <5>1 DEF Coming
      <4>2. CASE ~\E i \in DOMAIN send[n] : send[n][i] = m
        <5>1. Coming(m)
          BY <1>3, <3>1
        <5>. QED
          BY <1>1, <4>2, <5>1 DEF Coming
      <4>. QED
        BY <4>1, <4>2
    <3>2. CASE m = new
      <4>1. \E i \in DOMAIN send'[n] : send'[n][i] = m
        BY <2>3, <3>2
      <4>. QED
        BY <1>1, <4>1 DEF Coming
    <3>. QED
      BY <2>1, <3>1, <3>2
  <2>5. HeldFirst => HeldFirst'
    BY <1>1, <1>t, <2>3, <2>i DEF HeldFirst
  <2>6. pc[link] \in {"read", "replay", "drain"} => \A m \in Messages' : m <= pos => m <= last
    <3>1. ~(new <= pos)
      BY <1>t, QueueTyped
    <3>. QED
      BY <1>3, <2>1, <3>1
  <2>. QED
    BY <1>1, <1>3, <2>4, <2>5, <2>6 DEF Pending
<1>. QED
  BY <1>5, <1>6

\* The node hands its next message to the edge's link, which holds it or queues
\* it.
LEMMA PendingDeliver ==
  ASSUME Typed, Places, InOrder, Pending, NEW n \in Nodes, Deliver(n), Serving'
  PROVE  Pending'
<1>1. /\ UNCHANGED <<log, pc, at, link, pos, upto, floor>> /\ send[n] # <<>> /\ send' = [send EXCEPT ![n] = Tail(send[n])]
      /\ ~Gated(n)
  BY DEF Deliver, handlers, edge
<1>2. closing' = closing
  BY DEF Deliver, DeliverNow, QueueMessage
<1>3. Serving
  BY <1>1, <1>2 DEF Serving
<1>4. /\ link \in Links /\ at[link] \in Nodes /\ Serves(at[link])
      /\ \A m \in Nodes : Serves(m) => m = at[link]
      /\ send[at[link]] \in Seq(Messages)
  BY <1>3, ServingTyped
<1>5. /\ pc[link] \in {"read", "replay", "drain"} => \A m \in Messages : m <= pos => m <= last
      /\ \A m \in Messages : m > last /\ m > floor => Coming(m)
      /\ pc[link] # "live" => HeldFirst
  BY <1>3 DEF Pending
<1>6. Messages' = Messages
  BY <1>1 DEF Messages, Logged
<1>7. CASE n # at[link]
  <2>1. UNCHANGED <<last, held>> /\ send'[at[link]] = send[at[link]]
    BY <1>1, <1>4, <1>7 DEF Deliver
  <2>. QED
    BY <1>1, <1>5, <1>6, <2>1 DEF Pending, Coming, HeldFirst
<1>8. CASE n = at[link]
  <2> DEFINE q == send[n]
             id == Head(send[n])
  <2>1. /\ q \in Seq(Messages) /\ send'[n] = Tail(q) /\ send \in [Nodes -> Seq(Messages)]
    BY <1>1, <1>4, <1>8, SendTyped
  <2>2. /\ id = q[1] /\ 1 \in DOMAIN q /\ id \in Messages
        /\ \A i \in DOMAIN send'[n] : i + 1 \in DOMAIN q /\ send'[n][i] = q[i + 1] /\ 1 < i + 1
        /\ \A i \in DOMAIN q : i = 1 \/ (i - 1 \in DOMAIN send'[n] /\ q[i] = send'[n][i - 1])
    <3>1. /\ id = q[1] /\ 1 \in DOMAIN q /\ id \in Messages
          /\ \A i \in DOMAIN Tail(q) : i + 1 \in DOMAIN q /\ Tail(q)[i] = q[i + 1] /\ 1 < i + 1
          /\ \A i \in DOMAIN q : i = 1 \/ (i - 1 \in DOMAIN Tail(q) /\ q[i] = Tail(q)[i - 1])
      BY <1>1, <2>1, TailIs
    <3>. QED
      BY <2>1, <3>1
  <2>3. \A i \in DOMAIN send'[n] : id < send'[n][i]
    BY <2>2 DEF InOrder
  <2> HIDE DEF q, id
  <2>4. CASE Holding(link)
    <3>1. held' = Append(held, id) /\ last' = last /\ pc[link] \in {"read", "replay"}
      BY <1>4, <1>8, <2>4 DEF Deliver, Holding, id
    <3>2. held \in Seq(Applying) /\ id \in Applying
      BY <2>2, SendTyped DEF Applying, Messages
    <3>3. /\ \A i \in DOMAIN held : i \in DOMAIN held' /\ held'[i] = held[i] /\ i < Len(held) + 1
          /\ Len(held) + 1 \in DOMAIN held' /\ held'[Len(held) + 1] = id
          /\ \A i \in DOMAIN held' : i \in DOMAIN held \/ i = Len(held) + 1
          /\ DOMAIN held \subseteq Nat /\ Len(held) \in Nat
      <4>1. /\ \A i \in DOMAIN held : i \in DOMAIN Append(held, id) /\ Append(held, id)[i] = held[i] /\ i < Len(held) + 1
            /\ Len(held) + 1 \in DOMAIN Append(held, id) /\ Append(held, id)[Len(held) + 1] = id
            /\ \A i \in DOMAIN Append(held, id) : i \in DOMAIN held \/ i = Len(held) + 1
            /\ DOMAIN held \subseteq Nat /\ Len(held) \in Nat
        BY <3>2, AppendIs
      <4>. QED
        BY <3>1, <4>1
    <3>4. \A m \in Messages : m > last /\ m > floor => Coming(m)'
      <4> SUFFICES ASSUME NEW m \in Messages, Coming(m), pc[link] # "read", ~(m <= upto) PROVE Coming(m)'
        BY <1>1, <1>5, <3>1 DEF Coming
      <4>1. CASE \E i \in DOMAIN held : held[i] = m
        BY <1>1, <3>1, <3>3, <4>1 DEF Coming
      <4>2. CASE \E i \in DOMAIN q : q[i] = m
        <5>1. m = id \/ \E i \in DOMAIN send'[n] : send'[n][i] = m
          BY <2>2, <4>2
        <5>. QED
          BY <1>1, <1>8, <3>1, <3>3, <5>1 DEF Coming
      <4>. QED
        BY <1>8, <4>1, <4>2 DEF Coming, q
    <3>5. HeldFirst'
      <4>h. HeldFirst
        BY <1>5, <3>1
      <4>i. \A i \in DOMAIN held : held[i] \in Messages => held[i] < id
        BY <1>8, <2>2, <4>h DEF HeldFirst, q
      <4>1. \A i, j \in DOMAIN held' : i < j /\ held'[i] \in Messages /\ held'[j] \in Messages => held'[i] < held'[j]
        <5> SUFFICES ASSUME NEW i \in DOMAIN held', NEW j \in DOMAIN held', i < j, held'[i] \in Messages, held'[j] \in Messages
                     PROVE  held'[i] < held'[j]
          OBVIOUS
        <5>1. i \in DOMAIN held
          BY <3>3
        <5>. QED
          BY <3>3, <4>h, <4>i, <5>1 DEF HeldFirst
      <4>2. \A i \in DOMAIN held', j \in DOMAIN send'[n] : held'[i] \in Messages => held'[i] < send'[n][j]
        BY <1>8, <2>2, <2>3, <3>3, <4>h DEF HeldFirst, q
      <4>. QED
        BY <1>1, <1>6, <1>8, <4>1, <4>2 DEF HeldFirst
    <3>. QED
      BY <1>1, <1>5, <1>6, <3>1, <3>4, <3>5 DEF Pending
  <2>5. CASE ~Holding(link)
    <3>1. held' = held /\ pc[link] = "live"
      BY <1>1, <1>3, <1>4, <1>8, <2>5 DEF Deliver, Holding, Serving, Joined, Gated
    <3>2. (id <= last /\ last' = last) \/ (~(id <= last) /\ last' = id)
      BY <1>4, <1>8, <2>5 DEF Deliver, DeliverNow, QueueMessage, id
    <3>t. last \in Nat /\ Messages \subseteq Nat /\ floor \in Nat
      BY QueueTyped
    <3>3. \A m \in Messages : m > last' /\ m > floor => Coming(m)'
      <4> SUFFICES ASSUME NEW m \in Messages, m > last', m > floor PROVE \E i \in DOMAIN send'[n] : send'[n][i] = m
        BY <1>1, <1>8 DEF Coming
      <4>1. m # id
        BY <2>2, <3>2, <3>t
      <4>2. m > last
        BY <2>2, <3>2, <3>t
      <4>3. \E i \in DOMAIN q : q[i] = m
        BY <1>5, <1>8, <3>1, <4>2 DEF Coming, q
      <4>. QED
        BY <2>2, <4>1, <4>3
    <3>. QED
      BY <1>1, <1>6, <3>1, <3>3 DEF Pending
  <2>. QED
    BY <2>4, <2>5
<1>. QED
  BY <1>7, <1>8

\* A close that is held is no message.
LEMMA PendingDisconnect ==
  ASSUME Typed, Places, Pending, NEW n \in Nodes, Disconnect(n), Serving'
  PROVE  Pending'
<1>1. UNCHANGED <<log, send, pc, at, link, last, pos, upto, floor>> /\ close[n] # <<>>
  BY DEF Disconnect, handlers, edge
<1>2. closing' = closing /\ (held' = held \/ (held' = Append(held, Head(close[n])) /\ log[Head(close[n])] # "other"))
  BY DEF Disconnect, QueueClose, Serving
<1>3. /\ pc[link] \in {"read", "replay", "drain"} => \A m \in Messages : m <= pos => m <= last
      /\ \A m \in Messages : m > last /\ m > floor => Coming(m)
      /\ pc[link] # "live" => HeldFirst
  BY <1>1, <1>2 DEF Pending, Serving
<1>4. Messages' = Messages
  BY <1>1 DEF Messages, Logged
<1>5. CASE held' = held
  BY <1>1, <1>3, <1>4, <1>5 DEF Pending, Coming, HeldFirst
<1>6. CASE held' = Append(held, Head(close[n])) /\ log[Head(close[n])] # "other"
  <2> DEFINE id == Head(close[n])
  <2>1. id \in Others
    <3>1. close[n] \in Seq(Others)
      BY DEF Typed, EntriesOK
    <3>. QED
      BY <1>1, <3>1, TailIs
  <2>2. held \in Seq(Applying) /\ id \in Applying /\ id \notin Messages
    BY <1>6, <2>1, SendTyped DEF Applying, Others
  <2> HIDE DEF id
  <2>3. /\ \A i \in DOMAIN held : i \in DOMAIN Append(held, id) /\ Append(held, id)[i] = held[i] /\ i < Len(held) + 1
        /\ Len(held) + 1 \in DOMAIN Append(held, id) /\ Append(held, id)[Len(held) + 1] = id
        /\ \A i \in DOMAIN Append(held, id) : i \in DOMAIN held \/ i = Len(held) + 1
        /\ DOMAIN held \subseteq Nat /\ Len(held) \in Nat
    BY <2>2, AppendIs
  <2>4. held' = Append(held, id)
    BY <1>6 DEF id
  <2>5. \A i \in DOMAIN held' : held'[i] \in Messages => i \in DOMAIN held /\ held'[i] = held[i]
    BY <2>2, <2>3, <2>4
  <2>6. \A i \in DOMAIN held : i \in DOMAIN held' /\ held'[i] = held[i]
    BY <2>3, <2>4
  <2>7. \A m \in Messages : Coming(m) => Coming(m)'
    <3> SUFFICES ASSUME NEW m \in Messages, Coming(m) PROVE Coming(m)'
      OBVIOUS
    <3>1. (\E i \in DOMAIN held : held[i] = m) => \E i \in DOMAIN held' : held'[i] = m
      BY <2>6
    <3>. QED
      BY <1>1, <3>1 DEF Coming
  <2>8. HeldFirst => HeldFirst'
    BY <1>1, <1>4, <2>5 DEF HeldFirst
  <2>. QED
    BY <1>1, <1>3, <1>4, <2>7, <2>8 DEF Pending
<1>. QED
  BY <1>2, <1>5, <1>6

\* The resume's replay: the log up to its end is read, what is logged since is
\* delivered, and held.
LEMMA PendingReplay ==
  ASSUME Typed, Places, Pending, link # None, Read(link) \/ Replay(link) \/ EndReplay(link), Serving'
  PROVE  Pending'
<1>1. /\ UNCHANGED <<log, send, at, link, held, floor>>
      /\ pc \in [Links -> Ended \cup {"claim", "greet", "resume", "read", "replay", "drain", "live"}] /\ link \in Links
  BY HandlersTyped DEF Read, Replay, EndReplay, entries, handlers, edge, queue
<1>4. Messages' = Messages
  BY <1>1 DEF Messages, Logged
<1>t. Len(log) \in Nat /\ last \in Nat /\ pos \in Nat /\ upto \in Nat /\ Messages \subseteq 1 .. Len(log)
  BY QueueTyped
<1>h. HeldFirst => HeldFirst'
  BY <1>1, <1>4 DEF HeldFirst
<1>2. CASE Read(link)
  <2>1. /\ pc[link] = "read" /\ pc' = [pc EXCEPT ![link] = "replay"] /\ upto' = Len(log) /\ UNCHANGED <<last, pos, closing>>
    BY <1>2 DEF Read, Goto
  <2>2. Serving /\ pc'[link] = "replay"
    BY <1>1, <2>1 DEF Serving, Joined
  <2>3. (\A m \in Messages : m <= pos => m <= last) /\ HeldFirst
    BY <2>1, <2>2 DEF Pending
  <2>4. \A m \in Messages : Coming(m)'
    BY <1>1, <1>t, <2>1, <2>2 DEF Coming
  <2>. QED
    BY <1>1, <1>4, <1>h, <2>1, <2>3, <2>4 DEF Pending
<1>3. CASE Replay(link)
  <2>1. /\ pc[link] = "replay" /\ pc' = pc /\ pos' = pos + 1 /\ pos < upto
        /\ \/ log[pos + 1] = "message" /\ QueueMessage(pos + 1) /\ UNCHANGED upto
           \/ log[pos + 1] = "close" /\ QueueClose
           \/ log[pos + 1] = "other" /\ UNCHANGED <<last, out, closing, upto>>
    BY <1>3 DEF Replay, handlers
  <2>2. closing' = closing /\ upto' = upto /\ (last' = pos + 1 \/ (last' = last /\ log[pos + 1] = "other"))
    BY <2>1 DEF QueueMessage, QueueClose, Serving
  <2>3. Serving
    BY <1>1, <2>1, <2>2 DEF Serving
  <2>4. /\ \A m \in Messages : m <= pos => m <= last
        /\ \A m \in Messages : m > last /\ m > floor => Coming(m)
        /\ HeldFirst
    BY <2>1, <2>3 DEF Pending
  <2>5. last <= pos
    BY <2>1 DEF Places, Linked
  <2>6. \A m \in Messages : m <= pos' => m <= last'
    <3> SUFFICES ASSUME NEW m \in Messages, m <= pos + 1 PROVE m <= last'
      BY <2>1
    <3>1. m = pos + 1 => log[pos + 1] = "message"
      BY DEF Messages
    <3>. QED
      BY <1>t, <2>2, <2>4, <3>1
  <2>7. \A m \in Messages : m > last' /\ m > floor => Coming(m)'
    <3> SUFFICES ASSUME NEW m \in Messages, m > last', m > floor PROVE Coming(m)'
      OBVIOUS
    <3>1. m > last
      BY <1>t, <2>2, <2>5
    <3>2. Coming(m)
      BY <2>4, <3>1
    <3>. QED
      BY <1>1, <2>1, <2>2, <3>2 DEF Coming
  <2>. QED
    BY <1>1, <1>4, <1>h, <2>4, <2>6, <2>7 DEF Pending
<1>5. CASE EndReplay(link)
  <2>1. /\ pc[link] = "replay" /\ pos = upto /\ UNCHANGED <<last, pos, upto, closing>>
        /\ pc' = [pc EXCEPT ![link] = IF held # <<>> THEN "drain" ELSE "live"]
    BY <1>5 DEF EndReplay, queue, Goto
  <2>3. Serving
    BY <1>1, <2>1 DEF Serving, Joined
  <2>4. /\ \A m \in Messages : m <= pos => m <= last
        /\ \A m \in Messages : m > last /\ m > floor => Coming(m)
        /\ HeldFirst
    BY <2>1, <2>3 DEF Pending
  <2>5. pc'[link] = (IF held # <<>> THEN "drain" ELSE "live")
    BY <1>1, <2>1
  <2>6. \A m \in Messages : m > last /\ m > floor => Coming(m)'
    <3> SUFFICES ASSUME NEW m \in Messages, m > last, m > floor PROVE Coming(m)'
      OBVIOUS
    <3>1. Coming(m) /\ ~(m <= upto)
      BY <1>t, <2>1, <2>4
    <3>2. held = <<>> => DOMAIN held = {}
      OBVIOUS
    <3>. QED
      BY <1>1, <2>1, <2>5, <3>1, <3>2 DEF Coming
  <2>. QED
    BY <1>1, <1>4, <1>h, <2>1, <2>4, <2>6 DEF Pending
<1>. QED
  BY <1>2, <1>3, <1>5

\* What was held is queued, but for what the replay queued already.
LEMMA PendingDrain ==
  ASSUME Typed, Places, Pending, link # None, Drain(link), Serving'
  PROVE  Pending'
<1>1. /\ UNCHANGED <<log, send, at, link, floor, pos>>
      /\ pc \in [Links -> Ended \cup {"claim", "greet", "resume", "read", "replay", "drain", "live"}] /\ link \in Links
  BY HandlersTyped DEF Drain, entries, edge
<1> DEFINE id == Head(held)
<1>2. /\ pc[link] = "drain" /\ held' = Tail(held) /\ pc' = [pc EXCEPT ![link] = IF Tail(held) # <<>> THEN "drain" ELSE "live"]
      /\ IF id <= pos THEN UNCHANGED <<last, out, closing>>
         ELSE IF log[id] = "close" THEN QueueClose /\ UNCHANGED last
         ELSE DeliverNow(id)
  BY DEF Drain, Goto
<1>3. closing' = closing
  BY <1>2 DEF DeliverNow, QueueMessage, QueueClose, Serving
<1>4. Messages' = Messages
  BY <1>1 DEF Messages, Logged
<1>5. Serving
  BY <1>1, <1>2, <1>3 DEF Serving, Joined
<1>6. /\ \A m \in Messages : m <= pos => m <= last
      /\ \A m \in Messages : m > last /\ m > floor => Coming(m)
      /\ HeldFirst
  BY <1>2, <1>5 DEF Pending
<1>7. held # <<>> /\ held \in Seq(Applying)
  BY <1>2, SendTyped DEF Typed, DrainOK
<1>8. /\ id = held[1] /\ 1 \in DOMAIN held /\ id \in Applying
      /\ \A i \in DOMAIN held' : i + 1 \in DOMAIN held /\ held'[i] = held[i + 1] /\ i \in Nat
      /\ \A i \in DOMAIN held : i = 1 \/ (i - 1 \in DOMAIN held' /\ held[i] = held'[i - 1])
  <2>1. /\ id = held[1] /\ 1 \in DOMAIN held /\ id \in Applying
        /\ \A i \in DOMAIN Tail(held) : i + 1 \in DOMAIN held /\ Tail(held)[i] = held[i + 1] /\ i \in Nat
        /\ \A i \in DOMAIN held : i = 1 \/ (i - 1 \in DOMAIN Tail(held) /\ held[i] = Tail(held)[i - 1])
    BY <1>7, TailIs
  <2>. QED
    BY <1>2, <2>1
<1>t. Len(log) \in Nat /\ last \in Nat /\ pos \in Nat /\ Messages \subseteq Nat /\ id \in Nat /\ DOMAIN held' \subseteq Nat
  BY <1>8, QueueTyped, SendTyped
<1> HIDE DEF id
\* The head is queued, or was.
<1>9. last <= last' /\ (id \in Messages => id <= last')
  <2>1. id \in Messages => log[id] # "close"
    BY DEF Messages
  <2>2. closing = FALSE
    BY <1>5, QueueTyped DEF Serving
  <2>. QED
    BY <1>2, <1>6, <1>t, <2>1, <2>2 DEF DeliverNow, QueueMessage
<1>10. last' \in Nat
  BY <1>2, <1>t DEF DeliverNow, QueueMessage
<1>11. \A m \in Messages : m <= pos => m <= last'
  BY <1>6, <1>9, <1>10, <1>t
<1>12. pc'[link] = (IF held' # <<>> THEN "drain" ELSE "live")
  BY <1>1, <1>2
<1>13. \A m \in Messages : m > last' /\ m > floor => Coming(m)'
  <2> SUFFICES ASSUME NEW m \in Messages, m > last', m > floor PROVE Coming(m)'
    OBVIOUS
  <2>1. m > last /\ m # id
    BY <1>9, <1>10, <1>t
  <2>2. CASE \E i \in DOMAIN held : held[i] = m
    <3>1. \E i \in DOMAIN held' : held'[i] = m
      BY <1>8, <2>1, <2>2
    <3>2. held' # <<>>
      BY <3>1
    <3>. QED
      BY <1>1, <1>12, <3>1, <3>2 DEF Coming
  <2>3. CASE \E i \in DOMAIN send[at[link]] : send[at[link]][i] = m
    BY <1>1, <2>3 DEF Coming
  <2>. QED
    BY <1>2, <1>6, <2>1, <2>2, <2>3 DEF Coming
<1>14. HeldFirst'
  <2>1. \A i, j \in DOMAIN held' : i < j => i + 1 < j + 1
    BY <1>t
  <2>. QED
    BY <1>1, <1>4, <1>6, <1>8, <2>1 DEF HeldFirst
<1>. QED
  BY <1>1, <1>4, <1>11, <1>13, <1>14 DEF Pending

LEMMA PendingStep ==
  ASSUME Typed, Places, InOrder, Pending, [Next]_vars
  PROVE  Pending'
<1>h. /\ pc \in [Links -> Ended \cup {"claim", "greet", "resume", "read", "replay", "drain", "live"}]
      /\ at \in [Links -> Nodes \cup {None}] /\ send \in [Nodes -> Seq(Messages)]
      /\ link \in Links \cup {None} /\ None \notin Links
      /\ Ended = {"idle", "done"}
  BY HandlersTyped, SendTyped
<1>z. ~Serving' => Pending'
  BY DEF Pending
\* What is to come on the edge's link is left alone.
<1>s. ASSUME Serving => UNCHANGED <<log, link, last, pos, upto, held, floor>>
                          /\ pc'[link] = pc[link] /\ at'[link] = at[link] /\ send'[at[link]] = send[at[link]],
             Serving' => Serving
      PROVE  Pending'
  <2>1. log' = log => Messages' = Messages
    BY DEF Messages, Logged
  <2> SUFFICES ASSUME Serving, Serving' PROVE Pending'
    BY <1>s, <1>z
  <2>. QED
    BY <1>s, <2>1 DEF Pending, Coming, HeldFirst
<1>u. UNCHANGED <<entries, handlers, link, last, pos, upto, held, floor>> /\ (closing => closing') => Pending'
  BY <1>s DEF entries, handlers, Serving
\* A handler of a link the edge has let go of.
<1>k. ASSUME NEW k \in Links, NEW step, Goto(k, step), k # link, UNCHANGED <<entries, at, edge, last, pos, upto, held, floor>>,
             closing => closing'
      PROVE  Pending'
  <2>1. link' = link /\ (link # None => pc'[link] = pc[link])
    BY <1>h, <1>k DEF edge, Goto
  <2>. QED
    BY <1>k, <1>s, <2>1 DEF entries, Serving
<1>c. QueueClose => closing'
  BY DEF QueueClose
<1>j. \A k \in Links : Join(k) => (closing => closing')
  BY <1>c DEF Join
<1>l. LetGo => Pending'
  BY <1>z DEF LetGo, Serving
<1>1. ASSUME NEW n \in Nodes, NodeDies(n) PROVE Pending'
  <2>1. CASE link # None /\ at[link] = n
    BY <1>1, <1>l, <2>1 DEF NodeDies
  <2>2. CASE ~(link # None /\ at[link] = n)
    <3>1. UNCHANGED <<log, at, link, last, pos, upto, held, closing, floor>> /\ send' = [send EXCEPT ![n] = <<>>]
          /\ pc' = [k \in Links |-> IF at[k] = n THEN "done" ELSE pc[k]]
      BY <1>1, <2>2 DEF NodeDies, queue
    <3>2. link # None => pc'[link] = pc[link]
      BY <1>h, <2>2, <3>1
    <3>3. link # None => send'[at[link]] = send[at[link]]
      BY <1>h, <2>2, <3>1
    <3>. QED
      BY <1>s, <3>1, <3>2, <3>3 DEF Serving
  <2>. QED
    BY <2>1, <2>2
<1>2. ASSUME NEW k \in Links, Claim(k) \/ ClaimFails(k) PROVE Pending'
  <2>1. CASE k = link
    <3>1. link' = link /\ pc'[link] = "greet"
      BY <1>2, <1>h, <2>1 DEF Claim, ClaimFails, edge, Goto
    <3>. QED
      BY <1>z, <3>1 DEF Serving, Joined
  <2>2. CASE k # link
    <3>1. UNCHANGED <<entries, at, edge, last, pos, upto, held, floor, closing>> /\ Goto(k, "greet")
      BY <1>2, <2>2 DEF Claim, ClaimFails, queue
    <3>. QED
      BY <1>k, <2>2, <3>1
  <2>. QED
    BY <2>1, <2>2
<1>3. ASSUME NEW k \in Links, Greet(k) PROVE Pending'
  <2>1. CASE k = link
    <3>1. link' = link /\ pc'[link] = "live" /\ log' = log /\ floor' = Len(log)
      BY <1>3, <1>h, <2>1 DEF Greet, edge, entries, Goto
    <3>2. Messages' = Messages /\ \A m \in Messages : ~(m > floor')
      BY <3>1, QueueTyped DEF Messages, Logged
    <3>. QED
      BY <3>1, <3>2 DEF Pending
  <2>2. CASE k # link
    <3>1. UNCHANGED <<entries, at, edge, last, pos, upto, held, floor>> /\ Goto(k, "live") /\ Join(k)
      BY <1>3, <2>2 DEF Greet
    <3>. QED
      BY <1>j, <1>k, <2>2, <3>1
  <2>. QED
    BY <2>1, <2>2
<1>4. ASSUME NEW k \in Links, Resume(k) PROVE Pending'
  <2>1. CASE k = link
    <3>1. link' = link /\ pc'[link] = "read" /\ log' = log /\ last' = cursor /\ pos' = cursor /\ held' = held /\ link # None /\ pc[link] = "resume"
      BY <1>4, <1>h, <2>1 DEF Resume, edge, entries, Goto
    <3>2. Messages' = Messages
      BY <3>1 DEF Messages, Logged
    <3>3. held = <<>> /\ DOMAIN held = {}
      BY <3>1 DEF Places, Linked, Joined
    <3>4. HeldFirst'
      BY <3>1, <3>3 DEF HeldFirst
    <3>5. \A m : Coming(m)'
      BY <3>1 DEF Coming
    <3>. QED
      BY <3>1, <3>2, <3>4, <3>5 DEF Pending
  <2>2. CASE k # link
    <3>1. UNCHANGED <<entries, at, edge, last, pos, upto, held, floor>> /\ Goto(k, "read") /\ Join(k)
      BY <1>4, <2>2 DEF Resume
    <3>. QED
      BY <1>j, <1>k, <2>2, <3>1
  <2>. QED
    BY <2>1, <2>2
<1>5. ASSUME NEW k \in Links, Read(k) \/ EndReplay(k) \/ Replay(k) PROVE Pending'
  <2>1. CASE k = link
    BY <1>5, <1>h, <1>z, <2>1, PendingReplay
  <2>2. CASE k # link
    <3>1. UNCHANGED <<entries, at, edge, last, pos, upto, held, floor, closing>> /\ \E step \in Joined : Goto(k, step)
      BY <1>5, <2>2 DEF Read, EndReplay, Replay, queue, Joined
    <3>. QED
      BY <1>k, <2>2, <3>1
  <2>. QED
    BY <2>1, <2>2
<1>6. ASSUME NEW k \in Links, Drain(k) PROVE Pending'
  <2>1. CASE k = link
    BY <1>6, <1>h, <1>z, <2>1, PendingDrain
  <2>2. CASE k # link
    <3>1. UNCHANGED <<entries, at, edge, last, pos, upto, held, floor, closing>> /\ \E step \in Joined : Goto(k, step)
      BY <1>6, <2>2 DEF Drain, Joined
    <3>. QED
      BY <1>k, <2>2, <3>1
  <2>. QED
    BY <2>1, <2>2
<1>7. ASSUME NEW k \in Links, Leave(k) PROVE Pending'
  <2>1. UNCHANGED <<entries, at, edge, last, pos, upto, held, floor, closing>> /\ Goto(k, "done") /\ k # link
    BY <1>7 DEF Leave, queue
  <2>. QED
    BY <1>k, <2>1
<1>8. ASSUME NEW k \in Links, NEW n \in Nodes, Attach(k, n) PROVE Pending'
  <2>1. link' = k /\ \E step \in {"resume", "claim"} : pc' = [pc EXCEPT ![k] = step]
    BY <1>8 DEF Attach, Goto
  <2>2. pc'[link'] \notin Joined
    BY <1>h, <2>1 DEF Joined
  <2>. QED
    BY <1>z, <2>2 DEF Serving
<1>9. ReceiveClose \/ LinkLost \/ GameLeaves => LetGo
  BY DEF ReceiveClose, LinkLost, GameLeaves
<1>10. Receive \/ UNCHANGED vars => UNCHANGED <<entries, handlers, link, last, pos, upto, held, floor>> /\ (closing => closing')
  BY DEF Receive, vars, edge, queue
<1>. QED
  BY <1>u, <1>l, <1>z, <1>1, <1>2, <1>3, <1>4, <1>5, <1>6, <1>7, <1>8, <1>9, <1>10,
     PendingSend, PendingDeliver, PendingDisconnect DEF Next, Handler

-----------------------------------------------------------------------------
(* What is delivered is a Feed. *)

Inv == Typed /\ Places /\ Outs /\ Cover /\ InOrder /\ Pending

LEMMA InvInit == Init => Inv
BY TypedInit, PlacesInit, OutsInit, PendingInit DEF Inv

LEMMA InvStep == Inv /\ [Next]_vars => Inv'
BY TypedStep, PlacesStep, OutsStep, InOrderStep, PendingStep DEF Inv

LEMMA SameLast == Promise!Last = Last
BY DEF Promise!Last, Last

\* The head of the queue is the next message of the game's feed.
LEMMA ReceiveIsFeed ==
  ASSUME Inv, Receive
  PROVE  Promise!Next \/ UNCHANGED <<log, floor, got, game>>
<1>1. UNCHANGED <<log, floor, game>> /\ link # None /\ out # <<>>
  BY DEF Receive, entries
<1>i. Typed /\ Places /\ Outs /\ Cover
  BY DEF Inv
<1> DEFINE f == out[1]
<1>2. Head(out) = f /\ 1 \in DOMAIN out /\ f.id \in 0 .. Len(log)
  BY <1>1, <1>i, Headed
<1>t. /\ Len(log) \in Nat /\ cursor \in Nat /\ floor \in Nat /\ Last \in Nat /\ Messages \subseteq 1 .. Len(log)
  BY <1>i, QueueTyped
<1> HIDE DEF f
<1>3. got' = got \/ (f.kind = "logged" /\ f.id > cursor /\ got' = Append(got, f.id))
  BY <1>2 DEF Receive
<1>4. CASE f.kind = "logged" /\ f.id > cursor /\ got' = Append(got, f.id)
  <2>1. game = "open"
    BY <1>1, <1>i DEF Places, Linked
  <2>2. f.id \in Messages /\ f.id \in 1 .. Len(log) /\ log[f.id] = "message"
    BY <1>2, <1>4, <1>i, <1>t DEF Outs, Queued, f, Messages
  <2>3. Last <= cursor /\ f.id > Last
    BY <1>4, <1>i, <1>t, <2>2 DEF Outs, Received
  <2>4. \A skipped \in Last + 1 .. f.id - 1 : skipped <= floor \/ log[skipped] # "message"
    <3> SUFFICES ASSUME NEW m \in Last + 1 .. f.id - 1, ~(m <= floor), log[m] = "message" PROVE FALSE
      OBVIOUS
    <3>1. m \in Nat /\ f.id \in Nat /\ Last < m /\ m < f.id /\ m > floor
      BY <1>t, <2>2
    <3>2. m \in Messages
      BY <1>t, <2>2, <3>1 DEF Messages, Logged
    <3>3. Covered(f.id)
      BY <1>2, <1>4, <1>i DEF Cover, NoGap, f
    <3>4. PICK i \in DOMAIN out : out[i].kind = "logged" /\ out[i].id = m
      BY <3>1, <3>2, <3>3 DEF Covered
    <3>5. i = 1 \/ 1 < i
      BY <1>i, QueueTyped
    <3>6. 1 < i => f.id < m
      BY <1>2, <1>4, <1>i, <3>4 DEF Outs, Rising, f
    <3>. QED
      BY <3>1, <3>4, <3>5, <3>6 DEF f
  <2>5. Promise!Deliver(f.id)
    BY <1>1, <1>4, <2>1, <2>2, <2>3, <2>4, SameLast DEF Promise!Deliver
  <2>. QED
    BY <2>2, <2>5 DEF Promise!Next
<1>. QED
  BY <1>1, <1>3, <1>4

LEMMA StepIsFeed ==
  ASSUME Inv, [Next]_vars
  PROVE  Promise!Next \/ UNCHANGED <<log, floor, got, game>>
<1>h. link \in Links \cup {None} /\ None \notin Links
  BY HandlersTyped DEF Inv
<1>1. ASSUME NEW kind \in Kinds, Send(kind) PROVE Promise!Next
  BY <1>1 DEF Send, edge, Promise!Next, Promise!Send
<1>2. ASSUME NEW n \in Nodes, Deliver(n) \/ Disconnect(n) \/ NodeDies(n) PROVE UNCHANGED <<log, floor, got, game>>
  BY <1>2 DEF Deliver, Disconnect, NodeDies, edge
<1>3. ASSUME NEW k \in Links, Greet(k) PROVE Promise!Next \/ UNCHANGED <<log, floor, got, game>>
  <2>1. UNCHANGED <<log, got, game>> /\ pc[k] = "greet"
    BY <1>3 DEF Greet, entries, edge
  <2>2. CASE k = link
    <3>1. floor' = Len(log)
      BY <1>3, <2>2 DEF Greet
    <3>2. game = "open" /\ got = <<>>
      BY <1>h, <2>1, <2>2 DEF Inv, Places, Linked, Outs, Received
    <3>. QED
      BY <2>1, <3>1, <3>2 DEF Promise!Next, Promise!Connect
  <2>3. CASE k # link
    BY <1>3, <2>1, <2>3 DEF Greet
  <2>. QED
    BY <2>2, <2>3
<1>4. ASSUME NEW k \in Links,
             Claim(k) \/ ClaimFails(k) \/ Resume(k) \/ Read(k) \/ Replay(k) \/ EndReplay(k) \/ Drain(k) \/ Leave(k)
      PROVE  UNCHANGED <<log, floor, got, game>>
  BY <1>4 DEF Claim, ClaimFails, Resume, Read, Replay, EndReplay, Drain, Leave, entries, edge
<1>5. ASSUME NEW k \in Links, NEW n \in Nodes, Attach(k, n) PROVE UNCHANGED <<log, floor, got, game>>
  BY <1>5 DEF Attach, entries
<1>6. ReceiveClose \/ GameLeaves => Promise!Next
  BY DEF ReceiveClose, GameLeaves, entries, Promise!Next, Promise!Close
<1>7. LinkLost \/ UNCHANGED vars => UNCHANGED <<log, floor, got, game>>
  BY DEF LinkLost, vars, entries, edge
<1>. QED
  BY <1>1, <1>2, <1>3, <1>4, <1>5, <1>6, <1>7, ReceiveIsFeed DEF Next, Handler

\* Through every drop, death, resume and replay, and however deliveries fall
\* between them, the game is sent each message once, in the log's order and
\* with no gap past the connection's start: Delivery implements Feed.
THEOREM SpecFeed == Spec => FeedSpec
<1>1. Init => Promise!Init
  BY DEF Init, Promise!Init
<1>2. Inv /\ [Next]_vars => [Promise!Next]_(Promise!vars)
  BY StepIsFeed DEF Promise!vars
<1>. QED
  BY InvInit, InvStep, <1>1, <1>2, PTL DEF Spec, FeedSpec, Promise!Spec
=============================================================================
