--------------------------- MODULE LaunchesProofs ---------------------------
(* Theorems about Launches: for any players, parties, replicas and calls, deliveries and faults. *)
EXTENDS Launches, TLAPS

-----------------------------------------------------------------------------
(* The inductive invariant *)

LaunchWords == {"ready", "complete", "config", "cancel", "off"}

\* Nobody has been told any of these.
Quiet(words) == \A p \in Players, w \in words : heard[p][w] = 0

\* Once each for all, but for some players not yet.
OnceBut(p, players) == IF p \in players THEN 0 ELSE 1

\* Whose connection a close names is known from its look-up on; a launch's is a player its loop is at.
Named ==
  /\ \A a \in Actors : pc[a] \in {"off", "close", "banner", "closing"} => one[a].who \in Players
  /\ \A r \in Replicas : pc[r] \in {"off", "close"} => one[r].who \in left[r]

\* How far the replica that tells the players has come.
Stage(r) ==
  /\ pc[r] \in {"found", "unset", "unkey", "unmatch"} => Quiet(LaunchWords)
  /\ pc[r] \in {"found", "unkey", "unmatch"} => left[r] = Players
  /\ pc[r] = "ready" =>
        /\ Quiet({"complete", "config", "cancel", "off"})
        /\ \A p \in Players : heard[p]["ready"] = OnceBut(p, left[r])
  /\ pc[r] = "complete" =>
        /\ Quiet({"config", "cancel", "off"})
        /\ \A p \in Players : heard[p]["ready"] = 1 /\ heard[p]["complete"] = OnceBut(p, left[r])
        /\ \A party \in Parties : party \subseteq left[r] \/ party \cap left[r] = {}
  /\ pc[r] = "config" =>
        /\ Quiet({"config", "cancel", "off"})
        /\ \A p \in Players : heard[p]["ready"] = 1 /\ heard[p]["complete"] = 1
  /\ pc[r] \in {"back", "off"} =>
        /\ Quiet({"ready", "complete", "config"})
        /\ \A p \in Players : heard[p]["cancel"] + heard[p]["off"] = OnceBut(p, left[r])
  /\ pc[r] = "close" =>
        /\ Quiet({"ready", "complete", "config"})
        /\ \A p \in Players : heard[p]["cancel"] + heard[p]["off"] = OnceBut(p, left[r] \ {one[r].who})

\* match_announced is there to be set by a replica that is past its look at {match}, or may still get there.
Claimable ==
  /\ ~ announced
  /\ \/ match # "over"
     \/ \E r \in Replicas : pc[r] \in {"build", "claim", "refuse"}

\* Until it is set nobody tells or has told anything; after that one replica does.
OneTeller ==
  /\ Claimable => Quiet(LaunchWords) /\ \A r \in Replicas : pc[r] \notin Telling
  /\ \A r, s \in Replicas : pc[r] \in Telling /\ pc[s] \in Telling => r = s

\* match_announced was set: the players are being told, have been, or a fault has cut it short.
Spent ==
  \/ \E r \in Replicas : pc[r] \in Telling
  \/ \A p \in Players : Verdict(p) = 1
  \/ "launch" \in failed

\* An entry is acknowledged for a match that is over, for its last delivery, or for having been announced.
Acked ==
  /\ entry \in {"none", "new"} => \A r \in Replicas : pc[r] = "idle"
  /\ match = "none" => entry = "none"
  /\ announced => Spent
  /\ entry = "acked" \/ (\E r \in Replicas : pc[r] = "ack") => match = "over" \/ deliveries > MaxDeliveries \/ Spent
  /\ Spent \/ \A p \in Players : Verdict(p) = 0

Typed == TypeOK /\ Named
Told  == OneTeller /\ (\A r \in Replicas : Stage(r)) /\ ToldOnce /\ OneVerdict
Inv   == Typed /\ Told /\ Acked

-----------------------------------------------------------------------------
(* What the helpers do *)

LEMMA WordsAre ==
  LaunchWords \subseteq Words /\ {"instance", "alone"} \subseteq Words \ LaunchWords
BY DEF LaunchWords, Words

\* A message adds one to what those it is for have heard, of that word.
LEMMA TellAdds ==
  ASSUME heard \in [Players -> [Words -> Nat]], NEW players, NEW word \in Words, Tell(players, word)
  PROVE  /\ heard' \in [Players -> [Words -> Nat]]
         /\ \A p \in Players, w \in Words :
                heard'[p][w] = IF p \in players /\ w = word THEN heard[p][w] + 1 ELSE heard[p][w]
<1>1. heard' = [p \in Players |-> IF p \in players THEN [heard[p] EXCEPT ![word] = heard[p][word] + 1] ELSE heard[p]]
  BY Zenon DEF Tell
<1>2. ASSUME NEW p \in Players
      PROVE  /\ heard'[p] \in [Words -> Nat]
             /\ \A w \in Words : heard'[p][w] = IF p \in players /\ w = word THEN heard[p][w] + 1 ELSE heard[p][w]
  <2>1. heard[p] \in [Words -> Nat]
    OBVIOUS
  <2>2. heard'[p] = IF p \in players THEN [heard[p] EXCEPT ![word] = heard[p][word] + 1] ELSE heard[p]
    BY <1>1, Zenon
  <2>. QED
    BY <2>1, <2>2
<1>. QED
  BY <1>1, <1>2

\* A turn of a loop: on with the rest, or to the next step with all players.
LEMMA TurnGoes ==
  ASSUME left \in [Actors -> SUBSET Players], NEW a \in Actors, NEW group, NEW step, NEW next, Turn(a, group, step, next)
  PROVE  /\ left' = [left EXCEPT ![a] = IF left[a] \subseteq group THEN Players ELSE left[a] \ group]
         /\ pc' = [pc EXCEPT ![a] = IF left[a] \subseteq group THEN next ELSE step]
         /\ left' \in [Actors -> SUBSET Players]
BY DEF Turn, Visit, GoTo

Places == {"idle", "look", "build", "claim", "refuse", "ack", "done"} \cup Telling \cup Releasing

\* Actors that go on to a place where nobody's connection is in hand, or stay, leave Named as it is.
LEMMA Goes ==
  ASSUME Typed, NEW a \in Actors, NEW step \in Places \ {"off", "close", "banner", "closing"},
         pc' = [pc EXCEPT ![a] = step], \A b \in Actors \ {a} : one'[b] = one[b] /\ left'[b] = left[b]
  PROVE  pc' \in [Actors -> Places] /\ Named'
BY DEF Typed, TypeOK, Places, Named, Actors

LEMMA Walks ==
  ASSUME Typed, NEW a \in Actors, NEW step \in Places \ {"off", "close", "banner", "closing"},
         pc' = [pc EXCEPT ![a] = step], UNCHANGED local
  PROVE  pc' \in [Actors -> Places] /\ Named'
BY Goes DEF local

-----------------------------------------------------------------------------
(* Types *)

LEMMA ConnectionTyped ==
  ASSUME TypeOK, NEW p \in Players
  PROVE  ConnectionOf(p) \in [who : Players, conn : Nat] /\ ConnectionOf(p).who = p
BY DEF TypeOK, ConnectionOf

LEMMA TypedLaunch ==
  ASSUME Typed, Keep \/ Append \/ Expire \/ ExpireAnnounced
  PROVE  Typed'
BY DEF Typed, TypeOK, Named, Keep, Append, Expire, ExpireAnnounced, keys, local, games, past

\* What a step of the stream or of a call does to the places, and nothing else that Named is about.
LEMMA TypedRead ==
  ASSUME LaunchAssumption, Typed, NEW r \in Replicas, Read(r) \/ Claim(r) \/ Look(r) \/ Build(r) \/ Acknowledge(r)
  PROVE  Typed'
<1> r \in Actors
  BY DEF Actors
<1>1. /\ deliveries' \in Nat /\ entry' \in {"none", "new", "pending", "acked"}
      /\ UNCHANGED <<match, announced, p2p, relay, keys, local, games, due, heard, past>>
  BY DEF Read, Claim, Look, Build, Acknowledge, Typed, TypeOK, flow
<1>2. \E step \in {"look", "ack", "build", "claim", "refuse", "idle"} : pc' = [pc EXCEPT ![r] = step]
  BY Zenon DEF Read, Claim, Look, Build, Acknowledge, GoTo
<1>3. PICK step \in {"look", "ack", "build", "claim", "refuse", "idle"} : pc' = [pc EXCEPT ![r] = step]
  BY <1>2
<1>4. pc' \in [Actors -> Places] /\ Named'
  BY <1>1, <1>3, Goes DEF Places, local
<1>. QED
  BY <1>1, <1>4 DEF Typed, TypeOK, Places, keys, local, games, past

LEMMA TypedTell ==
  ASSUME LaunchAssumption, Typed, NEW r \in Replicas,
         Announce(r) \/ Found(r) \/ GameServerReady(r) \/ Complete(r) \/ Config(r)
  PROVE  Typed'
<1> r \in Actors
  BY DEF Actors
<1>0. left \in [Actors -> SUBSET Players] /\ heard \in [Players -> [Words -> Nat]]
  BY DEF Typed, TypeOK
<1>1. CASE Announce(r)
  <2>1. \E step \in {"ack", "found", "unset", "unmatch"} :
            pc' = [pc EXCEPT ![r] = step] /\ (left' = left \/ left' = [left EXCEPT ![r] = Players])
    BY <1>1, Zenon DEF Announce, GoTo, Visit
  <2>2. PICK step \in {"ack", "found", "unset", "unmatch"} :
            pc' = [pc EXCEPT ![r] = step] /\ (left' = left \/ left' = [left EXCEPT ![r] = Players])
    BY <2>1
  <2>3. pc' \in [Actors -> Places] /\ Named'
    BY <1>0, <1>1, <2>2, Goes DEF Announce, Places, Telling
  <2>4. left' \in [Actors -> SUBSET Players] /\ announced' \in BOOLEAN
    BY <1>0, <1>1, <2>2 DEF Announce
  <2>5. UNCHANGED <<match, entry, deliveries, p2p, relay, keys, missing, one, games, due, heard, past>>
    BY <1>1, Zenon DEF Announce
  <2>. QED
    BY <2>3, <2>4, <2>5 DEF Typed, TypeOK, Places, keys, past, games
<1>2. CASE Found(r)
  <2>1. pc' = [pc EXCEPT ![r] = "ready"] /\ UNCHANGED local
    BY <1>2, Zenon DEF Found, GoTo
  <2> "ready" \in Places \ {"off", "close", "banner", "closing"}
    BY DEF Places, Telling
  <2>2. pc' \in [Actors -> Places] /\ Named'
    BY <2>1, Walks
  <2>. QED
    BY <1>2, <2>2 DEF Found, Typed, TypeOK, Places, flow, local, past, games
<1>3. CASE GameServerReady(r)
  <2>1. PICK p \in left[r] : Tell({p}, "ready") /\ Turn(r, {p}, "ready", "complete")
    BY <1>3 DEF GameServerReady
  <2>2. heard' \in [Players -> [Words -> Nat]]
    BY <1>0, <2>1, TellAdds DEF Words
  <2>3. PICK step \in {"ready", "complete"} : pc' = [pc EXCEPT ![r] = step]
    BY <1>0, <2>1, TurnGoes
  <2>4. left' \in [Actors -> SUBSET Players] /\ \A b \in Actors \ {r} : left'[b] = left[b]
    BY <1>0, <2>1, TurnGoes
  <2>5. pc' \in [Actors -> Places] /\ Named'
    BY <1>3, <2>3, <2>4, Goes DEF GameServerReady, Places, Telling
  <2>. QED
    BY <1>3, <2>2, <2>4, <2>5 DEF GameServerReady, Typed, TypeOK, Places, flow, keys, past, games
<1>4. CASE Complete(r)
  <2>1. PICK party \in Parties : Tell(party, "complete") /\ Turn(r, party, "complete", "config")
    BY <1>4 DEF Complete
  <2>2. heard' \in [Players -> [Words -> Nat]]
    BY <1>0, <2>1, TellAdds DEF Words
  <2>3. PICK step \in {"complete", "config"} : pc' = [pc EXCEPT ![r] = step]
    BY <1>0, <2>1, TurnGoes
  <2>4. left' \in [Actors -> SUBSET Players] /\ \A b \in Actors \ {r} : left'[b] = left[b]
    BY <1>0, <2>1, TurnGoes
  <2>5. pc' \in [Actors -> Places] /\ Named'
    BY <1>4, <2>3, <2>4, Goes DEF Complete, Places, Telling
  <2>. QED
    BY <1>4, <2>2, <2>4, <2>5 DEF Complete, Typed, TypeOK, Places, flow, keys, past, games
<1>5. CASE Config(r)
  <2>0. pc' = [pc EXCEPT ![r] = "ack"] /\ UNCHANGED local
    BY <1>5, Zenon DEF Config, GoTo
  <2> "ack" \in Places \ {"off", "close", "banner", "closing"}
    BY DEF Places, Telling
  <2>1. pc' \in [Actors -> Places] /\ Named'
    BY <2>0, Walks
  <2>2. heard' \in [Players -> [Words -> Nat]]
    BY <1>0, <1>5, TellAdds DEF Config, Words
  <2>. QED
    BY <1>5, <2>1, <2>2 DEF Config, Typed, TypeOK, Places, flow, keys, local, past, games
<1>. QED
  BY <1>1, <1>2, <1>3, <1>4, <1>5
LEMMA TypedOff ==
  ASSUME LaunchAssumption, Typed, NEW r \in Replicas,
         Unset(r) \/ Unkey(r) \/ Unmatch(r) \/ Back(r) \/ Off(r)
  PROVE  Typed'
<1> r \in Actors
  BY DEF Actors
<1>0. /\ left \in [Actors -> SUBSET Players] /\ heard \in [Players -> [Words -> Nat]]
      /\ pc \in [Actors -> Places] /\ one \in [Actors -> [who : Players \cup {None}, conn : Nat]]
      /\ Named
  BY DEF Typed, TypeOK, Places
<1>1. CASE Unset(r)
  <2>1. PICK p \in left[r] : pointers' = pointers \ {p} /\ Turn(r, {p}, "unset", "unkey")
    BY <1>1 DEF Unset
  <2>2. PICK step \in {"unset", "unkey"} : pc' = [pc EXCEPT ![r] = step]
    BY <1>0, <2>1, TurnGoes
  <2>3. left' \in [Actors -> SUBSET Players] /\ \A b \in Actors \ {r} : left'[b] = left[b]
    BY <1>0, <2>1, TurnGoes
  <2>4. pc' \in [Actors -> Places] /\ Named'
    BY <1>1, <2>2, <2>3, Goes DEF Unset, Places, Telling
  <2>. QED
    BY <1>1, <2>1, <2>3, <2>4 DEF Unset, Typed, TypeOK, Places, flow, past, games
<1>2. CASE Unkey(r)
  <2>1. pc' = [pc EXCEPT ![r] = "unmatch"] /\ UNCHANGED local
    BY <1>2, Zenon DEF Unkey, GoTo
  <2> "unmatch" \in Places \ {"off", "close", "banner", "closing"}
    BY DEF Places, Telling
  <2>2. pc' \in [Actors -> Places] /\ Named'
    BY <2>1, Walks
  <2>. QED
    BY <1>2, <2>2 DEF Unkey, Typed, TypeOK, Places, flow, local, past, games
<1>3. CASE Unmatch(r)
  <2>1. pc' = [pc EXCEPT ![r] = "back"] /\ UNCHANGED local
    BY <1>3, Zenon DEF Unmatch, GoTo
  <2> "back" \in Places \ {"off", "close", "banner", "closing"}
    BY DEF Places, Telling
  <2>2. pc' \in [Actors -> Places] /\ Named'
    BY <2>1, Walks
  <2>. QED
    BY <1>3, <2>2 DEF Unmatch, Typed, TypeOK, Places, keys, local, past, games
<1>4. CASE Back(r)
  <2>1. PICK p \in left[r] :
            /\ one' = [one EXCEPT ![r] = IF p \in Searching THEN [who |-> p, conn |-> 0] ELSE ConnectionOf(p)]
            /\ queued' = IF p \in Searching THEN queued \ {p} ELSE queued
    BY <1>4, Zenon DEF Back
  <2>2. p \in Players
    BY <1>0, <2>1
  <2> DEFINE it == IF p \in Searching THEN [who |-> p, conn |-> 0] ELSE ConnectionOf(p)
  <2>3. it \in [who : Players, conn : Nat] /\ it.who = p
    BY <2>2, ConnectionTyped DEF Typed
  <2>4. pc' = [pc EXCEPT ![r] = "off"] /\ left' = left
    BY <1>4, Zenon DEF Back, GoTo
  <2>5. pc' \in [Actors -> Places] /\ one' \in [Actors -> [who : Players \cup {None}, conn : Nat]]
    BY <1>0, <2>1, <2>3, <2>4 DEF Places, Telling
  <2>6. Named'
    <3> HIDE DEF it
    <3>1. one'[r].who = p /\ pc'[r] = "off" /\ left'[r] = left[r] /\ p \in left[r]
      BY <1>0, <2>1, <2>3, <2>4 DEF it
    <3>2. \A b \in Actors \ {r} : one'[b] = one[b] /\ pc'[b] = pc[b] /\ left'[b] = left[b]
      BY <1>0, <2>1, <2>4 DEF it
    <3>. QED
      BY <1>0, <2>2, <3>1, <3>2 DEF Named, Actors
  <2>. QED
    BY <1>4, <2>1, <2>5, <2>6 DEF Back, Typed, TypeOK, Places, flow, past, games
<1>5. CASE Off(r)
  <2> DEFINE p == one[r].who
  <2>0. p \in left[r] /\ p \in Players
    BY <1>0, <1>5 DEF Off, Named
  <2>1. /\ IF p \in Searching
            THEN Tell({p}, "cancel") /\ one' = [one EXCEPT ![r] = Nobody] /\ Turn(r, {p}, "back", "ack")
            ELSE Tell({p}, "off") /\ GoTo(r, "close") /\ UNCHANGED <<left, one>>
        /\ UNCHANGED <<flow, keys, missing, games, due, past>>
    BY <1>5, Zenon DEF Off
  <2>2. CASE p \in Searching
    <3>1. Tell({p}, "cancel") /\ one' = [one EXCEPT ![r] = Nobody] /\ Turn(r, {p}, "back", "ack")
      BY <2>1, <2>2
    <3>2. heard' \in [Players -> [Words -> Nat]]
      BY <1>0, <3>1, TellAdds DEF Words
    <3>3. PICK step \in {"back", "ack"} : pc' = [pc EXCEPT ![r] = step]
      BY <1>0, <3>1, TurnGoes
    <3>4. left' \in [Actors -> SUBSET Players] /\ \A b \in Actors \ {r} : left'[b] = left[b]
      BY <1>0, <3>1, TurnGoes
    <3>5. one' \in [Actors -> [who : Players \cup {None}, conn : Nat]] /\ \A b \in Actors \ {r} : one'[b] = one[b]
      BY <1>0, <3>1 DEF Nobody
    <3>6. pc' \in [Actors -> Places] /\ Named'
      BY <3>3, <3>4, <3>5, Goes DEF Places, Telling
    <3>. QED
      BY <2>1, <3>2, <3>4, <3>5, <3>6 DEF Typed, TypeOK, Places, flow, keys, past, games
  <2>3. CASE p \notin Searching
    <3>1. Tell({p}, "off") /\ pc' = [pc EXCEPT ![r] = "close"] /\ UNCHANGED <<left, one>>
      BY <2>1, <2>3, Zenon DEF GoTo
    <3>2. heard' \in [Players -> [Words -> Nat]]
      BY <1>0, <3>1, TellAdds DEF Words
    <3>3. pc' \in [Actors -> Places]
      BY <1>0, <3>1 DEF Places, Telling
    <3>4. Named'
      BY <1>0, <2>0, <3>1 DEF Named, Actors
    <3>. QED
      BY <2>1, <3>1, <3>2, <3>3, <3>4 DEF Typed, TypeOK, Places, flow, keys, past, games
  <2>. QED
    BY <2>2, <2>3
<1>. QED
  BY <1>1, <1>2, <1>3, <1>4, <1>5

\* A close of the connection in hand, and on.
LEMMA TypedClose ==
  ASSUME Typed, NEW a \in Actors, one[a].who \in Players,
         NEW step \in Places \ {"off", "close", "banner", "closing"}, NEW next \in Places \ {"off", "close", "banner", "closing"},
         Close(a, step, next)
  PROVE  Typed'
<1>0. /\ left \in [Actors -> SUBSET Players]
      /\ one \in [Actors -> [who : Players \cup {None}, conn : Nat]] /\ due \subseteq [who : Players, conn : Nat]
  BY DEF Typed, TypeOK
<1>1. /\ due' = due \cup {one[a]}
      /\ one' = [one EXCEPT ![a] = Nobody]
      /\ Turn(a, {one[a].who}, step, next)
      /\ UNCHANGED <<flow, keys, missing, games, heard, past>>
  BY Zenon DEF Close
<1>2. due' \subseteq [who : Players, conn : Nat]
  BY <1>0, <1>1
<1>3. one' \in [Actors -> [who : Players \cup {None}, conn : Nat]] /\ \A b \in Actors \ {a} : one'[b] = one[b]
  BY <1>0, <1>1 DEF Nobody
<1>4. left' \in [Actors -> SUBSET Players] /\ \A b \in Actors \ {a} : left'[b] = left[b]
  BY <1>0, <1>1, TurnGoes
<1>5. PICK goal \in {step, next} : pc' = [pc EXCEPT ![a] = goal]
  BY <1>0, <1>1, TurnGoes
<1>6. pc' \in [Actors -> Places] /\ Named'
  BY <1>3, <1>4, <1>5, Goes
<1>. QED
  BY <1>1, <1>2, <1>3, <1>4, <1>6 DEF Typed, TypeOK, Places, flow, keys, past, games

\* The two closes: of a launch called off, and of a release without everybody.
LEMMA TypedCloses ==
  ASSUME Typed,
         (\E r \in Replicas : CloseOff(r)) \/ (\E c \in Calls : CloseAlone(c))
  PROVE  Typed'
<1>1. ASSUME NEW r \in Replicas, CloseOff(r) PROVE Typed'
  <2>1. r \in Actors /\ one[r].who \in Players /\ Close(r, "back", "ack")
    BY <1>1, Zenon DEF CloseOff, Typed, Named, Actors
  <2>. QED
    BY <2>1, TypedClose DEF Places, Telling
<1>2. ASSUME NEW c \in Calls, CloseAlone(c) PROVE Typed'
  <2>1. c \in Actors /\ one[c].who \in Players /\ Close(c, "alone", "unready")
    BY <1>2, Zenon DEF CloseAlone, Typed, Named, Actors
  <2>. QED
    BY <2>1, TypedClose DEF Places, Releasing
<1>. QED
  BY <1>1, <1>2

LEMMA TypedCall ==
  ASSUME LaunchAssumption, Typed, NEW c \in Calls, Register(c) \/ P2PReady(c) \/ P2PFailed(c)
  PROVE  Typed'
<1> c \in Actors
  BY DEF Actors
<1>0. /\ left \in [Actors -> SUBSET Players] /\ missing \in [Calls -> SUBSET Players]
      /\ waiting \in [Calls -> [Players -> Nat]]
  BY DEF Typed, TypeOK
<1>1. ASSUME Release(c)
      PROVE  /\ pc' = [pc EXCEPT ![c] = "check"] /\ left' = [left EXCEPT ![c] = Players]
             /\ missing' \in [Calls -> SUBSET Players] /\ waiting' \in [Calls -> [Players -> Nat]]
  <2>1. /\ pc' = [pc EXCEPT ![c] = "check"] /\ left' = [left EXCEPT ![c] = Players]
        /\ missing' = [missing EXCEPT ![c] = {}]
        /\ waiting' = [waiting EXCEPT ![c] = [p \in Players |-> ConnectionOf(p).conn]]
    BY <1>1, Zenon DEF Release, Visit, GoTo
  <2>2. [p \in Players |-> ConnectionOf(p).conn] \in [Players -> Nat]
    BY ConnectionTyped DEF Typed
  <2>. QED
    BY <1>0, <2>1, <2>2
<1>2. ASSUME Answered(c)
      PROVE  /\ pc' = [pc EXCEPT ![c] = "done"] /\ left' = left
             /\ missing' \in [Calls -> SUBSET Players] /\ waiting' \in [Calls -> [Players -> Nat]]
  BY <1>0, <1>2 DEF Answered, GoTo
<1>3. /\ Release(c) \/ Answered(c)
      /\ relay' \in BOOLEAN
      /\ UNCHANGED <<match, announced, entry, deliveries, p2p, keys, one, games, due, heard, failed, faults>>
  BY DEF Register, P2PReady, P2PFailed, flow, Typed, TypeOK
<1>4. PICK step \in {"check", "done"} : pc' = [pc EXCEPT ![c] = step]
  BY <1>1, <1>2, <1>3
<1>5. /\ left' \in [Actors -> SUBSET Players] /\ \A b \in Actors \ {c} : left'[b] = left[b]
      /\ missing' \in [Calls -> SUBSET Players] /\ waiting' \in [Calls -> [Players -> Nat]]
  BY <1>0, <1>1, <1>2, <1>3
<1>6. pc' \in [Actors -> Places] /\ Named'
  BY <1>3, <1>4, <1>5, Goes DEF Places, Releasing
<1>. QED
  BY <1>3, <1>5, <1>6 DEF Typed, TypeOK, Places, keys, games

LEMMA TypedRelease ==
  ASSUME LaunchAssumption, Typed, NEW c \in Calls, Check(c) \/ Instance(c) \/ Alone(c) \/ Banner(c) \/ Unready(c)
  PROVE  Typed'
<1> c \in Actors
  BY DEF Actors
<1>0. /\ left \in [Actors -> SUBSET Players] /\ heard \in [Players -> [Words -> Nat]]
      /\ pc \in [Actors -> Places] /\ one \in [Actors -> [who : Players \cup {None}, conn : Nat]]
      /\ missing \in [Calls -> SUBSET Players] /\ Named
  BY DEF Typed, TypeOK, Places
<1>1. CASE Check(c)
  <2>1. PICK p \in left[c] :
            LET gone == IF p \in online THEN missing[c] ELSE missing[c] \cup {p} IN
            /\ missing' = [missing EXCEPT ![c] = gone]
            /\ IF left[c] # {p} THEN Visit(c, left[c] \ {p}, "check")
               ELSE IF gone = {} THEN Visit(c, Players, "instance")
               ELSE IF gone = Players THEN Visit(c, Players, "unready")
               ELSE Visit(c, Players \ gone, "alone")
    BY <1>1 DEF Check
  <2> DEFINE gone == IF p \in online THEN missing[c] ELSE missing[c] \cup {p}
  <2>2. missing' \in [Calls -> SUBSET Players]
    BY <1>0, <2>1
  <2>3. \E players \in SUBSET Players : \E step \in {"check", "instance", "unready", "alone"} :
            left' = [left EXCEPT ![c] = players] /\ pc' = [pc EXCEPT ![c] = step]
    <3>1. left[c] \ {p} \in SUBSET Players /\ Players \ gone \in SUBSET Players
      BY <1>0
    <3> HIDE DEF gone
    <3>. QED
      BY <2>1, <3>1 DEF Visit, GoTo, gone
  <2>4. PICK players \in SUBSET Players : \E step \in {"check", "instance", "unready", "alone"} :
            left' = [left EXCEPT ![c] = players] /\ pc' = [pc EXCEPT ![c] = step]
    BY <2>3
  <2>5. PICK step \in {"check", "instance", "unready", "alone"} :
            left' = [left EXCEPT ![c] = players] /\ pc' = [pc EXCEPT ![c] = step]
    BY <2>4
  <2>6. left' \in [Actors -> SUBSET Players] /\ \A b \in Actors \ {c} : left'[b] = left[b]
    BY <1>0, <2>5
  <2>7. pc' \in [Actors -> Places] /\ Named'
    BY <1>1, <2>5, <2>6, Goes DEF Check, Places, Releasing
  <2>. QED
    BY <1>1, <2>2, <2>6, <2>7 DEF Check, Typed, TypeOK, Places, flow, keys, past, games
<1>2. CASE Instance(c)
  <2>1. PICK p \in left[c] : Tell({p}, "instance") /\ Turn(c, {p}, "instance", "done")
    BY <1>2 DEF Instance
  <2>2. heard' \in [Players -> [Words -> Nat]]
    BY <1>0, <2>1, TellAdds DEF Words
  <2>3. PICK step \in {"instance", "done"} : pc' = [pc EXCEPT ![c] = step]
    BY <1>0, <2>1, TurnGoes
  <2>4. left' \in [Actors -> SUBSET Players] /\ \A b \in Actors \ {c} : left'[b] = left[b]
    BY <1>0, <2>1, TurnGoes
  <2>5. pc' \in [Actors -> Places] /\ Named'
    BY <1>2, <2>3, <2>4, Goes DEF Instance, Places, Releasing
  <2>. QED
    BY <1>2, <2>2, <2>4, <2>5 DEF Instance, Typed, TypeOK, Places, flow, keys, past, games
<1>3. CASE Alone(c)
  <2>1. PICK p \in left[c] : one' = [one EXCEPT ![c] = ConnectionOf(p)]
    BY <1>3 DEF Alone
  <2>2. p \in Players
    BY <1>0, <2>1
  <2>3. ConnectionOf(p) \in [who : Players, conn : Nat] /\ ConnectionOf(p).who = p
    BY <2>2, ConnectionTyped DEF Typed
  <2>4. pc' = [pc EXCEPT ![c] = "banner"] /\ left' = left
    BY <1>3, Zenon DEF Alone, GoTo
  <2>5. pc' \in [Actors -> Places] /\ one' \in [Actors -> [who : Players \cup {None}, conn : Nat]]
    BY <1>0, <2>1, <2>3, <2>4 DEF Places, Releasing
  <2>6. Named'
    BY <1>0, <2>1, <2>2, <2>3, <2>4 DEF Named, Actors
  <2>. QED
    BY <1>3, <2>1, <2>5, <2>6 DEF Alone, Typed, TypeOK, Places, flow, keys, past, games
<1>4. CASE Banner(c)
  <2>1. Tell({one[c].who}, "alone") /\ pc' = [pc EXCEPT ![c] = "closing"] /\ UNCHANGED local /\ pc[c] = "banner"
    BY <1>4, Zenon DEF Banner, GoTo
  <2>2. heard' \in [Players -> [Words -> Nat]]
    BY <1>0, <2>1, TellAdds DEF Words
  <2>3. pc' \in [Actors -> Places]
    BY <1>0, <2>1 DEF Places, Releasing
  <2>4. Named'
    BY <1>0, <2>1 DEF Named, Actors, local
  <2>. QED
    BY <1>4, <2>1, <2>2, <2>3, <2>4 DEF Banner, Typed, TypeOK, Places, flow, keys, local, past, games
<1>5. CASE Unready(c)
  <2>1. PICK p \in left[c] : ready' = ready \ {p} /\ Turn(c, {p}, "unready", "done")
    BY <1>5 DEF Unready
  <2>3. PICK step \in {"unready", "done"} : pc' = [pc EXCEPT ![c] = step]
    BY <1>0, <2>1, TurnGoes
  <2>4. left' \in [Actors -> SUBSET Players] /\ \A b \in Actors \ {c} : left'[b] = left[b]
    BY <1>0, <2>1, TurnGoes
  <2>5. pc' \in [Actors -> Places] /\ Named'
    BY <1>5, <2>3, <2>4, Goes DEF Unready, Places, Releasing
  <2>. QED
    BY <1>5, <2>1, <2>4, <2>5 DEF Unready, Typed, TypeOK, Places, flow, past, games
<1>. QED
  BY <1>1, <1>2, <1>3, <1>4, <1>5

LEMMA TypedGame ==
  ASSUME LaunchAssumption, Typed,
         (\E d \in due : Sweep(d) \/ SweepFails(d)) \/ (\E p \in Restless : Leave(p) \/ Connect(p))
  PROVE  Typed'
<1>1. UNCHANGED <<flow, keys, pc, local, heard>> /\ waiting' = waiting
  BY DEF Sweep, SweepFails, Leave, Connect, past, games
<1>2. /\ opened' \in [Players -> Nat] /\ online' \subseteq Players
      /\ due' \subseteq [who : Players, conn : Nat]
      /\ failed' \subseteq {"launch", "release", "sweep"} /\ faults' \in Nat
  <2>1. /\ opened \in [Players -> Nat] /\ online \subseteq Players
        /\ due \subseteq [who : Players, conn : Nat]
        /\ failed \subseteq {"launch", "release", "sweep"} /\ faults \in Nat
    BY DEF Typed, TypeOK
  <2>2. ASSUME NEW d \in due, Sweep(d)
           PROVE  /\ opened' \in [Players -> Nat] /\ online' \subseteq Players
                  /\ due' \subseteq [who : Players, conn : Nat]
                  /\ failed' \subseteq {"launch", "release", "sweep"} /\ faults' \in Nat
    BY <2>1, <2>2 DEF Sweep, past
  <2>3. ASSUME NEW d \in due, SweepFails(d)
           PROVE  /\ opened' \in [Players -> Nat] /\ online' \subseteq Players
                  /\ due' \subseteq [who : Players, conn : Nat]
                  /\ failed' \subseteq {"launch", "release", "sweep"} /\ faults' \in Nat
    BY <2>1, <2>3 DEF SweepFails, games
  <2>4. ASSUME NEW p \in Restless, Leave(p)
           PROVE  /\ opened' \in [Players -> Nat] /\ online' \subseteq Players
                  /\ due' \subseteq [who : Players, conn : Nat]
                  /\ failed' \subseteq {"launch", "release", "sweep"} /\ faults' \in Nat
    BY <2>1, <2>4 DEF Leave, past
  <2>5. ASSUME NEW p \in Restless, Connect(p)
           PROVE  /\ opened' \in [Players -> Nat] /\ online' \subseteq Players
                  /\ due' \subseteq [who : Players, conn : Nat]
                  /\ failed' \subseteq {"launch", "release", "sweep"} /\ faults' \in Nat
    BY <2>1, <2>5 DEF Connect, past, LaunchAssumption
  <2>. QED
    BY <2>2, <2>3, <2>4, <2>5
<1>3. Named'
  BY <1>1 DEF Typed, Named, local
<1>. QED
  BY <1>1, <1>2, <1>3 DEF Typed, TypeOK, flow, keys, local

LEMMA TypedFault ==
  ASSUME Typed, (\E r \in Replicas : ReplicaFails(r)) \/ (\E c \in Calls : CallFails(c))
  PROVE  Typed'
<1>1. PICK a \in Actors : \E step \in {"idle", "done"} :
          /\ Forget(a, step)
          /\ failed' \in {failed, failed \cup {"launch"}, failed \cup {"release"}}
          /\ faults' = faults + 1
          /\ UNCHANGED <<flow, keys, games, due, heard, waiting>>
  BY DEF ReplicaFails, CallFails, Actors
<1>2. PICK step \in {"idle", "done"} :
          /\ Forget(a, step)
          /\ failed' \in {failed, failed \cup {"launch"}, failed \cup {"release"}}
          /\ faults' = faults + 1
          /\ UNCHANGED <<flow, keys, games, due, heard, waiting>>
  BY <1>1
<1>3. /\ pc' = [pc EXCEPT ![a] = step] /\ left' = [left EXCEPT ![a] = Players]
      /\ one' = [one EXCEPT ![a] = Nobody] /\ missing' = missing
  BY <1>2, Zenon DEF Forget, Visit, GoTo
<1>4. left' \in [Actors -> SUBSET Players] /\ one' \in [Actors -> [who : Players \cup {None}, conn : Nat]]
  BY <1>3 DEF Typed, TypeOK, Nobody
<1>5. \A b \in Actors \ {a} : one'[b] = one[b] /\ left'[b] = left[b]
  BY <1>3 DEF Typed, TypeOK
<1>6. pc' \in [Actors -> Places] /\ Named'
  BY <1>3, <1>5, Goes DEF Places
<1>7. failed' \subseteq {"launch", "release", "sweep"} /\ faults' \in Nat
  BY <1>2 DEF Typed, TypeOK
<1>. QED
  BY <1>2, <1>3, <1>4, <1>6, <1>7 DEF Typed, TypeOK, Places, flow, keys, games

LEMMA TypedInit ==
  ASSUME LaunchAssumption, Init
  PROVE  Typed
<1>1. PICK kind \in Kinds : set = kind.ranked /\ p2p = kind.p2p
  BY DEF Init
<1>2. set \in BOOLEAN /\ p2p \in BOOLEAN
  BY <1>1 DEF LaunchAssumption
<1>3. one = [a \in Actors |-> Nobody] /\ Nobody \in [who : Players \cup {None}, conn : Nat]
  BY DEF Init, Nobody
<1>4. one \in [Actors -> [who : Players \cup {None}, conn : Nat]]
  BY <1>3
<1>5. pc = [a \in Actors |-> "idle"] /\ left = [a \in Actors |-> Players] /\ missing = [c \in Calls |-> {}]
  BY DEF Init
<1>6. Named
  BY <1>5 DEF Named, Actors
<1>7. /\ opened \in [Players -> Nat] /\ heard \in [Players -> [Words -> Nat]] /\ waiting \in [Calls -> [Players -> Nat]]
      /\ pointers \subseteq Players /\ queued \subseteq Players
  BY DEF Init, LaunchAssumption
<1>8. /\ match = "none" /\ entry = "none" /\ announced = FALSE /\ relay = FALSE /\ deliveries = 0
      /\ online = Players /\ ready = Players /\ due = {} /\ failed = {} /\ faults = 0
  BY DEF Init
<1>. QED
  BY <1>2, <1>4, <1>5, <1>6, <1>7, <1>8 DEF Typed, TypeOK

LEMMA TypedStep ==
  ASSUME LaunchAssumption, Typed, [Next]_vars
  PROVE  Typed'
<1>1. CASE UNCHANGED vars
  BY <1>1 DEF Typed, TypeOK, Named, vars, flow, keys, local, games, past
<1>2. ASSUME NEW r \in Replicas, ReplicaStep(r) PROVE Typed'
  BY <1>2, TypedRead, TypedTell, TypedOff, TypedCloses, Zenon DEF ReplicaStep
<1>3. ASSUME NEW c \in Calls, ReleaseStep(c) PROVE Typed'
  BY <1>3, TypedRelease, TypedCloses, Zenon DEF ReleaseStep
<1>. QED
  BY <1>1, <1>2, <1>3, TypedLaunch, TypedCall, TypedGame, TypedFault, Zenon DEF Next

\* Every step of the replicas, the calls, the sweep, the games and the faults keeps the types, for any players, replicas and calls.
THEOREM SpecTypeOK == Spec => []TypeOK
<1>1. Init => Typed
  BY TypedInit, LaunchAssumption
<1>2. Typed /\ [Next]_vars => Typed'
  BY TypedStep, LaunchAssumption
<1>3. Typed => TypeOK
  BY DEF Typed
<1>. QED
  BY <1>1, <1>2, <1>3, PTL DEF Spec

-----------------------------------------------------------------------------
(* Who tells the players, and how often *)

\* Everybody has been told the match, or everybody that it is off.
Over ==
  \/ \A p \in Players : /\ heard[p]["ready"] = 1 /\ heard[p]["complete"] = 1 /\ heard[p]["config"] = 1
                        /\ heard[p]["cancel"] = 0 /\ heard[p]["off"] = 0
  \/ \A p \in Players : /\ heard[p]["ready"] = 0 /\ heard[p]["complete"] = 0 /\ heard[p]["config"] = 0
                        /\ heard[p]["cancel"] + heard[p]["off"] = 1

\* No launch is told by the step, and no replica begins to; one may stop, by a fault.
Untold ==
  /\ \A p \in Players, w \in LaunchWords : heard'[p][w] = heard[p][w]
  /\ \A r \in Replicas :
        \/ pc'[r] = pc[r] /\ left'[r] = left[r] /\ one'[r] = one[r]
        \/ pc'[r] \notin Telling /\ (pc[r] \in Telling => "launch" \in failed')
  /\ failed \subseteq failed'
  /\ Claimable' => Claimable

LEMMA SpentStays ==
  ASSUME Untold, Spent
  PROVE  Spent'
<1>1. \A p \in Players : Verdict(p)' = Verdict(p)
  BY DEF Untold, Verdict, LaunchWords
<1>. QED
  BY <1>1 DEF Untold, Spent

\* What holds of the telling holds after a step that tells nothing.
LEMMA UntoldKeeps ==
  ASSUME Told, Untold
  PROVE  Told'
<1>1. OneTeller'
  BY DEF Told, Untold, OneTeller, Quiet
<1>2. ASSUME NEW r \in Replicas PROVE Stage(r)'
  <2>1. CASE pc'[r] \notin Telling
    BY <2>1 DEF Stage, Telling
  <2>2. CASE pc'[r] \in Telling
    <3>1. pc'[r] = pc[r] /\ left'[r] = left[r] /\ one'[r] = one[r]
      BY <2>2 DEF Untold
    <3>2. Stage(r)
      BY DEF Told
    <3>3. \A p \in Players : /\ heard'[p]["ready"] = heard[p]["ready"] /\ heard'[p]["complete"] = heard[p]["complete"]
                             /\ heard'[p]["config"] = heard[p]["config"] /\ heard'[p]["cancel"] = heard[p]["cancel"]
                             /\ heard'[p]["off"] = heard[p]["off"]
      BY DEF Untold, LaunchWords
    <3>. QED
      BY <3>1, <3>2, <3>3 DEF Stage, Quiet, LaunchWords, OnceBut
  <2>. QED
    BY <2>1, <2>2
<1>3. \A p \in Players : Verdict(p)' = Verdict(p)
  BY DEF Untold, Verdict, LaunchWords
<1>4. ToldOnce' /\ OneVerdict'
  BY <1>3 DEF Told, Untold, ToldOnce, OneVerdict, LaunchWords
<1>. QED
  BY <1>1, <1>2, <1>4 DEF Told

\* So does what holds of the entry, if the step acknowledges nothing for no reason.
LEMMA UntoldAcked ==
  ASSUME Acked, Untold,
         entry' \in {"none", "new"} => \A r \in Replicas : pc'[r] = "idle",
         match' = "none" => entry' = "none",
         announced' => Spent,
         entry' = "acked" \/ (\E r \in Replicas : pc'[r] = "ack") => match' = "over" \/ deliveries' > MaxDeliveries \/ Spent
  PROVE  Acked'
<1>1. \A p \in Players : Verdict(p)' = Verdict(p)
  BY DEF Untold, Verdict, LaunchWords
<1>2. Spent => Spent'
  BY SpentStays
<1>3. Spent' \/ \A p \in Players : Verdict(p)' = 0
  BY <1>1, <1>2 DEF Acked
<1>. QED
  BY <1>2, <1>3 DEF Acked

\* A step of the replica that tells the players keeps all of it, if it leaves the replica where it should be.
LEMMA Tells ==
  ASSUME LaunchAssumption, Inv, Typed', NEW r \in Replicas, pc[r] \in Telling,
         \A s \in Replicas \ {r} : pc'[s] = pc[s],
         UNCHANGED <<announced, entry, deliveries, failed>>, match' \in {match, "over"},
         (pc'[r] \in Telling /\ Stage(r)') \/ (pc'[r] = "ack" /\ Over')
  PROVE  Inv'
<1> USE DEF Inv
<1>1. \A s \in Replicas : pc[s] \in Telling => s = r
  BY DEF Told, OneTeller
<1>2. ~ Claimable
  BY DEF Told, OneTeller
<1>3. "ack" \notin {"build", "claim", "refuse"} /\ Telling \cap {"idle", "ack", "build", "claim", "refuse"} = {}
  BY DEF Telling
<1>4. ~ Claimable'
  BY <1>2, <1>3 DEF Claimable
<1>5. OneTeller'
  BY <1>1, <1>3, <1>4 DEF OneTeller
<1>6. ASSUME NEW s \in Replicas PROVE Stage(s)'
  <2>1. CASE pc'[s] \notin Telling
    BY <2>1 DEF Stage, Telling
  <2>2. CASE pc'[s] \in Telling
    BY <2>2, <1>1, <1>3
  <2>. QED
    BY <2>1, <2>2
<1>7. \A p \in Players, w \in LaunchWords : heard'[p][w] \in Nat
  BY WordsAre DEF Typed, TypeOK
<1>8. \A p \in Players : /\ heard'[p]["ready"] \in Nat /\ heard'[p]["complete"] \in Nat /\ heard'[p]["config"] \in Nat
                         /\ heard'[p]["cancel"] \in Nat /\ heard'[p]["off"] \in Nat
  BY <1>7 DEF LaunchWords
<1>9. CASE pc'[r] \in Telling /\ Stage(r)'
  <2>1. ToldOnce' /\ OneVerdict'
    BY <1>8, <1>9 DEF Telling, Stage, Quiet, LaunchWords, OnceBut, ToldOnce, OneVerdict, Verdict
  <2>2. Acked'
    BY <1>3, <1>9 DEF Acked, Spent
  <2>. QED
    BY <1>5, <1>6, <2>1, <2>2 DEF Told
<1>10. CASE pc'[r] = "ack" /\ Over'
  <2>1. ToldOnce' /\ OneVerdict' /\ \A p \in Players : Verdict(p)' = 1
    BY <1>8, <1>10 DEF Over, ToldOnce, OneVerdict, Verdict
  <2>2. Acked'
    BY <1>3, <1>10, <2>1 DEF Acked, Spent
  <2>. QED
    BY <1>5, <1>6, <2>1, <2>2 DEF Told
<1>. QED
  BY <1>9, <1>10

\* The launch, {match}'s end and match_announced's.
LEMMA ToldLaunch ==
  ASSUME LaunchAssumption, Inv, Typed', Keep \/ Append \/ Expire \/ ExpireAnnounced
  PROVE  Inv'
<1>1. UNCHANGED <<pc, local, heard, past, deliveries>>
  BY DEF Keep, Append, Expire, ExpireAnnounced
<1>2. Claimable' => Claimable
  BY <1>1 DEF Claimable, Keep, Append, Expire, ExpireAnnounced
<1>3. Untold
  BY <1>1, <1>2 DEF Untold, local, past
<1>4. /\ entry' \in {"none", "new"} => \A r \in Replicas : pc'[r] = "idle"
      /\ match' = "none" => entry' = "none"
      /\ announced' => Spent
      /\ entry' = "acked" \/ (\E r \in Replicas : pc'[r] = "ack") => match' = "over" \/ deliveries' > MaxDeliveries \/ Spent
  BY <1>1 DEF Inv, Acked, Keep, Append, Expire, ExpireAnnounced
<1>. QED
  BY <1>3, <1>4, UntoldKeeps, UntoldAcked DEF Inv

\* What leaves the replicas, the match and its entry alone, and tells no launch.
LEMMA ToldElsewhere ==
  ASSUME Inv, Typed', \A p \in Players, w \in LaunchWords : heard'[p][w] = heard[p][w],
         \A r \in Replicas : pc'[r] = pc[r] /\ left'[r] = left[r] /\ one'[r] = one[r],
         failed \subseteq failed', UNCHANGED <<match, announced, entry, deliveries>>
  PROVE  Inv'
<1>1. Claimable' => Claimable
  BY DEF Claimable
<1>2. Untold
  BY <1>1 DEF Untold
<1>3. /\ entry' \in {"none", "new"} => \A r \in Replicas : pc'[r] = "idle"
      /\ match' = "none" => entry' = "none"
      /\ announced' => Spent
      /\ entry' = "acked" \/ (\E r \in Replicas : pc'[r] = "ack") => match' = "over" \/ deliveries' > MaxDeliveries \/ Spent
  BY DEF Inv, Acked
<1>. QED
  BY <1>2, <1>3, UntoldKeeps, UntoldAcked DEF Inv

\* The calls: none of them is a replica, and none tells a launch.
LEMMA ToldCall ==
  ASSUME LaunchAssumption, Inv, Typed', NEW c \in Calls,
         ReleaseStep(c) \/ Register(c) \/ P2PReady(c) \/ P2PFailed(c) \/ CallFails(c)
  PROVE  Inv'
<1>0. c \in Actors /\ left \in [Actors -> SUBSET Players] /\ heard \in [Players -> [Words -> Nat]]
  BY DEF Actors, Inv, Typed, TypeOK
<1>1. ASSUME NEW players, NEW word \in {"instance", "alone"}, Tell(players, word)
      PROVE  \A p \in Players, w \in LaunchWords : heard'[p][w] = heard[p][w]
  <2>1. word \in Words /\ LaunchWords \subseteq Words \ {word}
    BY WordsAre
  <2>. QED
    BY <1>0, <1>1, <2>1, TellAdds
<1>2. \A p \in Players, w \in LaunchWords : heard'[p][w] = heard[p][w]
  <2>1. CASE Instance(c)
    BY <1>1, <2>1 DEF Instance
  <2>2. CASE Banner(c)
    BY <1>1, <2>2 DEF Banner
  <2>3. CASE heard' = heard
    BY <2>3
  <2>4. Instance(c) \/ Banner(c) \/ heard' = heard
    BY Zenon DEF ReleaseStep, Check, Alone, CloseAlone, Close, Unready, Register, P2PReady, P2PFailed, CallFails
  <2>. QED
    BY <2>1, <2>2, <2>3, <2>4
<1>3. failed \subseteq failed' /\ UNCHANGED <<match, announced, entry, deliveries>>
  BY DEF ReleaseStep, Check, Instance, Alone, Banner, CloseAlone, Close, Unready, Register, P2PReady, P2PFailed, CallFails, flow, past
<1>4. ASSUME NEW group, NEW step, NEW next, Turn(c, group, step, next)
      PROVE  /\ \E goal : pc' = [pc EXCEPT ![c] = goal]
             /\ \E players : left' = [left EXCEPT ![c] = players]
  <2>1. /\ left' = [left EXCEPT ![c] = IF left[c] \subseteq group THEN Players ELSE left[c] \ group]
        /\ pc' = [pc EXCEPT ![c] = IF left[c] \subseteq group THEN next ELSE step]
    BY <1>0, <1>4, TurnGoes
  <2>. QED
    BY <2>1, Zenon
<1>5. ASSUME NEW players, NEW step, Visit(c, players, step)
      PROVE  /\ \E goal : pc' = [pc EXCEPT ![c] = goal]
             /\ \E some : left' = [left EXCEPT ![c] = some]
  BY <1>5 DEF Visit, GoTo
<1>6. \E goal : pc' = [pc EXCEPT ![c] = goal]
  <2>1. CASE Check(c)
    BY <1>5, <2>1 DEF Check
  <2>2. CASE Instance(c)
    BY <1>4, <2>2 DEF Instance
  <2>3. CASE Alone(c) \/ Banner(c)
    BY <2>3, Zenon DEF Alone, Banner, GoTo
  <2>4. CASE CloseAlone(c)
    BY <1>4, <2>4 DEF CloseAlone, Close
  <2>5. CASE Unready(c)
    BY <1>4, <2>5 DEF Unready
  <2>6. CASE Register(c) \/ P2PReady(c) \/ P2PFailed(c)
    <3>1. Release(c) \/ Answered(c)
      BY <2>6, Zenon DEF Register, P2PReady, P2PFailed
    <3>2. CASE Release(c)
      BY <1>5, <3>2 DEF Release
    <3>3. CASE Answered(c)
      BY <3>3, Zenon DEF Answered, GoTo
    <3>. QED
      BY <3>1, <3>2, <3>3
  <2>7. CASE CallFails(c)
    BY <1>5, <2>7 DEF CallFails, Forget
  <2>. QED
    BY <2>1, <2>2, <2>3, <2>4, <2>5, <2>6, <2>7 DEF ReleaseStep
<1>7. left' = left \/ \E players : left' = [left EXCEPT ![c] = players]
  <2>1. CASE Check(c)
    BY <1>5, <2>1 DEF Check
  <2>2. CASE Instance(c)
    BY <1>4, <2>2 DEF Instance
  <2>3. CASE Alone(c) \/ Banner(c)
    BY <2>3 DEF Alone, Banner, local
  <2>4. CASE CloseAlone(c)
    BY <1>4, <2>4 DEF CloseAlone, Close
  <2>5. CASE Unready(c)
    BY <1>4, <2>5 DEF Unready
  <2>6. CASE Register(c) \/ P2PReady(c) \/ P2PFailed(c)
    BY <1>5, <2>6, Zenon DEF Register, P2PReady, P2PFailed, Release, Answered
  <2>7. CASE CallFails(c)
    BY <1>5, <2>7 DEF CallFails, Forget
  <2>. QED
    BY <2>1, <2>2, <2>3, <2>4, <2>5, <2>6, <2>7 DEF ReleaseStep
<1>8. one' = one \/ \E it : one' = [one EXCEPT ![c] = it]
  <2>1. CASE Alone(c)
    BY <2>1, Zenon DEF Alone
  <2>2. CASE CloseAlone(c)
    BY <2>2, Zenon DEF CloseAlone, Close
  <2>3. CASE CallFails(c)
    BY <2>3, Zenon DEF CallFails, Forget
  <2>4. CASE one' = one
    BY <2>4
  <2>5. Alone(c) \/ CloseAlone(c) \/ CallFails(c) \/ one' = one
    BY Zenon DEF ReleaseStep, Check, Instance, Banner, Unready, Register, P2PReady, P2PFailed, local
  <2>. QED
    BY <2>1, <2>2, <2>3, <2>4, <2>5
<1>9. \A r \in Replicas : pc'[r] = pc[r] /\ left'[r] = left[r] /\ one'[r] = one[r]
  <2>1. \A r \in Replicas : r \in Actors /\ r # c
    BY DEF LaunchAssumption, Actors
  <2>2. pc = [a \in Actors |-> pc[a]] /\ left = [a \in Actors |-> left[a]] /\ one = [a \in Actors |-> one[a]]
    BY DEF Inv, Typed, TypeOK
  <2>. QED
    BY <1>6, <1>7, <1>8, <2>1, <2>2
<1>. QED
  BY <1>2, <1>3, <1>9, ToldElsewhere

\* The sweep and the games.
LEMMA ToldGame ==
  ASSUME Inv, Typed', (\E d \in due : Sweep(d) \/ SweepFails(d)) \/ (\E p \in Restless : Leave(p) \/ Connect(p))
  PROVE  Inv'
<1>1. UNCHANGED <<flow, pc, local, heard>> /\ failed \subseteq failed'
  BY DEF Sweep, SweepFails, Leave, Connect, past
<1>. QED
  BY <1>1, ToldElsewhere DEF flow, local

\* A replica before the claim of match_announced, and after its last word.
LEMMA ToldRead ==
  ASSUME LaunchAssumption, Inv, Typed', NEW r \in Replicas,
         Read(r) \/ Claim(r) \/ Look(r) \/ Build(r) \/ Acknowledge(r) \/ ReplicaFails(r)
  PROVE  Inv'
<1>0. r \in Actors /\ pc \in [Actors -> Places] /\ deliveries \in Nat /\ match \in {"none", "kept", "over"}
      /\ left \in [Actors -> SUBSET Players] /\ one = [a \in Actors |-> one[a]] /\ MaxDeliveries \in Nat
  BY DEF Actors, Inv, Typed, TypeOK, Places, LaunchAssumption
<1>1. /\ UNCHANGED <<match, announced, heard>> /\ failed \subseteq failed'
      /\ \A s \in Replicas \ {r} : left'[s] = left[s] /\ one'[s] = one[s] /\ pc'[s] = pc[s]
  <2>1. CASE ReplicaFails(r)
    <3>1. /\ pc' = [pc EXCEPT ![r] = "idle"] /\ left' = [left EXCEPT ![r] = Players] /\ one' = [one EXCEPT ![r] = Nobody]
          /\ UNCHANGED <<flow, heard>> /\ failed \subseteq failed'
      BY <2>1, Zenon DEF ReplicaFails, Forget, Visit, GoTo
    <3>. QED
      BY <1>0, <3>1 DEF flow, Actors
  <2>2. CASE Read(r) \/ Claim(r) \/ Look(r) \/ Build(r) \/ Acknowledge(r)
    <3>1. UNCHANGED <<match, announced, heard, local, past>>
      BY <2>2 DEF Read, Claim, Look, Build, Acknowledge, flow
    <3>2. \E step : pc' = [pc EXCEPT ![r] = step]
      BY <2>2, Zenon DEF Read, Claim, Look, Build, Acknowledge, GoTo
    <3>. QED
      BY <1>0, <3>1, <3>2 DEF local, past, Actors
  <2>. QED
    BY <2>1, <2>2
<1>2. /\ pc'[r] \in {"look", "ack", "build", "claim", "refuse", "idle"}
      /\ pc[r] \in Telling => "launch" \in failed'
  BY <1>0 DEF Read, Claim, Look, Build, Acknowledge, ReplicaFails, Forget, Visit, GoTo, Telling
<1>3. /\ pc'[r] = "build" => pc[r] = "look" /\ match = "kept"
      /\ pc'[r] \in {"claim", "refuse"} => pc[r] = "build"
  BY <1>0 DEF Read, Claim, Look, Build, Acknowledge, ReplicaFails, Forget, Visit, GoTo
<1>4. Claimable' => Claimable
  BY <1>1, <1>3 DEF Claimable
<1>5. Untold
  BY <1>1, <1>2, <1>4 DEF Untold, Telling
<1>6. entry' \notin {"none", "new"}
  BY <1>0 DEF Read, Claim, Look, Build, Acknowledge, ReplicaFails, flow, Inv, Acked
<1>7. entry' # "none" => match' # "none"
  BY <1>0, <1>1 DEF Read, Claim, Look, Build, Acknowledge, ReplicaFails, flow, Inv, Acked
<1>8. announced' => Spent
  BY <1>1 DEF Inv, Acked
<1>9. ASSUME entry' = "acked" \/ (\E s \in Replicas : pc'[s] = "ack")
      PROVE  match' = "over" \/ deliveries' > MaxDeliveries \/ Spent
  <2>1. CASE Read(r)
    BY <1>0, <1>1, <1>9, <2>1 DEF Read, GoTo, Inv, Acked
  <2>2. CASE Claim(r)
    <3>1. deliveries' = deliveries + 1 /\ (pc'[r] = "ack" => ~(deliveries < MaxDeliveries)) /\ entry' = "pending"
      BY <1>0, <2>2 DEF Claim, GoTo
    <3>. QED
      BY <1>0, <1>1, <1>9, <3>1 DEF Inv, Acked
  <2>3. CASE Look(r)
    <3>1. pc[r] = "look" /\ (pc'[r] = "ack" => match # "kept") /\ UNCHANGED <<match, entry, deliveries>>
      BY <1>0, <2>3 DEF Look, GoTo, flow
    <3>2. match # "none"
      BY <3>1 DEF Inv, Acked
    <3>. QED
      BY <1>0, <1>1, <1>9, <3>1, <3>2 DEF Inv, Acked
  <2>4. CASE Build(r) \/ ReplicaFails(r)
    <3>1. pc'[r] # "ack" /\ UNCHANGED <<match, entry, deliveries>>
      BY <1>0, <2>4 DEF Build, ReplicaFails, Forget, Visit, GoTo, flow
    <3>. QED
      BY <1>1, <1>9, <3>1 DEF Inv, Acked
  <2>5. CASE Acknowledge(r)
    <3>1. pc[r] = "ack" /\ UNCHANGED <<match, deliveries>>
      BY <2>5 DEF Acknowledge
    <3>. QED
      BY <3>1 DEF Inv, Acked
  <2>. QED
    BY <2>1, <2>2, <2>3, <2>4, <2>5
<1>. QED
  BY <1>5, <1>6, <1>7, <1>8, <1>9, UntoldKeeps, UntoldAcked DEF Inv

\* Whoever sets match_announced finds nobody told, and goes on to tell them; nobody else does.
LEMMA ToldAnnounce ==
  ASSUME LaunchAssumption, Inv, Typed', NEW r \in Replicas, Announce(r)
  PROVE  Inv'
<1>0. r \in Actors /\ pc \in [Actors -> Places] /\ left \in [Actors -> SUBSET Players]
  BY DEF Actors, Inv, Typed, TypeOK, Places
<1>1. /\ pc[r] \in {"claim", "refuse"} /\ announced'
      /\ UNCHANGED <<match, entry, deliveries, one, heard, past>>
  BY DEF Announce
<1>2. ~ Claimable'
  BY <1>1 DEF Claimable
<1>3. CASE announced
  <2>1. pc' = [pc EXCEPT ![r] = "ack"] /\ left' = left
    BY <1>3, Zenon DEF Announce, GoTo
  <2>2. pc'[r] = "ack" /\ \A s \in Replicas \ {r} : pc'[s] = pc[s]
    BY <1>0, <2>1 DEF Actors
  <2>3. Untold
    BY <1>1, <1>2, <2>1, <2>2 DEF Untold, past, Telling
  <2>4. Spent
    BY <1>3 DEF Inv, Acked
  <2>5. entry \notin {"none", "new"} /\ match # "none"
    BY <1>1 DEF Inv, Acked
  <2>. QED
    BY <1>1, <2>3, <2>4, <2>5, UntoldKeeps, UntoldAcked DEF Inv
<1>4. CASE ~ announced
  <2>1. Claimable
    BY <1>1, <1>4 DEF Claimable
  <2>2. Quiet(LaunchWords) /\ \A s \in Replicas : pc[s] \notin Telling
    BY <2>1 DEF Inv, Told, OneTeller
  <2>3. left' = [left EXCEPT ![r] = Players] /\ \E step \in {"found", "unset", "unmatch"} : pc' = [pc EXCEPT ![r] = step]
    BY <1>4, Zenon DEF Announce, Visit, GoTo
  <2>4. PICK step \in {"found", "unset", "unmatch"} : pc' = [pc EXCEPT ![r] = step]
    BY <2>3
  <2>5. pc'[r] = step /\ left'[r] = Players /\ \A s \in Replicas \ {r} : pc'[s] = pc[s]
    BY <1>0, <2>3, <2>4 DEF Actors
  <2>6. step \in Telling
    BY DEF Telling
  <2>7. Quiet(LaunchWords)'
    BY <1>1, <2>2 DEF Quiet
  <2>8. OneTeller'
    BY <1>2, <2>2, <2>5 DEF OneTeller
  <2>9. ASSUME NEW s \in Replicas PROVE Stage(s)'
    <3>1. CASE s = r
      BY <2>5, <2>7, <3>1 DEF Stage
    <3>2. CASE s # r
      BY <2>2, <2>5, <3>2 DEF Stage, Telling
    <3>. QED
      BY <3>1, <3>2
  <2>10. ToldOnce' /\ OneVerdict' /\ \A p \in Players : Verdict(p)' = Verdict(p)
    BY <1>1 DEF Inv, Told, ToldOnce, OneVerdict, Verdict
  <2>11. Spent'
    BY <2>5, <2>6 DEF Spent
  <2>12. entry \notin {"none", "new"} /\ match # "none"
    BY <1>1 DEF Inv, Acked
  <2>13. Acked'
    BY <1>1, <2>11, <2>12 DEF Acked
  <2>. QED
    BY <2>8, <2>9, <2>10, <2>13 DEF Inv, Told
<1>. QED
  BY <1>3, <1>4

\* The words a replica says to all the players, or to each in turn, as numbers.
LEMMA Counted ==
  ASSUME Typed
  PROVE  \A p \in Players : /\ heard[p]["ready"] \in Nat /\ heard[p]["complete"] \in Nat /\ heard[p]["config"] \in Nat
                            /\ heard[p]["cancel"] \in Nat /\ heard[p]["off"] \in Nat
<1>1. \A p \in Players, w \in LaunchWords : heard[p][w] \in Nat
  BY WordsAre DEF Typed, TypeOK
<1>. QED
  BY <1>1 DEF LaunchWords

\* A word told adds one to itself alone.
LEMMA TellCounts ==
  ASSUME Typed, NEW players, NEW word \in LaunchWords, Tell(players, word)
  PROVE  \A p \in Players, w \in LaunchWords :
             heard'[p][w] = IF p \in players /\ w = word THEN heard[p][w] + 1 ELSE heard[p][w]
BY TellAdds, WordsAre DEF Typed, TypeOK

\* The match is told: its players leave the search, then hear of the game server, of their party, of the configuration.
LEMMA ToldTell ==
  ASSUME LaunchAssumption, Inv, Typed', NEW r \in Replicas, Found(r) \/ GameServerReady(r) \/ Complete(r) \/ Config(r)
  PROVE  Inv'
<1>0. /\ r \in Actors /\ pc \in [Actors -> Places] /\ left \in [Actors -> SUBSET Players]
      /\ Typed /\ Stage(r)
  BY DEF Actors, Inv, Typed, TypeOK, Told, Places
<1>1. pc[r] \in Telling /\ UNCHANGED <<match, announced, entry, deliveries, failed>>
  BY DEF Found, GameServerReady, Complete, Config, Telling, flow, past
<1>2. ASSUME NEW step, pc' = [pc EXCEPT ![r] = step]
      PROVE  pc'[r] = step /\ \A s \in Replicas \ {r} : pc'[s] = pc[s]
  BY <1>0, <1>2 DEF Actors
<1>3. CASE Found(r)
  <2>1. pc[r] = "found" /\ pc' = [pc EXCEPT ![r] = "ready"] /\ UNCHANGED <<local, heard>>
    BY <1>3, Zenon DEF Found, GoTo
  <2>2. left[r] = Players /\ Quiet(LaunchWords)
    BY <1>0, <2>1 DEF Stage
  <2>3. pc'[r] = "ready" /\ left' = left /\ heard' = heard /\ \A s \in Replicas \ {r} : pc'[s] = pc[s]
    BY <1>0, <2>1 DEF local, Actors
  <2>4. Stage(r)'
    BY <2>2, <2>3 DEF Stage, Quiet, LaunchWords, OnceBut
  <2>. QED
    BY <1>1, <2>3, <2>4, Tells DEF Telling
<1>4. CASE GameServerReady(r)
  <2>1. pc[r] = "ready"
    BY <1>4 DEF GameServerReady
  <2>2. PICK p \in left[r] : Tell({p}, "ready") /\ Turn(r, {p}, "ready", "complete")
    BY <1>4 DEF GameServerReady
  <2>3. /\ Quiet({"complete", "config", "cancel", "off"})
        /\ \A q \in Players : heard[q]["ready"] = OnceBut(q, left[r])
    BY <1>0, <2>1 DEF Stage
  <2>4. p \in Players /\ left[r] \subseteq Players
    BY <1>0, <2>2
  <2>5. \A q \in Players : /\ heard'[q]["ready"] = IF q = p THEN heard[q]["ready"] + 1 ELSE heard[q]["ready"]
                           /\ heard'[q]["complete"] = heard[q]["complete"] /\ heard'[q]["config"] = heard[q]["config"]
                           /\ heard'[q]["cancel"] = heard[q]["cancel"] /\ heard'[q]["off"] = heard[q]["off"]
    BY <1>0, <2>2, TellCounts DEF LaunchWords
  <2>6. \A q \in Players : heard'[q]["ready"] = OnceBut(q, left[r] \ {p})
    BY <2>2, <2>3, <2>5 DEF OnceBut
  <2>7. Quiet({"complete", "config", "cancel", "off"})'
    BY <2>3, <2>5 DEF Quiet
  <2>8. /\ left' = [left EXCEPT ![r] = IF left[r] \subseteq {p} THEN Players ELSE left[r] \ {p}]
        /\ pc' = [pc EXCEPT ![r] = IF left[r] \subseteq {p} THEN "complete" ELSE "ready"]
    BY <1>0, <2>2, TurnGoes
  <2>9. CASE left[r] \subseteq {p}
    <3>1. pc'[r] = "complete" /\ left'[r] = Players /\ \A s \in Replicas \ {r} : pc'[s] = pc[s]
      BY <1>0, <1>2, <2>8, <2>9
    <3>2. \A q \in Players : heard'[q]["ready"] = 1
      BY <2>6, <2>9 DEF OnceBut
    <3>3. \A party \in Parties : party \subseteq Players
      BY DEF LaunchAssumption
    <3>4. Stage(r)'
      BY <2>7, <3>1, <3>2, <3>3 DEF Stage, Quiet, OnceBut
    <3>. QED
      BY <1>1, <3>1, <3>4, Tells DEF Telling
  <2>10. CASE ~(left[r] \subseteq {p})
    <3>1. pc'[r] = "ready" /\ left'[r] = left[r] \ {p} /\ \A s \in Replicas \ {r} : pc'[s] = pc[s]
      BY <1>0, <1>2, <2>8, <2>10
    <3>2. Stage(r)'
      BY <2>6, <2>7, <3>1 DEF Stage
    <3>. QED
      BY <1>1, <3>1, <3>2, Tells DEF Telling
  <2>. QED
    BY <2>9, <2>10
<1>5. CASE Complete(r)
  <2>1. pc[r] = "complete"
    BY <1>5 DEF Complete
  <2>2. PICK party \in Parties : party \cap left[r] # {} /\ Tell(party, "complete") /\ Turn(r, party, "complete", "config")
    BY <1>5 DEF Complete
  <2>3. /\ Quiet({"config", "cancel", "off"})
        /\ \A q \in Players : heard[q]["ready"] = 1 /\ heard[q]["complete"] = OnceBut(q, left[r])
        /\ \A other \in Parties : other \subseteq left[r] \/ other \cap left[r] = {}
    BY <1>0, <2>1 DEF Stage
  <2>4. party \subseteq left[r] /\ left[r] \subseteq Players
    BY <1>0, <2>2, <2>3
  <2>5. \A q \in Players : /\ heard'[q]["complete"] = IF q \in party THEN heard[q]["complete"] + 1 ELSE heard[q]["complete"]
                           /\ heard'[q]["ready"] = heard[q]["ready"] /\ heard'[q]["config"] = heard[q]["config"]
                           /\ heard'[q]["cancel"] = heard[q]["cancel"] /\ heard'[q]["off"] = heard[q]["off"]
    BY <1>0, <2>2, TellCounts DEF LaunchWords
  <2>6. \A q \in Players : heard'[q]["complete"] = OnceBut(q, left[r] \ party) /\ heard'[q]["ready"] = 1
    BY <2>3, <2>4, <2>5 DEF OnceBut
  <2>7. Quiet({"config", "cancel", "off"})'
    BY <2>3, <2>5 DEF Quiet
  <2>8. /\ left' = [left EXCEPT ![r] = IF left[r] \subseteq party THEN Players ELSE left[r] \ party]
        /\ pc' = [pc EXCEPT ![r] = IF left[r] \subseteq party THEN "config" ELSE "complete"]
    BY <1>0, <2>2, TurnGoes
  <2>9. CASE left[r] \subseteq party
    <3>1. pc'[r] = "config" /\ \A s \in Replicas \ {r} : pc'[s] = pc[s]
      BY <1>2, <2>8, <2>9
    <3>2. \A q \in Players : heard'[q]["complete"] = 1
      BY <2>6, <2>9 DEF OnceBut
    <3>3. Stage(r)'
      BY <2>6, <2>7, <3>1, <3>2 DEF Stage
    <3>. QED
      BY <1>1, <3>1, <3>3, Tells DEF Telling
  <2>10. CASE ~(left[r] \subseteq party)
    <3>1. pc'[r] = "complete" /\ left'[r] = left[r] \ party /\ \A s \in Replicas \ {r} : pc'[s] = pc[s]
      BY <1>0, <1>2, <2>8, <2>10
    <3>2. \A other \in Parties : other = party \/ other \cap party = {}
      BY DEF LaunchAssumption
    <3>3. \A other \in Parties : other \subseteq left[r] \ party \/ other \cap (left[r] \ party) = {}
      BY <2>3, <3>2
    <3>4. Stage(r)'
      BY <2>6, <2>7, <3>1, <3>3 DEF Stage
    <3>. QED
      BY <1>1, <3>1, <3>4, Tells DEF Telling
  <2>. QED
    BY <2>9, <2>10
<1>6. CASE Config(r)
  <2>1. pc[r] = "config" /\ Tell(Players, "config") /\ pc' = [pc EXCEPT ![r] = "ack"]
    BY <1>6, Zenon DEF Config, GoTo
  <2>2. Quiet({"config", "cancel", "off"}) /\ \A q \in Players : heard[q]["ready"] = 1 /\ heard[q]["complete"] = 1
    BY <1>0, <2>1 DEF Stage
  <2>3. \A q \in Players : /\ heard'[q]["config"] = heard[q]["config"] + 1
                           /\ heard'[q]["ready"] = heard[q]["ready"] /\ heard'[q]["complete"] = heard[q]["complete"]
                           /\ heard'[q]["cancel"] = heard[q]["cancel"] /\ heard'[q]["off"] = heard[q]["off"]
    BY <1>0, <2>1, TellCounts DEF LaunchWords
  <2>4. Over'
    BY <2>2, <2>3 DEF Over, Quiet
  <2>5. pc'[r] = "ack" /\ \A s \in Replicas \ {r} : pc'[s] = pc[s]
    BY <1>0, <2>1 DEF Actors
  <2>. QED
    BY <1>1, <2>4, <2>5, Tells
<1>. QED
  BY <1>3, <1>4, <1>5, <1>6

\* The match is called off: its keys are deleted, then each player is sent back.
LEMMA ToldOff ==
  ASSUME LaunchAssumption, Inv, Typed', NEW r \in Replicas,
         Unset(r) \/ Unkey(r) \/ Unmatch(r) \/ Back(r) \/ Off(r) \/ CloseOff(r)
  PROVE  Inv'
<1>0. /\ r \in Actors /\ pc \in [Actors -> Places] /\ left \in [Actors -> SUBSET Players]
      /\ one \in [Actors -> [who : Players \cup {None}, conn : Nat]]
      /\ Typed /\ Stage(r) /\ Named
  BY DEF Actors, Inv, Typed, TypeOK, Told, Places
<1>1. pc[r] \in Telling /\ UNCHANGED <<announced, entry, deliveries, failed>> /\ match' \in {match, "over"}
  <2>1. CASE Unset(r) \/ Unkey(r) \/ Unmatch(r) \/ Back(r) \/ Off(r)
    BY <2>1 DEF Unset, Unkey, Unmatch, Back, Off, Telling, flow, past
  <2>2. CASE CloseOff(r)
    BY <2>2 DEF CloseOff, Close, Telling, flow, past
  <2>. QED
    BY <2>1, <2>2
<1>2. Telling \cap {"ack"} = {} /\ {"unset", "unkey", "unmatch", "back", "off", "close"} \subseteq Telling
  BY DEF Telling
<1>3. \A p \in Players : heard[p]["cancel"] \in Nat /\ heard[p]["off"] \in Nat
  BY <1>0, Counted
<1>4. CASE Unset(r)
  <2>1. PICK p \in left[r] : Turn(r, {p}, "unset", "unkey")
    BY <1>4 DEF Unset
  <2>2. /\ left' = [left EXCEPT ![r] = IF left[r] \subseteq {p} THEN Players ELSE left[r] \ {p}]
        /\ pc' = [pc EXCEPT ![r] = IF left[r] \subseteq {p} THEN "unkey" ELSE "unset"]
    BY <1>0, <2>1, TurnGoes
  <2>3. pc[r] = "unset" /\ heard' = heard
    BY <1>4 DEF Unset
  <2>4. Quiet(LaunchWords)'
    BY <1>0, <2>3 DEF Stage, Quiet
  <2>5. /\ pc'[r] \in {"unset", "unkey"} /\ (pc'[r] = "unkey" => left'[r] = Players)
        /\ \A s \in Replicas \ {r} : pc'[s] = pc[s]
    BY <1>0, <2>2 DEF Actors
  <2>6. Stage(r)'
    BY <2>4, <2>5 DEF Stage
  <2>. QED
    BY <1>1, <1>2, <2>5, <2>6, Tells
<1>5. CASE Unkey(r)
  <2>1. pc[r] = "unkey" /\ pc' = [pc EXCEPT ![r] = "unmatch"] /\ UNCHANGED <<local, heard>>
    BY <1>5, Zenon DEF Unkey, GoTo
  <2>2. pc'[r] = "unmatch" /\ left' = left /\ heard' = heard /\ \A s \in Replicas \ {r} : pc'[s] = pc[s]
    BY <1>0, <2>1 DEF local, Actors
  <2>3. Stage(r)'
    BY <1>0, <2>1, <2>2 DEF Stage, Quiet
  <2>. QED
    BY <1>1, <1>2, <2>2, <2>3, Tells
<1>6. CASE Unmatch(r)
  <2>1. pc[r] = "unmatch" /\ pc' = [pc EXCEPT ![r] = "back"] /\ UNCHANGED <<local, heard>>
    BY <1>6, Zenon DEF Unmatch, GoTo
  <2>2. pc'[r] = "back" /\ left' = left /\ heard' = heard /\ \A s \in Replicas \ {r} : pc'[s] = pc[s]
    BY <1>0, <2>1 DEF local, Actors
  <2>3. Quiet(LaunchWords) /\ left[r] = Players
    BY <1>0, <2>1 DEF Stage
  <2>4. Stage(r)'
    BY <2>2, <2>3 DEF Stage, Quiet, OnceBut, LaunchWords
  <2>. QED
    BY <1>1, <1>2, <2>2, <2>4, Tells
<1>7. CASE Back(r)
  <2>1. pc[r] = "back" /\ pc' = [pc EXCEPT ![r] = "off"] /\ UNCHANGED <<left, heard>>
    BY <1>7, Zenon DEF Back, GoTo
  <2>2. pc'[r] = "off" /\ left' = left /\ heard' = heard /\ \A s \in Replicas \ {r} : pc'[s] = pc[s]
    BY <1>0, <2>1 DEF Actors
  <2>3. Stage(r)'
    BY <1>0, <2>1, <2>2 DEF Stage, Quiet
  <2>. QED
    BY <1>1, <1>2, <2>2, <2>3, Tells
<1>8. CASE Off(r)
  <2> DEFINE p == one[r].who
  <2>1. pc[r] = "off"
    BY <1>8 DEF Off
  <2>2. p \in left[r] /\ p \in Players /\ left[r] \subseteq Players
    BY <1>0, <2>1 DEF Named
  <2>3. /\ Quiet({"ready", "complete", "config"})
        /\ \A q \in Players : heard[q]["cancel"] + heard[q]["off"] = OnceBut(q, left[r])
    BY <1>0, <2>1 DEF Stage
  <2>4. IF p \in Searching
        THEN Tell({p}, "cancel") /\ Turn(r, {p}, "back", "ack")
        ELSE Tell({p}, "off") /\ GoTo(r, "close") /\ UNCHANGED <<left, one>>
    BY <1>8, Zenon DEF Off
  <2>5. PICK word \in {"cancel", "off"} : Tell({p}, word)
    BY <2>4
  <2>6. \A q \in Players, w \in LaunchWords :
            heard'[q][w] = IF q \in {p} /\ w = word THEN heard[q][w] + 1 ELSE heard[q][w]
    BY <1>0, <2>5, TellCounts DEF LaunchWords
  <2>7. Quiet({"ready", "complete", "config"})'
    BY <2>3, <2>6 DEF Quiet, LaunchWords
  <2>8. \A q \in Players : heard'[q]["cancel"] + heard'[q]["off"] = OnceBut(q, left[r] \ {p})
    <3>1. ASSUME NEW q \in Players
          PROVE  heard'[q]["cancel"] + heard'[q]["off"] =
                     IF q = p THEN heard[q]["cancel"] + heard[q]["off"] + 1 ELSE heard[q]["cancel"] + heard[q]["off"]
      BY <1>3, <2>6 DEF LaunchWords
    <3>. QED
      BY <2>2, <2>3, <3>1 DEF OnceBut
  <2>9. CASE p \in Searching
    <3>1. /\ left' = [left EXCEPT ![r] = IF left[r] \subseteq {p} THEN Players ELSE left[r] \ {p}]
          /\ pc' = [pc EXCEPT ![r] = IF left[r] \subseteq {p} THEN "ack" ELSE "back"]
      BY <1>0, <2>4, <2>9, TurnGoes
    <3>2. \A s \in Replicas \ {r} : pc'[s] = pc[s]
      BY <1>0, <3>1 DEF Actors
    <3>3. CASE left[r] \subseteq {p}
      <4>1. pc'[r] = "ack"
        BY <1>0, <3>1, <3>3
      <4>2. Over'
        BY <2>7, <2>8, <3>3 DEF Over, Quiet, OnceBut
      <4>. QED
        BY <1>1, <3>2, <4>1, <4>2, Tells
    <3>4. CASE ~(left[r] \subseteq {p})
      <4>1. pc'[r] = "back" /\ left'[r] = left[r] \ {p}
        BY <1>0, <3>1, <3>4
      <4>2. Stage(r)'
        BY <2>7, <2>8, <4>1 DEF Stage
      <4>. QED
        BY <1>1, <1>2, <3>2, <4>1, <4>2, Tells
    <3>. QED
      BY <3>3, <3>4
  <2>10. CASE p \notin Searching
    <3>1. pc' = [pc EXCEPT ![r] = "close"] /\ left' = left /\ one' = one
      BY <2>4, <2>10 DEF GoTo
    <3>2. pc'[r] = "close" /\ \A s \in Replicas \ {r} : pc'[s] = pc[s]
      BY <1>0, <3>1 DEF Actors
    <3>3. Stage(r)'
      BY <2>7, <2>8, <3>1, <3>2 DEF Stage
    <3>. QED
      BY <1>1, <1>2, <3>2, <3>3, Tells
  <2>. QED
    BY <2>9, <2>10
<1>9. CASE CloseOff(r)
  <2> DEFINE p == one[r].who
  <2>1. pc[r] = "close" /\ Turn(r, {p}, "back", "ack") /\ heard' = heard
    BY <1>9, Zenon DEF CloseOff, Close
  <2>2. p \in left[r] /\ left[r] \subseteq Players
    BY <1>0, <2>1 DEF Named
  <2>3. /\ Quiet({"ready", "complete", "config"})
        /\ \A q \in Players : heard[q]["cancel"] + heard[q]["off"] = OnceBut(q, left[r] \ {p})
    BY <1>0, <2>1 DEF Stage
  <2>4. /\ left' = [left EXCEPT ![r] = IF left[r] \subseteq {p} THEN Players ELSE left[r] \ {p}]
        /\ pc' = [pc EXCEPT ![r] = IF left[r] \subseteq {p} THEN "ack" ELSE "back"]
    BY <1>0, <2>1, TurnGoes
  <2>5. \A s \in Replicas \ {r} : pc'[s] = pc[s]
    BY <1>0, <2>4 DEF Actors
  <2>6. CASE left[r] \subseteq {p}
    <3>1. pc'[r] = "ack"
      BY <1>0, <2>4, <2>6
    <3>2. Over'
      BY <2>1, <2>3, <2>6 DEF Over, Quiet, OnceBut
    <3>. QED
      BY <1>1, <2>5, <3>1, <3>2, Tells
  <2>7. CASE ~(left[r] \subseteq {p})
    <3>1. pc'[r] = "back" /\ left'[r] = left[r] \ {p}
      BY <1>0, <2>4, <2>7
    <3>2. Stage(r)'
      BY <2>1, <2>3, <3>1 DEF Stage, Quiet
    <3>. QED
      BY <1>1, <1>2, <2>5, <3>1, <3>2, Tells
  <2>. QED
    BY <2>6, <2>7
<1>. QED
  BY <1>4, <1>5, <1>6, <1>7, <1>8, <1>9

LEMMA ToldInit ==
  ASSUME LaunchAssumption, Init
  PROVE  Told /\ Acked
<1>1. /\ match = "none" /\ entry = "none" /\ ~ announced
      /\ \A r \in Replicas : pc[r] = "idle"
  BY DEF Init, Actors
<1>2. \A p \in Players, w \in Words : heard[p][w] = 0
  BY DEF Init
<1>3. Quiet(LaunchWords)
  BY <1>2, WordsAre DEF Quiet
<1>4. \A p \in Players : /\ heard[p]["ready"] = 0 /\ heard[p]["complete"] = 0 /\ heard[p]["config"] = 0
                         /\ heard[p]["cancel"] = 0 /\ heard[p]["off"] = 0
  BY <1>3 DEF Quiet, LaunchWords
<1>5. OneTeller
  BY <1>1, <1>3 DEF OneTeller, Telling
<1>6. \A r \in Replicas : Stage(r)
  BY <1>1 DEF Stage
<1>7. ToldOnce /\ OneVerdict /\ \A p \in Players : Verdict(p) = 0
  BY <1>4 DEF ToldOnce, OneVerdict, Verdict
<1>8. Acked
  BY <1>1, <1>7 DEF Acked
<1>. QED
  BY <1>5, <1>6, <1>7, <1>8 DEF Told

LEMMA InvStep ==
  ASSUME LaunchAssumption, Inv, [Next]_vars
  PROVE  Inv'
<1>1. Typed'
  BY TypedStep DEF Inv
<1>2. CASE UNCHANGED vars
  <2>1. UNCHANGED <<match, announced, entry, deliveries, pc, left, one, heard, failed>>
    BY <1>2 DEF vars, flow, local, past
  <2>2. Untold
    BY <2>1 DEF Untold, Claimable
  <2>. QED
    BY <1>1, <2>1, <2>2, UntoldKeeps, UntoldAcked DEF Inv, Acked
<1>3. ASSUME NEW r \in Replicas, ReplicaStep(r) \/ ReplicaFails(r) PROVE Inv'
  BY <1>1, <1>3, ToldRead, ToldAnnounce, ToldTell, ToldOff, Zenon DEF ReplicaStep
<1>4. ASSUME NEW c \in Calls, ReleaseStep(c) \/ Register(c) \/ P2PReady(c) \/ P2PFailed(c) \/ CallFails(c) PROVE Inv'
  BY <1>1, <1>4, ToldCall, Zenon
<1>. QED
  BY <1>1, <1>2, <1>3, <1>4, ToldLaunch, ToldGame, Zenon DEF Next

\* What holds in every state of every run.
LEMMA SpecInv == Spec => []Inv
<1>1. Init => Inv
  BY TypedInit, ToldInit, LaunchAssumption DEF Inv
<1>2. Inv /\ [Next]_vars => Inv'
  BY InvStep, LaunchAssumption
<1>. QED
  BY <1>1, <1>2, PTL DEF Spec

\* However many replicas take the entry over, slowly or after a crash, and whatever fails, no player is told a match, its
\* completion, its configuration or its end twice (match_announced, MatchLaunches.cs).
THEOREM SpecToldOnce == Spec => []ToldOnce
<1>1. Inv => ToldOnce
  BY DEF Inv, Told
<1>. QED
  BY <1>1, SpecInv, PTL

\* A replica that can build the configuration and one that cannot never split the players: none is sent to a game server
\* of a match that another was told is off.
THEOREM SpecOneVerdict == Spec => []OneVerdict
<1>1. Inv => OneVerdict
  BY DEF Inv, Told
<1>. QED
  BY <1>1, SpecInv, PTL

\* An entry acknowledged with nobody at it has told every player, unless {match} was over, its deliveries were used up,
\* or a fault came between the claim of match_announced and the last word.
THEOREM SpecLostOnlyOnceClaimed == Spec => []LostOnlyOnceClaimed
<1>1. ASSUME Inv, entry = "acked", \A r \in Replicas : pc[r] = "idle"
      PROVE  \/ \A p \in Players : Verdict(p) = 1
             \/ "launch" \in failed
             \/ (\A p \in Players : Verdict(p) = 0) /\ (match = "over" \/ deliveries > MaxDeliveries)
  <2>1. \A r \in Replicas : pc[r] \notin Telling
    BY <1>1 DEF Telling
  <2>. QED
    BY <1>1, <2>1 DEF Inv, Acked, Spent
<1>2. Inv => LostOnlyOnceClaimed
  BY <1>1 DEF LostOnlyOnceClaimed
<1>. QED
  BY <1>2, SpecInv, PTL

=============================================================================
