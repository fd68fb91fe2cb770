------------------------------ MODULE Launches ------------------------------
(***************************************************************************)
(* Telling the players of one launched match about it: the stream          *)
(* match:launched, read by the replicas of the match flow                  *)
(* (MatchLaunchStream), the match called off for want of a configuration,   *)
(* and the calls of its rollback server or P2P nodes (RollbackCallbacks),   *)
(* which have the players connect, or send the others back when one is     *)
(* gone.  An actor takes one step per command it awaits.                   *)
(***************************************************************************)
EXTENDS Naturals, FiniteSets

CONSTANTS
    Players,         \* the match's players, spectators and bots left out
    Searching,       \* those whose own game made the request (MatchComplete.Searching)
    Parties,         \* the players by party, one matchmaking-complete each
    Kinds,           \* of match: ranked (a game of a set), p2p
    Replicas,        \* of the match flow, reading the stream
    Calls,           \* of the rollback server and the nodes, served one to an actor
    MaxDeliveries,   \* of the stream entry before it is dropped
    Restless,        \* bound: the players whose games leave and come back
    MaxConns,        \* bound: connections such a player opens
    MaxFaults,       \* bound: crashes and Redis failures
    None

Actors == Replicas \cup Calls

ASSUME LaunchAssumption ==
    /\ IsFiniteSet(Players)
    /\ Searching \subseteq Players /\ Restless \subseteq Players
    /\ Parties \subseteq SUBSET Players /\ UNION Parties = Players
    /\ \A a, b \in Parties : a = b \/ a \cap b = {}
    /\ Kinds \subseteq [ranked : BOOLEAN, p2p : BOOLEAN]
    /\ Replicas \cap Calls = {}
    /\ None \notin Actors \cup Players
    /\ MaxDeliveries \in Nat /\ MaxConns \in Nat /\ MaxFaults \in Nat

VARIABLES
    match,       \* {match}: "none" before the launch, "kept", or "over" (expired or deleted)
    set,         \* the ranked set's keys are there
    pointers,    \* the players whose player_ranked_set names it
    announced,   \* match_announced:{match}
    queued,      \* the players ticking (matchmaking_queued)
    entry,       \* the stream's entry: "none", "new", "pending" or "acked"
    deliveries,  \* how often it was delivered
    p2p, relay,  \* the match is P2P; p2p_relay:{match}
    pc,          \* what an actor does next
    left,        \* the players an actor's loop has still to visit
    missing,     \* the players a release found without a connection
    one,         \* the player whose game an actor closes, and the connection it names (0: any)
    opened,      \* how many connections a player has opened; the number is the connection's id
    online,      \* the players with a connection (realtime:conn)
    ready,       \* the players whose lobby has party_ready
    due,         \* the closes scheduled (realtime:due)
    heard,       \* how often each player was told what
    waiting,     \* the connection each player had when a release of theirs began, 0 for none
    failed,      \* what a fault cut short: a "launch" once claimed, a "release" or a "sweep"
    faults

flow  == <<match, announced, entry, deliveries, p2p, relay>>
keys  == <<set, pointers, queued, ready>>
local == <<left, missing, one>>
games == <<opened, online>>
past  == <<waiting, failed, faults>>
vars  == <<flow, keys, pc, local, games, due, heard, past>>

Words == {"ready", "complete", "config", "cancel", "off", "instance", "alone"}

\* After the claim of match_announced and before the acknowledgement.
Telling == {"found", "ready", "complete", "config", "unset", "unkey", "unmatch", "back", "off", "close"}
Releasing == {"check", "instance", "alone", "banner", "closing", "unready"}

TypeOK ==
    /\ match \in {"none", "kept", "over"}
    /\ set \in BOOLEAN /\ announced \in BOOLEAN /\ p2p \in BOOLEAN /\ relay \in BOOLEAN
    /\ pointers \subseteq Players /\ queued \subseteq Players /\ ready \subseteq Players
    /\ entry \in {"none", "new", "pending", "acked"}
    /\ deliveries \in Nat
    /\ pc \in [Actors -> {"idle", "look", "build", "claim", "refuse", "ack", "done"}
                            \cup Telling \cup Releasing]
    /\ left \in [Actors -> SUBSET Players]
    /\ missing \in [Calls -> SUBSET Players]
    /\ one \in [Actors -> [who : Players \cup {None}, conn : Nat]]
    /\ opened \in [Players -> Nat]
    /\ online \subseteq Players
    /\ due \subseteq [who : Players, conn : Nat]
    /\ heard \in [Players -> [Words -> Nat]]
    /\ waiting \in [Calls -> [Players -> Nat]]
    /\ failed \subseteq {"launch", "release", "sweep"}
    /\ faults \in Nat

Nobody == [who |-> None, conn |-> 0]

Init ==
    /\ match = "none"
    /\ \E kind \in Kinds : set = kind.ranked /\ p2p = kind.p2p
    /\ pointers = IF set THEN Players ELSE {}
    /\ announced = FALSE
    /\ queued = Searching
    /\ entry = "none" /\ deliveries = 0
    /\ relay = FALSE
    /\ pc = [a \in Actors |-> "idle"]
    /\ left = [a \in Actors |-> Players]
    /\ missing = [c \in Calls |-> {}]
    /\ one = [a \in Actors |-> Nobody]
    /\ opened = [p \in Players |-> 1]
    /\ online = Players
    /\ ready = Players
    /\ due = {}
    /\ heard = [p \in Players |-> [w \in Words |-> 0]]
    /\ waiting = [c \in Calls |-> [p \in Players |-> 0]]
    /\ failed = {}
    /\ faults = 0

GoTo(a, step) == pc' = [pc EXCEPT ![a] = step]
Visit(a, players, step) == left' = [left EXCEPT ![a] = players] /\ GoTo(a, step)

\* A message to some players at once.
Tell(players, word) ==
    heard' = [p \in Players |-> IF p \in players THEN [heard[p] EXCEPT ![word] = @ + 1] ELSE heard[p]]

\* One turn of a loop over players: past the last the actor goes on, to a loop over all of them if that is one.
Turn(a, group, step, next) ==
    IF left[a] \subseteq group
    THEN Visit(a, Players, next)
    ELSE Visit(a, left[a] \ group, step)

(* ------------------------ The launch and its entry ------------------------ *)

Keep ==
    /\ match = "none"
    /\ match' = "kept"
    /\ UNCHANGED <<announced, entry, deliveries, p2p, relay, keys, pc, local, games, due, heard, past>>

Append ==
    /\ match = "kept"
    /\ entry = "none"
    /\ entry' = "new"
    /\ UNCHANGED <<match, announced, deliveries, p2p, relay, keys, pc, local, games, due, heard, past>>

\* {match}'s 20 minutes are over.
Expire ==
    /\ match = "kept"
    /\ entry # "none"
    /\ match' = "over"
    /\ UNCHANGED <<announced, entry, deliveries, p2p, relay, keys, pc, local, games, due, heard, past>>

\* So are match_announced's, set later; no replica takes 20 minutes from its look at {match} to its claim.
ExpireAnnounced ==
    /\ announced
    /\ match = "over"
    /\ \A r \in Replicas : pc[r] \notin {"build", "claim", "refuse"}
    /\ announced' = FALSE
    /\ UNCHANGED <<match, entry, deliveries, p2p, relay, keys, pc, local, games, due, heard, past>>

(* --------------------- A replica reads and handles it --------------------- *)

Read(r) ==
    /\ pc[r] = "idle"
    /\ entry = "new"
    /\ entry' = "pending"
    /\ deliveries' = 1
    /\ GoTo(r, "look")
    /\ UNCHANGED <<match, announced, p2p, relay, keys, local, games, due, heard, past>>

\* Not the code: what is announced is left alone, its entry too.
ClaimUnannounced(r) ==
    /\ pc[r] = "idle"
    /\ entry = "pending" /\ ~ announced
    /\ deliveries' = deliveries + 1
    /\ GoTo(r, IF deliveries < MaxDeliveries THEN "look" ELSE "ack")
    /\ UNCHANGED <<match, announced, entry, p2p, relay, keys, local, games, due, heard, past>>

\* Pending for 10 seconds, with whichever consumer, which may be at work on it still; no other takes it over before
\* its deliveries are looked at.
Claim(r) ==
    /\ pc[r] = "idle"
    /\ entry = "pending"
    /\ deliveries' = deliveries + 1
    /\ GoTo(r, IF deliveries < MaxDeliveries THEN "look" ELSE "ack")
    /\ UNCHANGED <<match, announced, entry, p2p, relay, keys, local, games, due, heard, past>>

Look(r) ==
    /\ pc[r] = "look"
    /\ GoTo(r, IF match = "kept" THEN "build" ELSE "ack")
    /\ UNCHANGED <<flow, keys, local, games, due, heard, past>>

\* The configuration is built, or cannot be.
Build(r) ==
    /\ pc[r] = "build"
    /\ GoTo(r, "claim") \/ GoTo(r, "refuse")
    /\ UNCHANGED <<flow, keys, local, games, due, heard, past>>

\* Not the code: the answer of the claim is not looked at.
AnnounceAgain(r) ==
    /\ pc[r] \in {"claim", "refuse"}
    /\ announced' = TRUE
    /\ Visit(r, Players, IF pc[r] = "claim" THEN "found" ELSE IF set THEN "unset" ELSE "unmatch")
    /\ UNCHANGED <<match, entry, deliveries, p2p, relay, keys, missing, one, games, due, heard, past>>

\* Not the code: the match is called off before the claim.
AnnounceLate(r) ==
    /\ pc[r] \in {"claim", "refuse"}
    /\ announced' = TRUE
    /\ IF announced /\ pc[r] = "claim"
       THEN GoTo(r, "ack") /\ UNCHANGED left
       ELSE Visit(r, Players, IF pc[r] = "claim" THEN "found" ELSE IF set THEN "unset" ELSE "unmatch")
    /\ UNCHANGED <<match, entry, deliveries, p2p, relay, keys, missing, one, games, due, heard, past>>

\* match_announced SET NX: whoever sets it tells the players, or calls the match off without a configuration.
Announce(r) ==
    /\ pc[r] \in {"claim", "refuse"}
    /\ announced' = TRUE
    /\ IF announced
       THEN GoTo(r, "ack") /\ UNCHANGED left
       ELSE Visit(r, Players, IF pc[r] = "claim" THEN "found" ELSE IF set THEN "unset" ELSE "unmatch")
    /\ UNCHANGED <<match, entry, deliveries, p2p, relay, keys, missing, one, games, due, heard, past>>

Acknowledge(r) ==
    /\ pc[r] = "ack"
    /\ entry' = "acked"
    /\ GoTo(r, "idle")
    /\ UNCHANGED <<match, announced, deliveries, p2p, relay, keys, local, games, due, heard, past>>

(* ---------------------------- The match is told ---------------------------- *)

Found(r) ==
    /\ pc[r] = "found"
    /\ queued' = queued \ Players
    /\ GoTo(r, "ready")
    /\ UNCHANGED <<flow, set, pointers, ready, local, games, due, heard, past>>

GameServerReady(r) ==
    /\ pc[r] = "ready"
    /\ \E p \in left[r] : Tell({p}, "ready") /\ Turn(r, {p}, "ready", "complete")
    /\ UNCHANGED <<flow, keys, missing, one, games, due, past>>

Complete(r) ==
    /\ pc[r] = "complete"
    /\ \E party \in Parties :
        /\ party \cap left[r] # {}
        /\ Tell(party, "complete")
        /\ Turn(r, party, "complete", "config")
    /\ UNCHANGED <<flow, keys, missing, one, games, due, past>>

\* The same configuration for all: one send.
Config(r) ==
    /\ pc[r] = "config"
    /\ Tell(Players, "config")
    /\ GoTo(r, "ack")
    /\ UNCHANGED <<flow, keys, local, games, due, past>>

(* ------------- The match is called off (AbandonAsync): no configuration ------------- *)

Unset(r) ==
    /\ pc[r] = "unset"
    /\ \E p \in left[r] :
        /\ pointers' = pointers \ {p}
        /\ Turn(r, {p}, "unset", "unkey")
    /\ UNCHANGED <<flow, set, queued, ready, missing, one, games, due, heard, past>>

Unkey(r) ==
    /\ pc[r] = "unkey"
    /\ set' = FALSE
    /\ GoTo(r, "unmatch")
    /\ UNCHANGED <<flow, pointers, queued, ready, local, games, due, heard, past>>

Unmatch(r) ==
    /\ pc[r] = "unmatch"
    /\ match' = "over"
    /\ GoTo(r, "back")
    /\ UNCHANGED <<announced, entry, deliveries, p2p, relay, keys, local, games, due, heard, past>>

\* A game that is searching still leaves its search; any other has its connection read, to be closed.
ConnectionOf(p) == [who |-> p, conn |-> IF p \in online THEN opened[p] ELSE 0]

Back(r) ==
    /\ pc[r] = "back"
    /\ \E p \in left[r] :
        /\ one' = [one EXCEPT ![r] = IF p \in Searching THEN [who |-> p, conn |-> 0] ELSE ConnectionOf(p)]
        /\ queued' = IF p \in Searching THEN queued \ {p} ELSE queued
    /\ GoTo(r, "off")
    /\ UNCHANGED <<flow, set, pointers, ready, left, missing, games, due, heard, past>>

Off(r) ==
    /\ pc[r] = "off"
    /\ LET p == one[r].who IN
        IF p \in Searching
        THEN Tell({p}, "cancel") /\ one' = [one EXCEPT ![r] = Nobody] /\ Turn(r, {p}, "back", "ack")
        ELSE Tell({p}, "off") /\ GoTo(r, "close") /\ UNCHANGED <<left, one>>
    /\ UNCHANGED <<flow, keys, missing, games, due, past>>

\* Not the code: the request is written once its player is forgotten.
CloseLate(a, step, next) ==
    /\ one' = [one EXCEPT ![a] = Nobody]
    /\ due' = due \cup {one'[a]}
    /\ Turn(a, {one[a].who}, step, next)
    /\ UNCHANGED <<flow, keys, missing, games, heard, past>>

\* ScheduleDisconnectAsync: in 5 seconds, the connection read before the banner, or whichever when there was none.
Close(a, step, next) ==
    /\ due' = due \cup {one[a]}
    /\ one' = [one EXCEPT ![a] = Nobody]
    /\ Turn(a, {one[a].who}, step, next)
    /\ UNCHANGED <<flow, keys, missing, games, heard, past>>

CloseOff(r) == pc[r] = "close" /\ Close(r, "back", "ack")

(* ------------- The rollback server and the nodes (RollbackCallbacks) ------------- *)

\* A game gives its rollback server or node the match's key, and it has it from GameServerReady.
Keyed == match = "kept" /\ \E p \in Players : heard[p]["ready"] > 0

Answered(c) == GoTo(c, "done") /\ UNCHANGED <<left, missing, waiting>>

Release(c) ==
    /\ Visit(c, Players, "check")
    /\ missing' = [missing EXCEPT ![c] = {}]
    /\ waiting' = [waiting EXCEPT ![c] = [p \in Players |-> ConnectionOf(p).conn]]

\* /ovs_register: a P2P match without its relay waits for its host's node.
Register(c) ==
    /\ pc[c] = "idle"
    /\ Keyed
    /\ IF p2p /\ ~ relay THEN Answered(c) ELSE Release(c)
    /\ UNCHANGED <<flow, keys, one, games, due, heard, failed, faults>>

\* /ovs_p2p_ready: the host's node serves.
P2PReady(c) ==
    /\ pc[c] = "idle"
    /\ Keyed
    /\ p2p
    /\ Release(c)
    /\ UNCHANGED <<flow, keys, one, games, due, heard, failed, faults>>

\* /ovs_p2p_failed: the relay is asked for, and registers like any rollback server.
P2PFailed(c) ==
    /\ pc[c] = "idle"
    /\ Keyed
    /\ p2p
    /\ relay' = TRUE
    /\ Answered(c)
    /\ UNCHANGED <<match, announced, entry, deliveries, p2p, keys, one, games, due, heard, failed, faults>>

\* Not the code: the missing are closed, not the others.
CheckGone(c) ==
    /\ pc[c] = "check"
    /\ \E p \in left[c] :
        LET gone == IF p \in online THEN missing[c] ELSE missing[c] \cup {p} IN
        /\ missing' = [missing EXCEPT ![c] = gone]
        /\ IF left[c] # {p} THEN Visit(c, left[c] \ {p}, "check")
           ELSE IF gone = {} THEN Visit(c, Players, "instance")
           ELSE Visit(c, gone, "alone")
    /\ UNCHANGED <<flow, keys, one, games, due, heard, past>>

\* TellAsync: every player's connection is looked up, one by one.
Check(c) ==
    /\ pc[c] = "check"
    /\ \E p \in left[c] :
        LET gone == IF p \in online THEN missing[c] ELSE missing[c] \cup {p} IN
        /\ missing' = [missing EXCEPT ![c] = gone]
        /\ IF left[c] # {p} THEN Visit(c, left[c] \ {p}, "check")
           ELSE IF gone = {} THEN Visit(c, Players, "instance")
           ELSE IF gone = Players THEN Visit(c, Players, "unready")
           ELSE Visit(c, Players \ gone, "alone")
    /\ UNCHANGED <<flow, keys, one, games, due, heard, past>>

Instance(c) ==
    /\ pc[c] = "instance"
    /\ \E p \in left[c] : Tell({p}, "instance") /\ Turn(c, {p}, "instance", "done")
    /\ UNCHANGED <<flow, keys, missing, one, games, due, past>>

\* With a player gone the others are closed after a banner, and nobody is ready any more.
Alone(c) ==
    /\ pc[c] = "alone"
    /\ \E p \in left[c] : one' = [one EXCEPT ![c] = ConnectionOf(p)]
    /\ GoTo(c, "banner")
    /\ UNCHANGED <<flow, keys, left, missing, games, due, heard, past>>

Banner(c) ==
    /\ pc[c] = "banner"
    /\ Tell({one[c].who}, "alone")
    /\ GoTo(c, "closing")
    /\ UNCHANGED <<flow, keys, local, games, due, past>>

CloseAlone(c) == pc[c] = "closing" /\ Close(c, "alone", "unready")

Unready(c) ==
    /\ pc[c] = "unready"
    /\ \E p \in left[c] : ready' = ready \ {p} /\ Turn(c, {p}, "unready", "done")
    /\ UNCHANGED <<flow, set, pointers, queued, missing, one, games, due, heard, past>>

(* --------------- The delayed closes, the games, and what fails --------------- *)

\* DelayedMessageSweep: removed, then published; the node closes the connection if it is the one named.
Sweep(d) ==
    /\ due' = due \ {d}
    /\ online' = IF d.conn \in {0, opened[d.who]} THEN online \ {d.who} ELSE online
    /\ UNCHANGED <<flow, keys, pc, local, opened, heard, past>>

SweepFails(d) ==
    /\ faults < MaxFaults
    /\ due' = due \ {d}
    /\ failed' = failed \cup {"sweep"}
    /\ faults' = faults + 1
    /\ UNCHANGED <<flow, keys, pc, local, games, heard, waiting>>

Leave(p) ==
    /\ p \in online
    /\ online' = online \ {p}
    /\ UNCHANGED <<flow, keys, pc, local, opened, due, heard, past>>

Connect(p) ==
    /\ p \notin online
    /\ opened[p] < MaxConns
    /\ opened' = [opened EXCEPT ![p] = @ + 1]
    /\ online' = online \cup {p}
    /\ UNCHANGED <<flow, keys, pc, local, due, heard, past>>

Forget(a, step) ==
    /\ Visit(a, Players, step)
    /\ one' = [one EXCEPT ![a] = Nobody]
    /\ UNCHANGED missing

\* Not the code: a launch that fails is acknowledged too.
ReplicaGivesUp(r) ==
    /\ faults < MaxFaults
    /\ pc[r] # "idle"
    /\ failed' = IF pc[r] \in Telling THEN failed \cup {"launch"} ELSE failed
    /\ faults' = faults + 1
    /\ entry' = "acked"
    /\ Forget(r, "idle")
    /\ UNCHANGED <<match, announced, deliveries, p2p, relay, keys, games, due, heard, waiting>>

\* A Redis failure or a crash: the entry stays pending, a release is not tried again.
ReplicaFails(r) ==
    /\ faults < MaxFaults
    /\ pc[r] # "idle"
    /\ failed' = IF pc[r] \in Telling THEN failed \cup {"launch"} ELSE failed
    /\ faults' = faults + 1
    /\ Forget(r, "idle")
    /\ UNCHANGED <<flow, keys, games, due, heard, waiting>>

CallFails(c) ==
    /\ faults < MaxFaults
    /\ pc[c] \in Releasing
    /\ failed' = failed \cup {"release"}
    /\ faults' = faults + 1
    /\ Forget(c, "done")
    /\ UNCHANGED <<flow, keys, games, due, heard, waiting>>

(* --------------------------------- The system --------------------------------- *)

ReplicaStep(r) ==
    \/ Read(r) \/ Claim(r) \/ Look(r) \/ Build(r) \/ Announce(r) \/ Acknowledge(r)
    \/ Found(r) \/ GameServerReady(r) \/ Complete(r) \/ Config(r)
    \/ Unset(r) \/ Unkey(r) \/ Unmatch(r) \/ Back(r) \/ Off(r) \/ CloseOff(r)

ReleaseStep(c) ==
    \/ Check(c) \/ Instance(c) \/ Alone(c) \/ Banner(c) \/ CloseAlone(c) \/ Unready(c)

Next ==
    \/ Keep \/ Append \/ Expire \/ ExpireAnnounced
    \/ \E r \in Replicas : ReplicaStep(r) \/ ReplicaFails(r)
    \/ \E c \in Calls : ReleaseStep(c) \/ Register(c) \/ P2PReady(c) \/ P2PFailed(c) \/ CallFails(c)
    \/ \E d \in due : Sweep(d) \/ SweepFails(d)
    \/ \E p \in Restless : Leave(p) \/ Connect(p)

Spec == Init /\ [][Next]_vars

\* Replicas, requests and the sweep go on; nobody has to launch, call or connect.
LiveSpec ==
    /\ Spec
    /\ \A r \in Replicas : WF_vars(ReplicaStep(r))
    /\ \A c \in Calls : WF_vars(ReleaseStep(c))
    /\ WF_vars(\E d \in due : Sweep(d))

(* --------------------------------- Properties --------------------------------- *)

Verdict(p) == heard[p]["ready"] + heard[p]["cancel"] + heard[p]["off"]

\* A launch read again, by a replica that took it over or by one that was only slow, sends nothing twice
\* (match_announced, MatchLaunches.cs): each player has one verdict, one completion, one configuration.
ToldOnce ==
    \A p \in Players : Verdict(p) <= 1 /\ heard[p]["complete"] <= 1 /\ heard[p]["config"] <= 1

\* No player is sent to a game server of a match that another was told is off, whatever two replicas' configurations gave.
OneVerdict ==
    \A p, q \in Players : heard[p]["ready"] > 0 => heard[q]["cancel"] + heard[q]["off"] = 0

\* Once the entry is acknowledged and no replica is at it, each player has heard, unless {match} was over first, the
\* entry was dropped after its last delivery, or a fault came between the claim of match_announced and the last word.
LostOnlyOnceClaimed ==
    entry = "acked" /\ (\A r \in Replicas : pc[r] = "idle") =>
        \/ \A p \in Players : Verdict(p) = 1
        \/ "launch" \in failed
        \/ (\A p \in Players : Verdict(p) = 0) /\ (match = "over" \/ deliveries > MaxDeliveries)

\* A launch in the stream is acknowledged in the end, whatever replicas crash over it: none is left pending for good.
Settles == entry = "new" ~> entry = "acked"

\* A release leaves nobody on the loading screen: each player connected when it began is told to connect, or that
\* connection is gone in the end, unless a fault cut the release or the sweep short.
NobodyLeftLoading ==
    \A c \in Calls, p \in Players :
        waiting[c][p] # 0 ~>
            \/ heard[p]["instance"] > 0
            \/ p \notin online
            \/ opened[p] # waiting[c][p]
            \/ failed \cap {"release", "sweep"} # {}
=============================================================================
