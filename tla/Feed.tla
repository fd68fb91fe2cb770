-------------------------------- MODULE Feed --------------------------------
(***************************************************************************)
(* What the realtime gateway promises a game of its player's messages:     *)
(* once it is connected, each one of the player's replay log, once, in the *)
(* log's order and with no gap, until the game closes; nothing is promised  *)
(* of what was logged before the connection was there (floor).             *)
(***************************************************************************)
EXTENDS Naturals, Sequences

CONSTANT Kinds     \* of log entries: "message", "close", and what is for another connection

VARIABLES
    log,     \* the player's log: the kind of each entry, numbered from 1
    floor,   \* how much of it was there when the connection was
    got,     \* the entries the game was sent
    game     \* "open" or "closed"

vars == <<log, floor, got, game>>

Last == IF got = <<>> THEN 0 ELSE got[Len(got)]

Init ==
    /\ log = <<>>
    /\ floor = 0
    /\ got = <<>>
    /\ game = "open"

Send(kind) ==
    /\ log' = Append(log, kind)
    /\ UNCHANGED <<floor, got, game>>

Connect ==
    /\ game = "open"
    /\ got = <<>>
    /\ floor' = Len(log)
    /\ UNCHANGED <<log, got, game>>

\* Only what was there before the connection, and what is no message, is skipped.
Deliver(m) ==
    /\ game = "open"
    /\ m > Last
    /\ log[m] = "message"
    /\ \A skipped \in Last + 1 .. m - 1 : skipped <= floor \/ log[skipped] # "message"
    /\ got' = Append(got, m)
    /\ UNCHANGED <<log, floor, game>>

Close ==
    /\ game' = "closed"
    /\ UNCHANGED <<log, floor, got>>

Next ==
    \/ \E kind \in Kinds : Send(kind)
    \/ Connect
    \/ \E m \in 1 .. Len(log) : Deliver(m)
    \/ Close

Spec == Init /\ [][Next]_vars
=============================================================================
