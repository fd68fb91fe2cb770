-------------------------- MODULE RankedSetProofs --------------------------
(***************************************************************************)
(* Theorems about RankedSet, for any requests under way at once, any        *)
(* behaviours of the players and the servers, and any bounds on them.       *)
(***************************************************************************)
EXTENDS RankedSet, FiniteSetTheorems, TLAPS

-----------------------------------------------------------------------------
(* Types. *)

\* The games whose point went to team t.
PointsOf(t) == {g \in Games : counted[g] = t}
Points(t) == Cardinality(PointsOf(t))

SetShape == [played : 0 .. 2, score : [Players -> Nat], in : SUBSET Players, conceder : Players \cup {None}]

\* A set in the store, or the copy a request has of it, has the score that was
\* counted.
IsSet(s) == s = NoSet \/ (s \in SetShape /\ \A t \in Players : s.score[t] = Points(t))

OutcomeType == [id : Games, winner : Players, conceder : Players \cup {None}]
ReportType  == [who : Players, winner : Players, kept : BOOLEAN]
RequestType ==
    [op : {"idle", "checkin", "concede", "faceoff", "report", "end", "dodge"},
     at : {"idle", "lock", "held", "counted", "rate", "keep", "settle", "drop"},
     who : Players \cup {None}, game : {0} \cup Games,
     arg : (0 .. 4) \cup {None} \cup OutcomeType, mine : SetShape \cup {NoSet}]

\* What a request carries, by its operation and how far it is.
Carries(q) ==
    /\ q.op \in {"checkin", "concede", "report", "dodge"} => q.who \in Players
    /\ q.op \in {"checkin", "report", "end", "dodge"} \/ q.at \in {"held", "rate"} => q.game \in Games
    /\ q.at = "rate" => q.arg \in OutcomeType
    /\ q.op = "report" /\ q.at \in {"lock", "held"} => q.arg \in Players
    /\ q.op = "dodge" => q.arg \in Games

\* The steps of a request that has the lock.
Locked == {"held", "counted", "rate"}

KeysOK ==
    /\ ptr \in [Players -> BOOLEAN]
    /\ checkins \subseteq Players
    /\ known \in {0} \cup Games
    /\ crashed \in BOOLEAN
    /\ faults \in 0 .. MaxFaults
MarksOK ==
    /\ counted \in [Games -> Players \cup {None}]
    /\ toSet \subseteq Games
    /\ dedup \subseteq 0 .. 2
    /\ elo \in [Games -> {"none", "disconnect_concede", "set_over", "concede", "set_complete", "pregame_dodge"}]
    /\ flag \in [Players -> {"none", "set", "other"}]
    /\ crash \subseteq Games
\* Games are made one after the other; a game has one report of each player at most.
MatchesOK ==
    /\ game \in [Games -> {"none", "made", "failed", "started", "ending", "ended"}]
    /\ game[1] # "none"
    /\ \A g \in Games : g > 1 /\ game[g] # "none" => game[g - 1] # "none"
    /\ off \subseteq Games
    /\ reports \in [Games -> Seq(ReportType)]
    /\ \A g \in Games : \A i, j \in DOMAIN reports[g] : i # j => reports[g][i].who # reports[g][j].who
ReqsOK ==
    /\ req \in [Requests -> RequestType]
    /\ \A r \in Requests : Carries(req[r])
OwnReport ==
    \A r \in Requests : At(r, "report", "keep") =>
        \E i \in DOMAIN reports[req[r].game] : reports[req[r].game][i].who = req[r].who
EndsGame == \A r \in Requests : req[r].op = "end" => game[req[r].game] \in {"ending", "ended"}
\* Who has the lock is at a step that needs it, and only they have a copy of the set.
LockOK ==
    /\ lock \in Requests \cup {None}
    /\ \A r \in Requests : (lock = r <=> req[r].at \in Locked) /\ (lock # r => req[r].mine = NoSet)
SetsOK == IsSet(rec) /\ \A r \in Requests : IsSet(req[r].mine)
RatedOK == rated \in Seq(OutcomeType)

Typed == KeysOK /\ MarksOK /\ MatchesOK /\ ReqsOK /\ OwnReport /\ EndsGame /\ LockOK /\ SetsOK /\ RatedOK

LEMMA Constants1 ==
  /\ MaxGames \in 2 .. 4 /\ MaxFaults \in Nat
  /\ 1 \in Games /\ 2 \in Games /\ 0 \notin Games /\ Games \subseteq 1 .. 4 /\ Games \subseteq Nat
  /\ None \notin Requests /\ None \notin Players /\ None \notin Games
  /\ Players = {0, 1} /\ \A p \in Players : Other(p) \in Players /\ Other(p) # p
<1>1. MaxGames \in 2 .. 4 /\ MaxFaults \in Nat /\ None \notin Requests \cup (0 .. 4)
  BY SetAssumption
<1>2. \A n \in {0, 1, 2, 3, 4} : n # None
  BY <1>1
<1>. QED
  BY <1>1, <1>2 DEF Games, Players, Other

\* Current is the last game made.
LEMMA CurrentGame ==
  ASSUME MatchesOK
  PROVE  /\ Current \in Games
         /\ game[Current] # "none"
         /\ \A g \in Games : game[g] # "none" <=> g <= Current
<1> DEFINE Last(g) == game[g] # "none" /\ (g = MaxGames \/ game[g + 1] = "none")
<1>0. MaxGames \in {2, 3, 4} /\ Games \subseteq {1, 2, 3, 4}
  BY SetAssumption DEF Games
<1>1. \E g \in Games : Last(g)
  <2>1. game[1] # "none" /\ 1 \in Games /\ 2 \in Games
    BY SetAssumption DEF MatchesOK, Games
  <2>2. CASE game[2] = "none"
    BY <2>1, <2>2
  <2>3. CASE game[2] # "none" /\ MaxGames = 2
    BY <2>1, <2>3
  <2>4. CASE game[2] # "none" /\ MaxGames > 2 /\ (MaxGames = 3 \/ game[3] = "none")
    <3>1. 3 \in Games
      BY <2>4, SetAssumption DEF Games
    <3>. QED
      BY <2>1, <2>4, <3>1
  <2>5. CASE game[2] # "none" /\ MaxGames = 4 /\ game[3] # "none"
    <3>1. 3 \in Games /\ 4 \in Games
      BY <2>5 DEF Games
    <3>2. CASE game[4] = "none"
      BY <2>5, <3>1, <3>2
    <3>3. CASE game[4] # "none"
      BY <2>5, <3>1, <3>3
    <3>. QED
      BY <3>2, <3>3
  <2>. QED
    BY <1>0, <2>2, <2>3, <2>4, <2>5
<1>2. Current \in Games /\ Last(Current)
  BY <1>1 DEF Current
<1>h. ASSUME NEW g \in Games, g > 1, game[g] # "none" PROVE g - 1 \in Games /\ game[g - 1] # "none"
  BY <1>h, SetAssumption DEF MatchesOK, Games
<1>3. ASSUME NEW g \in Games, game[g] # "none", g > Current PROVE FALSE
  <2>1. Current \in {1, 2, 3, 4} /\ g \in {1, 2, 3, 4} /\ Current < MaxGames
    BY <1>0, <1>2, <1>3, SetAssumption DEF Games
  <2>2. game[Current + 1] = "none"
    BY <1>2, <2>1
  <2>3. CASE g = Current + 1
    BY <1>3, <2>2, <2>3
  <2>4. CASE g = Current + 2
    <3>1. game[g - 1] # "none" /\ g - 1 = Current + 1
      BY <1>h, <1>3, <2>1, <2>4
    <3>. QED
      BY <2>2, <3>1
  <2>5. CASE g = Current + 3
    <3>1. g - 1 \in Games /\ game[g - 1] # "none" /\ g - 1 > 1
      BY <1>h, <1>3, <2>1, <2>5
    <3>2. game[(g - 1) - 1] # "none" /\ (g - 1) - 1 = Current + 1
      BY <1>h, <2>1, <2>5, <3>1
    <3>. QED
      BY <2>2, <3>2
  <2>. QED
    BY <1>3, <2>1, <2>3, <2>4, <2>5
<1>4. ASSUME NEW g \in Games, g <= Current PROVE game[g] # "none"
  <2>1. Current \in {1, 2, 3, 4} /\ g \in {1, 2, 3, 4}
    BY <1>0, <1>2
  <2>2. game[Current] # "none"
    BY <1>2
  <2>3. Current > 1 => Current - 1 \in Games /\ game[Current - 1] # "none"
    BY <1>h, <1>2, <2>2
  <2>4. Current > 2 => Current - 2 \in Games /\ game[Current - 2] # "none"
    <3> SUFFICES ASSUME Current > 2 PROVE Current - 2 \in Games /\ game[Current - 2] # "none"
      OBVIOUS
    <3>1. (Current - 1) - 1 \in Games /\ game[(Current - 1) - 1] # "none" /\ (Current - 1) - 1 = Current - 2
      BY <1>h, <2>1, <2>3
    <3>. QED
      BY <3>1
  <2>5. Current = 4 => game[1] # "none"
    BY DEF MatchesOK
  <2>. QED
    BY <1>4, <2>1, <2>2, <2>3, <2>4, <2>5
<1>. QED
  BY <1>0, <1>2, <1>3, <1>4

\* The points of a team are at most as many as the games; none have been counted at first.
LEMMA PointsBounded == \A t : IsFiniteSet(PointsOf(t)) /\ Points(t) \in 0 .. 4
<1>1. IsFiniteSet(Games) /\ Cardinality(Games) <= 4
  <2>1. IsFiniteSet(1 .. MaxGames) /\ Cardinality(1 .. MaxGames) = IF 1 > MaxGames THEN 0 ELSE MaxGames - 1 + 1
    BY Constants1, FS_Interval
  <2>. QED
    BY <2>1, Constants1 DEF Games
<1>2. ASSUME NEW t PROVE IsFiniteSet(PointsOf(t)) /\ Cardinality(PointsOf(t)) <= Cardinality(Games) /\ Cardinality(PointsOf(t)) \in Nat
  <2>1. PointsOf(t) \in SUBSET Games
    BY DEF PointsOf
  <2>. QED
    BY <1>1, <2>1, FS_Subset, FS_CardinalityType
<1>3. Cardinality(Games) \in Nat
  BY <1>1, FS_CardinalityType
<1>. QED
  BY <1>1, <1>2, <1>3 DEF Points
-----------------------------------------------------------------------------
(* What a step does to the requests and the lock. *)

\* A request that begins.
LEMMA Begins ==
  ASSUME ReqsOK, LockOK, NEW r \in Requests, Free(r), UNCHANGED lock,
         NEW x \in RequestType, Carries(x), x.at \notin Locked, x.mine = NoSet, req' = [req EXCEPT ![r] = x]
  PROVE  ReqsOK' /\ LockOK' /\ req'[r] = x /\ \A s \in Requests \ {r} : req'[s] = req[s]
<1>1. req'[r] = x /\ \A s \in Requests \ {r} : req'[s] = req[s]
  BY DEF ReqsOK
<1>2. req[r].at \notin Locked
  BY DEF Free, Idle, Locked
<1>3. ReqsOK'
  BY <1>1 DEF ReqsOK
<1>4. LockOK'
  BY <1>1, <1>2 DEF LockOK
<1>. QED
  BY <1>1, <1>3, <1>4

\* A request that has the lock and keeps it.
LEMMA GoesOn ==
  ASSUME ReqsOK, LockOK, NEW r \in Requests, req[r].at \in Locked, UNCHANGED lock,
         NEW x \in RequestType, Carries(x), x.at \in Locked, req' = [req EXCEPT ![r] = x]
  PROVE  ReqsOK' /\ LockOK' /\ req'[r] = x /\ \A s \in Requests \ {r} : req'[s] = req[s]
<1>1. req'[r] = x /\ \A s \in Requests \ {r} : req'[s] = req[s]
  BY DEF ReqsOK
<1>2. ReqsOK'
  BY <1>1 DEF ReqsOK
<1>3. LockOK'
  BY <1>1 DEF LockOK
<1>. QED
  BY <1>1, <1>2, <1>3

LEMMA IdleTyped == Idle \in RequestType /\ Carries(Idle) /\ Idle.at = "idle" /\ Idle.mine = NoSet /\ Idle.op = "idle"
BY DEF Idle, RequestType, Carries

\* A request that is answered.
LEMMA Finishes ==
  ASSUME ReqsOK, LockOK, NEW r \in Requests, Finish(r)
  PROVE  ReqsOK' /\ LockOK' /\ req'[r] = Idle /\ \A s \in Requests \ {r} : req'[s] = req[s]
<1>1. req'[r] = Idle /\ \A s \in Requests \ {r} : req'[s] = req[s]
  BY DEF ReqsOK, Finish
<1>2. ReqsOK'
  BY <1>1, IdleTyped DEF ReqsOK, Finish
<1>3. Idle.at \notin Locked
  BY IdleTyped DEF Locked
<1>4. lock' \in Requests \cup {None} /\ lock' # r
  BY Constants1 DEF Finish, LockOK
<1>5. \A s \in Requests \ {r} : lock' = s <=> lock = s
  BY Constants1 DEF Finish, LockOK
<1>6. LockOK'
  BY <1>1, <1>3, <1>4, <1>5, IdleTyped DEF LockOK
<1>. QED
  BY <1>1, <1>2, <1>6

\* A request that settles the set has the lock, and is answered or goes on to rate it.
LEMMA Settles ==
  ASSUME ReqsOK, LockOK, NEW r \in Requests, NEW why, NEW winner \in Players, NEW conceder \in Players \cup {None},
         req[r].at \in Locked, req[r].op # "dodge", req[r].game \in Games, Settle(r, why, Outcome(1, winner, conceder))
  PROVE  /\ ReqsOK' /\ LockOK' /\ \A s \in Requests \ {r} : req'[s] = req[s]
         /\ \/ /\ elo[1] = "none" /\ elo' = [elo EXCEPT ![1] = why]
               /\ req'[r].at = "rate" /\ req'[r].arg = Outcome(1, winner, conceder)
               /\ req'[r].op = req[r].op /\ req'[r].who = req[r].who /\ req'[r].game = req[r].game /\ req'[r].mine = req[r].mine
               /\ UNCHANGED <<keys, lock>>
            \/ elo[1] # "none" /\ req'[r] = Idle /\ Drop /\ Finish(r) /\ UNCHANGED elo
<1> DEFINE x == [req[r] EXCEPT !.at = "rate", !.arg = Outcome(1, winner, conceder)]
<1>1. CASE elo[1] = "none"
  <2>1. Outcome(1, winner, conceder) \in OutcomeType
    BY Constants1 DEF Outcome, OutcomeType
  <2>2. req[r] \in RequestType /\ Carries(req[r])
    BY DEF ReqsOK
  <2>3. x \in RequestType /\ Carries(x) /\ x.at \in Locked
    <3>1. x \in RequestType
      BY <2>1, <2>2 DEF RequestType
    <3>2. x.op = req[r].op /\ x.who = req[r].who /\ x.game = req[r].game /\ x.at = "rate" /\ x.arg \in OutcomeType
      BY <2>1, <2>2 DEF RequestType
    <3>. QED
      BY <2>2, <3>1, <3>2 DEF Carries, Locked
  <2>4. req' = [req EXCEPT ![r] = x] /\ UNCHANGED <<keys, lock>> /\ elo' = [elo EXCEPT ![1] = why]
    <3>1. req' = [req EXCEPT ![r].at = "rate", ![r].arg = Outcome(1, winner, conceder)] /\ UNCHANGED <<keys, lock>> /\ elo' = [elo EXCEPT ![1] = why]
      BY <1>1 DEF Settle
    <3>2. req' = [req EXCEPT ![r] = [[@ EXCEPT !.at = "rate"] EXCEPT !.arg = Outcome(1, winner, conceder)]]
      BY <3>1, Zenon
    <3>3. [[req[r] EXCEPT !.at = "rate"] EXCEPT !.arg = Outcome(1, winner, conceder)] = x
      BY <2>2 DEF RequestType
    <3>. QED
      BY <3>1, <3>2, <3>3
  <2>5. x.at = "rate" /\ x.arg = Outcome(1, winner, conceder) /\ x.op = req[r].op /\ x.who = req[r].who /\ x.game = req[r].game /\ x.mine = req[r].mine
    BY <2>2 DEF RequestType
  <2>. HIDE DEF x
  <2>6. ReqsOK' /\ LockOK' /\ req'[r] = x /\ \A s \in Requests \ {r} : req'[s] = req[s]
    BY <2>3, <2>4, GoesOn
  <2>. QED
    BY <1>1, <2>4, <2>5, <2>6
<1>2. CASE elo[1] # "none"
  BY <1>2, Finishes DEF Settle
<1>. QED
  BY <1>1, <1>2

\* Both players are two.
LEMMA PlayersCounted ==
  ASSUME NEW S \in SUBSET Players
  PROVE  Cardinality(S) \in 0 .. 2 /\ (Cardinality(S) = 2 <=> S = Players)
<1>1. IsFiniteSet({0}) /\ Cardinality({0}) = 1
  BY FS_Singleton
<1>2. Players = {0} \cup {1} /\ 1 \notin {0}
  BY DEF Players
<1>h. IsFiniteSet(Players) /\ Cardinality(Players) = 2
  BY <1>1, <1>2, FS_AddElement
<1>3. Cardinality(S) <= Cardinality(Players) /\ (Cardinality(Players) = Cardinality(S) => Players = S) /\ IsFiniteSet(S)
  BY <1>h, FS_Subset
<1>. QED
  BY <1>h, <1>3, FS_CardinalityType

\* The winner decided from reports one of which is kept is a player.
LEMMA ResolvesToPlayer ==
  ASSUME NEW s \in Seq(ReportType), \A i, j \in DOMAIN s : i # j => s[i].who # s[j].who,
         \E i \in DOMAIN s : s[i].kept
  PROVE  Resolve(s) \in Players
<1> DEFINE kept == {i \in DOMAIN s : s[i].kept}
           first == CHOOSE i \in kept : \A j \in kept : i <= j
<1>1. DOMAIN s = 1 .. Len(s) /\ Len(s) \in Nat /\ \A i \in DOMAIN s : s[i] \in ReportType
  OBVIOUS
<1>2. \A i \in DOMAIN s : s[i].who \in {0, 1} /\ s[i].winner \in Players
  BY <1>1 DEF ReportType, Players
<1>3. Len(s) <= 2
  <2> SUFFICES ASSUME Len(s) > 2 PROVE FALSE
    BY <1>1
  <2>1. 1 \in DOMAIN s /\ 2 \in DOMAIN s /\ 3 \in DOMAIN s
    BY <1>1
  <2>2. s[1].who # s[2].who /\ s[1].who # s[3].who /\ s[2].who # s[3].who
    BY <2>1
  <2>. QED
    BY <1>2, <2>1, <2>2
<1>4. kept \subseteq {1, 2} /\ kept # {}
  BY <1>1, <1>3
<1>5. \E i \in kept : \A j \in kept : i <= j
  <2>1. CASE 1 \in kept
    BY <1>4, <2>1
  <2>2. CASE 1 \notin kept
    <3>1. kept = {2}
      BY <1>4, <2>2
    <3>. HIDE DEF kept
    <3>. QED
      BY <3>1
  <2>. QED
    BY <2>1, <2>2
<1>6. first \in kept
  BY <1>5
<1>7. s[first].winner \in Players
  BY <1>2, <1>6
<1>. QED
  BY <1>7 DEF Resolve

\* A report that is kept: still one of each player, and in the game's order.
KeptNow(q) == [i \in DOMAIN reports[q.game] |->
                 IF reports[q.game][i].who = q.who THEN [reports[q.game][i] EXCEPT !.kept = TRUE] ELSE reports[q.game][i]]

LEMMA KeepsReports ==
  ASSUME MatchesOK, ReqsOK, OwnReport, NEW r \in Requests, At(r, "report", "keep")
  PROVE  /\ KeptNow(req[r]) \in Seq(ReportType)
         /\ DOMAIN KeptNow(req[r]) = DOMAIN reports[req[r].game]
         /\ \A i \in DOMAIN reports[req[r].game] : KeptNow(req[r])[i].who = reports[req[r].game][i].who
         /\ Resolve(KeptNow(req[r])) \in Players
<1> DEFINE old == reports[req[r].game]
           new == KeptNow(req[r])
<1>1. req[r].game \in Games /\ req[r].who \in Players
  BY DEF ReqsOK, Carries, At
<1>2. old \in Seq(ReportType) /\ \A i, j \in DOMAIN old : i # j => old[i].who # old[j].who
  BY <1>1 DEF MatchesOK
<1>3. \E i \in DOMAIN old : old[i].who = req[r].who
  BY DEF OwnReport
<1>4. DOMAIN old = 1 .. Len(old) /\ Len(old) \in Nat /\ \A i \in DOMAIN old : old[i] \in ReportType
  BY <1>2
<1>5. DOMAIN new = DOMAIN old /\ \A i \in DOMAIN old : new[i] = IF old[i].who = req[r].who THEN [old[i] EXCEPT !.kept = TRUE] ELSE old[i]
  BY DEF KeptNow
<1>6. \A i \in DOMAIN old : new[i] \in ReportType /\ new[i].who = old[i].who /\ (old[i].who = req[r].who => new[i].kept)
  BY <1>4, <1>5 DEF ReportType
<1>7. new \in Seq(ReportType)
  <2>1. \E n \in Nat : new \in [1 .. n -> ReportType]
    BY <1>4, <1>5, <1>6 DEF KeptNow
  <2>. QED
    BY <2>1
<1>8. Resolve(new) \in Players
  BY <1>2, <1>3, <1>5, <1>6, <1>7, ResolvesToPlayer
<1>. QED
  BY <1>5, <1>6, <1>7, <1>8

\* Every step keeps the requests' types and the lock; a request that reads the set
\* reads it as it is.
LEMMA ReqsStep ==
  ASSUME Typed, [Next]_vars
  PROVE  /\ ReqsOK' /\ LockOK'
         /\ \A r \in Requests : req'[r].mine \in {NoSet, rec, req[r].mine} \/ CheckinCounts(r)
<1> DEFINE Read == \A r \in Requests : req'[r].mine \in {NoSet, rec, req[r].mine} \/ CheckinCounts(r)
<1> USE DEF Typed
<1>i. Idle \in RequestType /\ Carries(Idle) /\ Idle.at = "idle" /\ Idle.mine = NoSet
  BY IdleTyped
<1>t. \A r \in Requests : req[r] \in RequestType /\ Carries(req[r])
  BY DEF ReqsOK
<1>b. ASSUME NEW r \in Requests, Free(r), UNCHANGED lock,
             NEW x \in RequestType, Carries(x), x.at \notin Locked, x.mine = NoSet, req' = [req EXCEPT ![r] = x]
      PROVE  ReqsOK' /\ LockOK' /\ Read
  BY <1>b, Begins
<1>f. ASSUME NEW r \in Requests, Finish(r) PROVE ReqsOK' /\ LockOK' /\ Read
  BY <1>f, <1>i, Finishes
<1>s. ASSUME NEW r \in Requests, NEW why, NEW winner \in Players, NEW conceder \in Players \cup {None},
             req[r].at \in Locked, req[r].op # "dodge", req[r].game \in Games, Settle(r, why, Outcome(1, winner, conceder))
      PROVE  ReqsOK' /\ LockOK' /\ Read
  <2>1. req'[r].mine \in {NoSet, req[r].mine}
    <3>1. req'[r] = Idle \/ req'[r].mine = req[r].mine
      BY <1>s, Settles
    <3>. QED
      BY <3>1, <1>i
  <2>. QED
    BY <1>s, <2>1, Settles
<1>u. CASE UNCHANGED <<req, lock>>
  <2>1. ReqsOK' /\ LockOK'
    BY <1>u DEF ReqsOK, LockOK
  <2>. QED
    BY <1>u, <2>1
<1>1. ASSUME NEW r \in Requests, TakeLock(r) PROVE ReqsOK' /\ LockOK' /\ Read
  <2> DEFINE game1 == IF req[r].game = 0 THEN (IF known = 0 THEN 1 ELSE known) ELSE req[r].game
             mine1 == IF req[r].op = "end" /\ req[r].arg = None THEN NoSet ELSE rec
             x == [req[r] EXCEPT !.at = "held", !.game = game1, !.mine = mine1]
  <2>1. req' = [req EXCEPT ![r] = x] /\ lock = None /\ lock' = r /\ req[r].at = "lock"
    BY <1>1 DEF TakeLock
  <2>2. mine1 \in SetShape \cup {NoSet} /\ mine1 \in {NoSet, rec}
    BY DEF SetsOK, IsSet
  <2>4. game1 \in Games
    BY <1>t, Constants1 DEF KeysOK, RequestType
  <2>. HIDE DEF game1, mine1
  <2>5. x \in RequestType
    BY <1>t, <2>2, <2>4 DEF RequestType
  <2>3. x.op = req[r].op /\ x.at = "held" /\ x.who = req[r].who /\ x.arg = req[r].arg /\ x.game = game1 /\ x.mine = mine1
    BY <1>t DEF RequestType
  <2>. HIDE DEF x
  <2>6. Carries(x)
    BY <1>t, <2>1, <2>3, <2>4 DEF Carries
  <2>7. req'[r] = x /\ \A t \in Requests \ {r} : req'[t] = req[t]
    BY <2>1 DEF ReqsOK
  <2>8. ReqsOK'
    BY <1>t, <2>1, <2>5, <2>6, <2>7 DEF ReqsOK
  <2>9. LockOK'
    BY <2>1, <2>3, <2>7, Constants1 DEF LockOK, Locked
  <2>10. Read
    BY <2>2, <2>3, <2>7
  <2>. QED
    BY <2>8, <2>9, <2>10
<1>2. ASSUME NEW r \in Requests,
             Rate(r) \/ CheckinCrashed(r) \/ CheckinWaits(r) \/ CheckinNext(r) \/ FaceoffDrops(r) \/ CountWinner(r)
             \/ EndOrphan(r) \/ EndResolved(r) \/ EndContinues(r) \/ DodgeSettles(r)
      PROVE  ReqsOK' /\ LockOK' /\ Read
  <2>1. Finish(r)
    BY <1>2 DEF Rate, CheckinCrashed, CheckinWaits, CheckinNext, FaceoffDrops, CountWinner, EndOrphan, EndResolved, EndContinues, DodgeSettles
  <2>. QED
    BY <1>f, <2>1
<1>3. ASSUME NEW r \in Requests, CheckinCounts(r) PROVE ReqsOK' /\ LockOK' /\ Read
  <2> DEFINE q == req[r]
             in == checkins \cup {q.who}
             set == IF q.who \in checkins THEN q.mine ELSE [q.mine EXCEPT !.in = in]
             now == IF known # 0 THEN known ELSE IF q.game \in toSet THEN q.game ELSE 1
             x == [q EXCEPT !.at = "counted", !.game = now, !.arg = Cardinality(in), !.mine = set]
  <2>1. q \in RequestType /\ Carries(q) /\ q.op = "checkin" /\ q.at = "held" /\ q.at \in Locked
    BY <1>3, <1>t DEF CheckinCounts, At, Locked
  <2>2. CASE Finish(r)
    BY <1>f, <2>2
  <2>3. CASE q.mine # NoSet /\ req' = [req EXCEPT ![r] = x] /\ UNCHANGED lock
    <3>1. q.who \in Players /\ q.game \in Games
      BY <2>1 DEF Carries
    <3>2. in \in SUBSET Players /\ Cardinality(in) \in 0 .. 4
      BY <3>1, PlayersCounted DEF KeysOK
    <3>3. now \in Games
      BY <3>1, Constants1 DEF KeysOK
    <3>4. set \in SetShape
      BY <2>1, <2>3, <3>2 DEF RequestType, SetShape
    <3>. HIDE DEF in, set, now
    <3>5. x \in RequestType
      BY <2>1, <3>2, <3>3, <3>4 DEF RequestType
    <3>6. x.op = "checkin" /\ x.at = "counted" /\ x.who = q.who /\ x.game = now
      BY <2>1 DEF RequestType
    <3>7. Carries(x) /\ x.at \in Locked
      BY <3>1, <3>3, <3>6 DEF Carries, Locked
    <3>. HIDE DEF x
    <3>8. ReqsOK' /\ LockOK' /\ \A t \in Requests \ {r} : req'[t] = req[t]
      BY <2>1, <2>3, <3>5, <3>7, GoesOn
    <3>. QED
      BY <1>3, <3>8
  <2>4. Finish(r) \/ (q.mine # NoSet /\ req' = [req EXCEPT ![r] = x] /\ UNCHANGED lock)
    BY <1>3 DEF CheckinCounts
  <2>. QED
    BY <2>2, <2>3, <2>4
<1>4. ASSUME NEW r \in Requests, CheckinAlone(r) \/ CheckinOver(r) \/ ConcedeSettles(r) \/ EndOver(r)
      PROVE  ReqsOK' /\ LockOK' /\ Read
  <2>1. req[r].at \in Locked /\ req[r].op # "dodge"
    BY <1>4 DEF CheckinAlone, CheckinOver, ConcedeSettles, EndOver, Counted, Stays, Ending, At, Locked
  <2>2. req[r].game \in Games
    BY <1>4, <1>t DEF CheckinAlone, CheckinOver, ConcedeSettles, EndOver, Counted, Stays, Ending, At, Carries
  <2>3. CASE CheckinAlone(r)
    <3>1. req[r].who \in Players /\ Other(req[r].who) \in Players
      BY <2>3, <1>t, Constants1 DEF CheckinAlone, Counted, At, Carries
    <3>2. Settle(r, "disconnect_concede", Outcome(1, req[r].who, Other(req[r].who)))
      BY <2>3 DEF CheckinAlone
    <3>. QED
      BY <1>s, <2>1, <2>2, <3>1, <3>2
  <2>4. CASE CheckinOver(r)
    <3>1. Leads(req[r].mine) \in Players
      BY Constants1 DEF Leads
    <3>2. req[r].mine.conceder \in Players \cup {None}
      BY <1>t DEF RequestType, SetShape, NoSet
    <3>3. Settle(r, "set_over", Outcome(1, Leads(req[r].mine), req[r].mine.conceder))
      BY <2>4 DEF CheckinOver
    <3>. QED
      BY <1>s, <2>1, <2>2, <3>1, <3>2, <3>3
  <2>5. CASE ConcedeSettles(r)
    <3>1. req[r].who \in Players /\ Other(req[r].who) \in Players
      BY <2>5, <1>t, Constants1 DEF ConcedeSettles, At, Carries
    <3>2. Finish(r) \/ Settle(r, "concede", Outcome(1, Other(req[r].who), req[r].who))
      BY <2>5 DEF ConcedeSettles
    <3>. QED
      BY <1>f, <1>s, <2>1, <2>2, <3>1, <3>2
  <2>6. CASE EndOver(r)
    <3>1. Leads(After(r)) \in Players
      BY Constants1 DEF Leads
    <3>2. Settle(r, "set_complete", Outcome(1, Leads(After(r)), None))
      BY <2>6 DEF EndOver
    <3>. QED
      BY <1>s, <2>1, <2>2, <3>1, <3>2
  <2>. QED
    BY <1>4, <2>3, <2>4, <2>5, <2>6
<1>5. ASSUME NEW r \in Requests, KeepReport(r) PROVE ReqsOK' /\ LockOK' /\ Read
  <2>1. req[r].at = "keep" /\ req[r].op = "report" /\ At(r, "report", "keep") /\ req[r].mine = NoSet /\ lock # r
    BY <1>5 DEF KeepReport, At, LockOK, Locked
  <2>2. CASE Finish(r)
    BY <1>f, <2>2
  <2>3. CASE req' = [req EXCEPT ![r] = [@ EXCEPT !.at = "lock", !.arg = Resolve(KeptNow(req[r]))]] /\ UNCHANGED lock
    <3> DEFINE x == [req[r] EXCEPT !.at = "lock", !.arg = Resolve(KeptNow(req[r]))]
    <3>1. Resolve(KeptNow(req[r])) \in Players
      BY <2>1, KeepsReports
    <3>2. Resolve(KeptNow(req[r])) \in 0 .. 4
      BY <3>1, Constants1
    <3>3. x \in RequestType
      BY <1>t, <3>2 DEF RequestType
    <3>4. x.op = "report" /\ x.at = "lock" /\ x.who = req[r].who /\ x.game = req[r].game /\ x.arg \in Players /\ x.mine = NoSet
      BY <1>t, <2>1, <3>1 DEF RequestType
    <3>5. Carries(x)
      BY <1>t, <2>1, <3>4 DEF Carries
    <3>. HIDE DEF x
    <3>6. req'[r] = x /\ \A t \in Requests \ {r} : req'[t] = req[t]
      BY <2>3 DEF x, ReqsOK
    <3>7. ReqsOK'
      BY <2>3, <3>3, <3>5, <3>6 DEF x, ReqsOK
    <3>8. LockOK'
      BY <2>1, <2>3, <3>4, <3>6 DEF LockOK, Locked
    <3>. QED
      BY <3>4, <3>6, <3>7, <3>8
  <2>4. Finish(r) \/ (req' = [req EXCEPT ![r] = [@ EXCEPT !.at = "lock", !.arg = Resolve(KeptNow(req[r]))]] /\ UNCHANGED lock)
    BY <1>5 DEF KeepReport, KeptNow
  <2>. QED
    BY <2>2, <2>3, <2>4
<1>6. ASSUME NEW r \in Requests, NEW p \in Players, Concede(r, p) \/ Faceoff(r, p) \/ Dodges(r, p) PROVE ReqsOK' /\ LockOK' /\ Read
  <2> DEFINE x(op, at, g, arg) == [op |-> op, at |-> at, who |-> p, game |-> g, arg |-> arg, mine |-> NoSet]
  <2>1. Free(r) /\ UNCHANGED lock
    BY <1>6 DEF Concede, Faceoff, Dodges
  <2>2. CASE Concede(r, p)
    <3>1. req' = [req EXCEPT ![r] = x("concede", "lock", 0, None)]
      BY <2>2 DEF Concede, Begin
    <3>2. x("concede", "lock", 0, None) \in RequestType /\ Carries(x("concede", "lock", 0, None))
      BY DEF RequestType, Carries
    <3>. QED
      BY <1>b, <2>1, <3>1, <3>2 DEF Locked
  <2>3. CASE Faceoff(r, p)
    <3>1. req' = [req EXCEPT ![r] = x("faceoff", "drop", 0, None)]
      BY <2>3 DEF Faceoff, Begin
    <3>2. x("faceoff", "drop", 0, None) \in RequestType /\ Carries(x("faceoff", "drop", 0, None))
      BY DEF RequestType, Carries
    <3>. QED
      BY <1>b, <2>1, <3>1, <3>2 DEF Locked
  <2>4. CASE Dodges(r, p)
    <3> DEFINE id == IF ptr[p] THEN 1 ELSE Current
    <3>1. UNCHANGED req \/ req' = [req EXCEPT ![r] = x("dodge", "settle", Current, id)]
      BY <2>4 DEF Dodges, Begin
    <3>2. Current \in Games /\ id \in Games
      BY CurrentGame, Constants1
    <3>3. id \in 0 .. 4
      BY <3>2, Constants1
    <3>. HIDE DEF id
    <3>4. x("dodge", "settle", Current, id) \in RequestType /\ Carries(x("dodge", "settle", Current, id))
      BY <3>2, <3>3 DEF RequestType, Carries
    <3>5. CASE UNCHANGED req
      BY <1>u, <2>1, <3>5
    <3>6. CASE req' = [req EXCEPT ![r] = x("dodge", "settle", Current, id)]
      BY <1>b, <2>1, <3>6, <3>4 DEF Locked
    <3>. QED
      BY <3>1, <3>5, <3>6
  <2>. QED
    BY <1>6, <2>2, <2>3, <2>4
<1>7. ASSUME NEW r \in Requests, NEW p \in Players, NEW g \in Games, NEW w \in Players, Checkin(r, p, g) \/ Report(r, p, g, w)
      PROVE  ReqsOK' /\ LockOK' /\ Read
  <2> DEFINE x(op, at) == [op |-> op, at |-> at, who |-> p, game |-> g, arg |-> None, mine |-> NoSet]
  <2>1. Free(r) /\ UNCHANGED lock
    BY <1>7 DEF Checkin, Report
  <2>2. x("checkin", "lock") \in RequestType /\ Carries(x("checkin", "lock"))
    BY DEF RequestType, Carries
  <2>3. x("report", "keep") \in RequestType /\ Carries(x("report", "keep"))
    BY DEF RequestType, Carries
  <2>4. UNCHANGED req \/ req' = [req EXCEPT ![r] = x("checkin", "lock")] \/ req' = [req EXCEPT ![r] = x("report", "keep")]
    BY <1>7 DEF Checkin, Report, Begin
  <2>5. CASE UNCHANGED req
    BY <1>u, <2>1, <2>5
  <2>6. CASE req' = [req EXCEPT ![r] = x("checkin", "lock")]
    BY <1>b, <2>1, <2>2, <2>6 DEF Locked
  <2>7. CASE req' = [req EXCEPT ![r] = x("report", "keep")]
    BY <1>b, <2>1, <2>3, <2>7 DEF Locked
  <2>. QED
    BY <2>4, <2>5, <2>6, <2>7
<1>8. ASSUME NEW r \in Requests, NEW g \in Games, EndMatch(r, g) PROVE ReqsOK' /\ LockOK' /\ Read
  <2> DEFINE arg == IF ptr[0] \/ (~ptr[0] /\ g \in toSet) THEN 1 ELSE None
             x == [op |-> "end", at |-> "lock", who |-> None, game |-> g, arg |-> arg, mine |-> NoSet]
  <2>1. Free(r) /\ UNCHANGED lock
    BY <1>8 DEF EndMatch
  <2>2. UNCHANGED req \/ req' = [req EXCEPT ![r] = x]
    BY <1>8 DEF EndMatch, Begin
  <2>3. x \in RequestType /\ Carries(x)
    BY DEF RequestType, Carries
  <2>4. CASE UNCHANGED req
    BY <1>u, <2>1, <2>4
  <2>5. CASE req' = [req EXCEPT ![r] = x]
    BY <1>b, <2>1, <2>3, <2>5 DEF Locked
  <2>. QED
    BY <2>2, <2>4, <2>5
<1>9. ASSUME NEW g \in Games, MatchStarted(g) \/ ServerError(g) PROVE UNCHANGED <<req, lock>>
  BY <1>9 DEF MatchStarted, ServerError
<1>10. ASSUME NEW p \in Players,
              Drops(p) \/ Returns(p) \/ Login(p) \/ CloseIgnored(p) \/ CloseBetween(p) \/ ServerFails(p) \/ LeavesMidGame(p)
       PROVE  UNCHANGED <<req, lock>>
  BY <1>10 DEF Drops, Returns, Login, CloseIgnored, CloseBetween, ServerFails, LeavesMidGame
<1>11. CASE UNCHANGED vars
  BY <1>11, <1>u DEF vars
<1>. QED
  BY <1>1, <1>2, <1>3, <1>4, <1>5, <1>6, <1>7, <1>8, <1>9, <1>10, <1>11, <1>u DEF Next, Handler

-----------------------------------------------------------------------------
(* The types are kept. *)

LEMMA TypedInit ==
  ASSUME Init
  PROVE  Typed
<1> USE Constants1
<1>1. KeysOK /\ MarksOK
  <2>1. KeysOK
    <3>1. ptr \in [Players -> BOOLEAN] /\ checkins \subseteq Players /\ crashed \in BOOLEAN /\ known \in {0} \cup Games
      BY DEF Init
    <3>2. faults \in 0 .. MaxFaults
      BY DEF Init
    <3>. QED
      BY <3>1, <3>2 DEF KeysOK
  <2>2. flag \in [Players -> {"none", "set", "other"}]
    <3>1. flag \in [Players -> {"none", "other"}] \/ flag \in [Players -> {"none"}]
      BY DEF Init
    <3>. QED
      BY <3>1
  <2>3. counted \in [Games -> Players \cup {None}] /\ toSet \subseteq Games /\ dedup \subseteq 0 .. 2 /\ crash \subseteq Games
    BY DEF Init
  <2>4. elo \in [Games -> {"none", "disconnect_concede", "set_over", "concede", "set_complete", "pregame_dodge"}]
    BY DEF Init
  <2>. QED
    BY <2>1, <2>2, <2>3, <2>4 DEF MarksOK
<1>2. MatchesOK
  BY DEF Init, MatchesOK, Games
<1>3. ReqsOK /\ OwnReport /\ EndsGame /\ LockOK
  BY IdleTyped DEF Init, ReqsOK, OwnReport, EndsGame, LockOK, At, Locked
<1>4. \A t \in Players : Points(t) = 0
  <2>1. \A t \in Players : PointsOf(t) = {}
    BY DEF Init, PointsOf
  <2>. QED
    BY <2>1, FS_EmptySet DEF Points
<1>5. IsSet(rec) /\ IsSet(NoSet)
  BY <1>4 DEF Init, IsSet, SetShape
<1>6. SetsOK
  BY <1>5, IdleTyped DEF Init, SetsOK
<1>7. RatedOK
  BY DEF Init, RatedOK
<1>. QED
  BY <1>1, <1>2, <1>3, <1>6, <1>7 DEF Typed

LEMMA KeysStep ==
  ASSUME Typed, [Next]_vars
  PROVE  KeysOK'
<1> USE Constants1 DEF Typed, KeysOK
<1>c. Current \in Games
  BY CurrentGame
<1>m. ASSUME NEW what, May(what) PROVE faults' \in 0 .. MaxFaults
  BY <1>m DEF May
<1>w. \A r \in Requests : req[r].op \in {"checkin", "report"} => req[r].who \in Players
  BY DEF ReqsOK, Carries
<1>s. ASSUME NEW r, NEW why, NEW x, Settle(r, why, x), UNCHANGED faults PROVE KeysOK'
  BY <1>s DEF Settle, Drop, keys
<1>1. ASSUME NEW r \in Requests, CheckinAlone(r) \/ CheckinOver(r) \/ ConcedeSettles(r) \/ EndOver(r) PROVE KeysOK'
  <2>1. (\E why, x : Settle(r, why, x)) \/ UNCHANGED keys
    BY <1>1 DEF CheckinAlone, CheckinOver, ConcedeSettles, EndOver
  <2>2. UNCHANGED faults
    BY <1>1 DEF CheckinAlone, CheckinOver, ConcedeSettles, EndOver
  <2>. QED
    BY <1>s, <2>1, <2>2 DEF keys
<1>2. ASSUME NEW r \in Requests, Rate(r) \/ CheckinCrashed(r) \/ FaceoffDrops(r) PROVE KeysOK'
  BY <1>2 DEF Rate, CheckinCrashed, FaceoffDrops, Drop
<1>3. ASSUME NEW r \in Requests, CheckinCounts(r) PROVE KeysOK'
  BY <1>3, <1>w DEF CheckinCounts, At, keys
<1>4. ASSUME NEW r \in Requests, CheckinNext(r) PROVE KeysOK'
  <2>1. UNCHANGED crashed
    BY <1>4 DEF CheckinNext
  <2>2. CASE Current + 1 \in Games /\ checkins' = {} /\ ptr' = [p \in Players |-> TRUE] /\ known' = Current + 1 /\ UNCHANGED faults
    BY <2>1, <2>2
  <2>3. CASE May("port") /\ UNCHANGED <<rec, checkins, ptr, known, toSet, game>>
    BY <2>1, <2>3 DEF May
  <2>. QED
    BY <1>4, <2>2, <2>3 DEF CheckinNext
<1>5. ASSUME NEW r \in Requests, TakeLock(r) \/ CheckinWaits(r) \/ KeepReport(r) \/ CountWinner(r) \/ EndOrphan(r) \/ EndResolved(r)
                                 \/ EndContinues(r) \/ DodgeSettles(r)
      PROVE  KeysOK'
  <2>1. CASE TakeLock(r) \/ CheckinWaits(r) \/ KeepReport(r) \/ CountWinner(r) \/ EndResolved(r)
    BY <2>1 DEF TakeLock, CheckinWaits, KeepReport, CountWinner, EndResolved, keys
  <2>2. CASE EndOrphan(r) \/ EndContinues(r) \/ DodgeSettles(r)
    BY <2>2 DEF EndOrphan, EndContinues, DodgeSettles
  <2>. QED
    BY <1>5, <2>1, <2>2
<1>6. ASSUME NEW r \in Requests, NEW p \in Players, Concede(r, p) \/ Faceoff(r, p) \/ Dodges(r, p) PROVE KeysOK'
  <2>1. UNCHANGED keys
    BY <1>6 DEF Concede, Faceoff, Dodges
  <2>2. UNCHANGED faults \/ \E what : May(what)
    BY <1>6 DEF Concede, Faceoff, Dodges, Leaves, Closes
  <2>. QED
    BY <1>m, <2>1, <2>2 DEF keys
<1>7. ASSUME NEW r \in Requests, NEW p \in Players, NEW g \in Games, NEW w \in Players, Checkin(r, p, g) \/ Report(r, p, g, w)
      PROVE  KeysOK'
  BY <1>7 DEF Checkin, Report, May, keys
<1>8. ASSUME NEW r \in Requests, NEW g \in Games, EndMatch(r, g) PROVE KeysOK'
  BY <1>8 DEF EndMatch
<1>9. ASSUME NEW g \in Games, MatchStarted(g) \/ ServerError(g) PROVE KeysOK'
  <2>1. UNCHANGED keys /\ (UNCHANGED faults \/ \E what : May(what))
    BY <1>9 DEF MatchStarted, ServerError
  <2>. QED
    BY <1>m, <2>1 DEF keys
<1>10. ASSUME NEW p \in Players, Drops(p) \/ Returns(p) \/ CloseIgnored(p) \/ LeavesMidGame(p) PROVE KeysOK'
  <2>1. UNCHANGED keys
    BY <1>10 DEF Drops, Returns, CloseIgnored, LeavesMidGame
  <2>2. UNCHANGED faults \/ \E what : May(what)
    BY <1>10 DEF Drops, Returns, CloseIgnored, LeavesMidGame, Leaves, Closes
  <2>. QED
    BY <1>m, <2>1, <2>2 DEF keys
<1>11. ASSUME NEW p \in Players, CloseBetween(p) PROVE KeysOK'
  <2>1. (crashed \/ ptr[p]) \in BOOLEAN
    OBVIOUS
  <2>2. crashed' \in BOOLEAN
    BY <1>11, <2>1 DEF CloseBetween, Closes
  <2>. QED
    BY <1>11, <2>2 DEF CloseBetween, Closes
<1>12. ASSUME NEW p \in Players, Login(p) \/ ServerFails(p) PROVE KeysOK'
  <2>1. UNCHANGED faults \/ \E what : May(what)
    BY <1>12 DEF Login, ServerFails, Closes
  <2>2. CASE Login(p)
    <3>1. ptr' = [ptr EXCEPT ![p] = FALSE] /\ UNCHANGED <<checkins, known, crashed>>
      BY <2>2 DEF Login
    <3>. QED
      BY <1>m, <2>1, <3>1
  <2>3. CASE ServerFails(p)
    <3>1. ptr' = [q \in Players |-> FALSE] /\ UNCHANGED crashed
      BY <2>3 DEF ServerFails
    <3>2. (checkins' = {} /\ known' = 0) \/ UNCHANGED <<checkins, known>>
      BY <2>3 DEF ServerFails
    <3>. QED
      BY <1>m, <2>1, <3>1, <3>2
  <2>. QED
    BY <1>12, <2>2, <2>3
<1>13. CASE UNCHANGED vars
  BY <1>13 DEF vars, keys
<1>. QED
  BY <1>1, <1>2, <1>3, <1>4, <1>5, <1>6, <1>7, <1>8, <1>9, <1>10, <1>11, <1>12, <1>13 DEF Next, Handler

LEMMA MarksStep ==
  ASSUME Typed, [Next]_vars
  PROVE  MarksOK'
<1> USE Constants1 DEF Typed, MarksOK
<1>c. Current \in Games
  BY CurrentGame
<1>t. \A r \in Requests : req[r] \in RequestType /\ Carries(req[r])
  BY DEF ReqsOK
<1>s. ASSUME NEW r, NEW x, NEW why \in {"disconnect_concede", "set_over", "concede", "set_complete"}, Settle(r, why, x)
      PROVE  elo' \in [Games -> {"none", "disconnect_concede", "set_over", "concede", "set_complete", "pregame_dodge"}]
  BY <1>s DEF Settle
<1>q. \A r \in Requests : req[r].mine.played \in 0 .. 2
  BY <1>t DEF RequestType, SetShape, NoSet
<1>1. ASSUME NEW r \in Requests, CheckinAlone(r) \/ ConcedeSettles(r) \/ EndOver(r) PROVE MarksOK'
  <2>1. CASE CheckinAlone(r)
    BY <1>s, <2>1 DEF CheckinAlone
  <2>2. CASE ConcedeSettles(r)
    BY <1>s, <2>2 DEF ConcedeSettles
  <2>3. CASE EndOver(r)
    BY <1>s, <2>3 DEF EndOver
  <2>. QED
    BY <1>1, <2>1, <2>2, <2>3
<1>2. ASSUME NEW r \in Requests, CheckinOver(r) PROVE MarksOK'
  <2>1. dedup' = dedup \cup {req[r].mine.played} /\ \E x : Settle(r, "set_over", x)
    BY <1>2 DEF CheckinOver
  <2>2. flag' \in [Players -> {"none", "set", "other"}]
    BY <1>2 DEF CheckinOver, Stays
  <2>3. UNCHANGED <<counted, toSet, crash>>
    BY <1>2 DEF CheckinOver
  <2>. QED
    BY <1>q, <1>s, <2>1, <2>2, <2>3
<1>3. ASSUME NEW r \in Requests, CheckinNext(r) PROVE MarksOK'
  <2>1. dedup' = dedup \cup {req[r].mine.played} /\ (toSet' = toSet \/ (Current + 1 \in Games /\ toSet' = toSet \cup {Current + 1}))
    BY <1>3 DEF CheckinNext
  <2>2. flag' \in [Players -> {"none", "set", "other"}]
    BY <1>3 DEF CheckinNext, Stays
  <2>3. UNCHANGED <<counted, elo, crash>>
    BY <1>3 DEF CheckinNext
  <2>. QED
    BY <1>q, <2>1, <2>2, <2>3
<1>4. ASSUME NEW r \in Requests, CheckinCrashed(r) \/ CheckinWaits(r) \/ FaceoffDrops(r) \/ EndOrphan(r) \/ DodgeSettles(r) PROVE MarksOK'
  BY <1>4 DEF CheckinCrashed, CheckinWaits, Stays, FaceoffDrops, EndOrphan, DodgeSettles, NoFlags
<1>5. ASSUME NEW r \in Requests, CountWinner(r) PROVE MarksOK'
  <2>1. req[r].arg \in Players
    BY <1>5, <1>t DEF CountWinner, At, Carries
  <2>2. counted' = counted \/ counted' = [counted EXCEPT ![req[r].game] = req[r].arg]
    BY <1>5 DEF CountWinner
  <2>3. UNCHANGED <<toSet, dedup, elo, flag, crash>>
    BY <1>5 DEF CountWinner
  <2>. QED
    BY <2>1, <2>2, <2>3
<1>6. ASSUME NEW r \in Requests, TakeLock(r) \/ Rate(r) \/ CheckinCounts(r) \/ KeepReport(r) \/ EndResolved(r) \/ EndContinues(r) PROVE MarksOK'
  BY <1>6 DEF TakeLock, Rate, CheckinCounts, KeepReport, EndResolved, EndContinues, marks
<1>7. ASSUME NEW r \in Requests, NEW p \in Players, Dodges(r, p) PROVE MarksOK'
  <2>1. elo' = elo \/ \E id \in Games : elo' = [elo EXCEPT ![id] = "pregame_dodge"]
    BY <1>7, <1>c DEF Dodges
  <2>2. flag' \in [Players -> {"none", "set", "other"}]
    BY <1>7 DEF Dodges
  <2>3. UNCHANGED <<counted, toSet, dedup, crash>>
    BY <1>7 DEF Dodges
  <2>. QED
    BY <2>1, <2>2, <2>3
<1>8. ASSUME NEW r \in Requests, NEW p \in Players, Concede(r, p) \/ Faceoff(r, p) PROVE MarksOK'
  BY <1>8 DEF Concede, Faceoff, marks
<1>9. ASSUME NEW r \in Requests, NEW p \in Players, NEW g \in Games, NEW w \in Players, Checkin(r, p, g) \/ Report(r, p, g, w)
      PROVE  MarksOK'
  BY <1>9 DEF Checkin, Report, marks
<1>10. ASSUME NEW r \in Requests, NEW g \in Games, EndMatch(r, g) PROVE MarksOK'
  BY <1>10 DEF EndMatch, NoFlags
<1>11. ASSUME NEW g \in Games, MatchStarted(g) \/ ServerError(g) PROVE MarksOK'
  BY <1>11 DEF MatchStarted, ServerError, marks
<1>12. ASSUME NEW p \in Players, Drops(p) \/ Returns(p) \/ CloseIgnored(p) PROVE MarksOK'
  BY <1>12 DEF Drops, Returns, CloseIgnored, marks
<1>13. ASSUME NEW p \in Players, CloseBetween(p) \/ LeavesMidGame(p) \/ Login(p) \/ ServerFails(p) PROVE MarksOK'
  BY <1>13, <1>c DEF CloseBetween, LeavesMidGame, Login, ServerFails
<1>14. CASE UNCHANGED vars
  BY <1>14 DEF vars, marks
<1>. QED
  BY <1>1, <1>2, <1>3, <1>4, <1>5, <1>6, <1>7, <1>8, <1>9, <1>10, <1>11, <1>12, <1>13, <1>14 DEF Next, Handler

\* A game goes on from what it is; the next is made after the last one.
LEMMA MatchesStep ==
  ASSUME Typed, [Next]_vars
  PROVE  MatchesOK'
<1> USE Constants1 DEF Typed
<1>c. Current \in Games /\ game[Current] # "none" /\ \A g \in Games : game[g] # "none" <=> g <= Current
  BY CurrentGame
<1>k. ASSUME UNCHANGED <<game, reports>>, off' \subseteq Games PROVE MatchesOK'
  BY <1>k DEF MatchesOK
<1>u. CASE UNCHANGED matches
  BY <1>u, <1>k DEF matches, MatchesOK
<1>g. ASSUME NEW g \in Games, game[g] # "none", NEW how \in {"made", "failed", "started", "ending", "ended"},
             game' = [game EXCEPT ![g] = how], UNCHANGED <<reports, off>>
      PROVE  MatchesOK'
  <2>1. \A h \in Games : game'[h] # "none" <=> game[h] # "none"
    BY <1>g DEF MatchesOK
  <2>2. game' \in [Games -> {"none", "made", "failed", "started", "ending", "ended"}]
    BY <1>g DEF MatchesOK
  <2>3. \A h \in Games : h > 1 => h - 1 \in Games
    BY DEF Games
  <2>. QED
    BY <1>g, <2>1, <2>2, <2>3 DEF MatchesOK
<1>1. ASSUME NEW r \in Requests, EndOrphan(r) \/ EndResolved(r) \/ EndOver(r) \/ EndContinues(r) PROVE MatchesOK'
  <2>1. Ending(r) /\ UNCHANGED <<reports, off>>
    BY <1>1 DEF EndOrphan, EndResolved, EndOver, EndContinues
  <2>2. req[r].game \in Games /\ game[req[r].game] # "none"
    BY <2>1 DEF Ending, At, ReqsOK, Carries, EndsGame
  <2>3. game' = [game EXCEPT ![req[r].game] = "ended"]
    BY <2>1 DEF Ending
  <2>. QED
    BY <1>g, <2>1, <2>2, <2>3
<1>2. ASSUME NEW r \in Requests, CheckinNext(r) PROVE MatchesOK'
  <2>1. UNCHANGED <<reports, off>> /\ (UNCHANGED game \/ (Current + 1 \in Games /\ game' = [game EXCEPT ![Current + 1] = "made"]))
    BY <1>2 DEF CheckinNext
  <2>2. CASE UNCHANGED game
    BY <1>u, <2>1, <2>2 DEF matches
  <2>3. CASE Current + 1 \in Games /\ game' = [game EXCEPT ![Current + 1] = "made"]
    <3>1. \A h \in Games : game'[h] # "none" <=> h <= Current + 1
      BY <1>c, <2>3 DEF MatchesOK
    <3>2. game' \in [Games -> {"none", "made", "failed", "started", "ending", "ended"}]
      BY <2>3 DEF MatchesOK
    <3>3. \A h \in Games : h > 1 => h - 1 \in Games
      BY DEF Games
    <3>. QED
      BY <1>c, <2>1, <3>1, <3>2, <3>3 DEF MatchesOK
  <2>. QED
    BY <2>1, <2>2, <2>3
<1>3. ASSUME NEW r \in Requests, KeepReport(r) PROVE MatchesOK'
  <2>1. At(r, "report", "keep") /\ UNCHANGED <<game, off>> /\ reports' = [reports EXCEPT ![req[r].game] = KeptNow(req[r])]
    BY <1>3 DEF KeepReport, KeptNow
  <2>2. req[r].game \in Games
    BY <2>1 DEF At, ReqsOK, Carries
  <2>3. /\ KeptNow(req[r]) \in Seq(ReportType)
        /\ DOMAIN KeptNow(req[r]) = DOMAIN reports[req[r].game]
        /\ \A i \in DOMAIN reports[req[r].game] : KeptNow(req[r])[i].who = reports[req[r].game][i].who
    BY <2>1, KeepsReports
  <2>4. reports' \in [Games -> Seq(ReportType)]
    BY <2>1, <2>3 DEF MatchesOK
  <2>5. ASSUME NEW g \in Games, NEW i \in DOMAIN reports'[g], NEW j \in DOMAIN reports'[g], i # j PROVE reports'[g][i].who # reports'[g][j].who
    <3>1. DOMAIN reports'[g] = DOMAIN reports[g] /\ \A k \in DOMAIN reports[g] : reports'[g][k].who = reports[g][k].who
      BY <2>1, <2>2, <2>3 DEF MatchesOK
    <3>. QED
      BY <2>5, <3>1 DEF MatchesOK
  <2>. QED
    BY <2>1, <2>4, <2>5 DEF MatchesOK
<1>4. ASSUME NEW r \in Requests, TakeLock(r) \/ Rate(r) \/ CheckinCounts(r) \/ CheckinCrashed(r) \/ CheckinAlone(r) \/ CheckinWaits(r)
                                 \/ CheckinOver(r) \/ ConcedeSettles(r) \/ FaceoffDrops(r) \/ CountWinner(r) \/ DodgeSettles(r)
      PROVE  MatchesOK'
  BY <1>4, <1>u DEF TakeLock, Rate, CheckinCounts, CheckinCrashed, CheckinAlone, CheckinWaits, CheckinOver, ConcedeSettles, FaceoffDrops,
                    CountWinner, DodgeSettles
<1>5. ASSUME NEW r \in Requests, NEW p \in Players, Concede(r, p) \/ Faceoff(r, p) \/ Dodges(r, p) PROVE MatchesOK'
  <2>1. CASE Concede(r, p)
    BY <1>u, <2>1 DEF Concede
  <2>2. CASE Faceoff(r, p)
    BY <1>c, <1>g, <2>2 DEF Faceoff
  <2>3. CASE Dodges(r, p)
    BY <1>c, <1>k, <2>3 DEF Dodges, MatchesOK
  <2>. QED
    BY <1>5, <2>1, <2>2, <2>3
<1>6. ASSUME NEW r \in Requests, NEW p \in Players, NEW g \in Games, Checkin(r, p, g) PROVE MatchesOK'
  BY <1>6, <1>u DEF Checkin
<1>7. ASSUME NEW r \in Requests, NEW p \in Players, NEW g \in Games, NEW w \in Players, Report(r, p, g, w) PROVE MatchesOK'
  <2> DEFINE x == [who |-> p, winner |-> w, kept |-> FALSE]
  <2>1. UNCHANGED <<game, off>> /\ reports' = [reports EXCEPT ![g] = Append(reports[g], x)] /\ \A i \in DOMAIN reports[g] : reports[g][i].who # p
    BY <1>7 DEF Report
  <2>2. reports[g] \in Seq(ReportType) /\ x \in ReportType /\ x.who = p
    BY DEF MatchesOK, ReportType
  <2>. HIDE DEF x
  <2>3. /\ DOMAIN Append(reports[g], x) = DOMAIN reports[g] \cup {Len(reports[g]) + 1}
        /\ Append(reports[g], x)[Len(reports[g]) + 1] = x
        /\ \A i \in DOMAIN reports[g] : Append(reports[g], x)[i] = reports[g][i]
    <3> DEFINE old == reports[g]
    <3>1. old \in Seq(ReportType) /\ Len(old) \in Nat /\ DOMAIN old = 1 .. Len(old)
      BY <2>2
    <3>. HIDE DEF old
    <3>2. Len(Append(old, x)) = Len(old) + 1 /\ DOMAIN Append(old, x) = 1 .. Len(old) + 1
      BY <3>1
    <3>3. DOMAIN Append(old, x) = DOMAIN old \cup {Len(old) + 1}
      BY <3>1, <3>2
    <3>4. Append(old, x)[Len(old) + 1] = x /\ \A i \in DOMAIN old : Append(old, x)[i] = old[i]
      BY <2>2, <3>1
    <3>. QED
      BY <3>3, <3>4 DEF old
  <2>4. Append(reports[g], x) \in Seq(ReportType)
    BY <2>2
  <2>5. reports' \in [Games -> Seq(ReportType)] /\ reports'[g] = Append(reports[g], x) /\ \A h \in Games \ {g} : reports'[h] = reports[h]
    BY <2>1, <2>4 DEF MatchesOK
  <2>6. \A i, j \in DOMAIN Append(reports[g], x) : i # j => Append(reports[g], x)[i].who # Append(reports[g], x)[j].who
    BY <2>1, <2>2, <2>3 DEF MatchesOK
  <2>7. ASSUME NEW h \in Games PROVE \A i, j \in DOMAIN reports'[h] : i # j => reports'[h][i].who # reports'[h][j].who
    <3>1. CASE h = g
      <4> DEFINE new == Append(reports[g], x)
      <4>1. reports'[h] = new
        BY <2>5, <3>1
      <4>2. \A i, j \in DOMAIN new : i # j => new[i].who # new[j].who
        BY <2>6
      <4>. HIDE DEF new
      <4>. QED
        BY <4>1, <4>2
    <3>2. CASE h # g
      <4>1. reports'[h] = reports[h]
        BY <2>5, <3>2
      <4>. QED
        BY <4>1 DEF MatchesOK
    <3>. QED
      BY <3>1, <3>2
  <2>. QED
    BY <2>1, <2>5, <2>7 DEF MatchesOK
<1>8. ASSUME NEW r \in Requests, NEW g \in Games, EndMatch(r, g) PROVE MatchesOK'
  <2>1. game[g] # "none" /\ UNCHANGED <<reports, off>> /\ \E how \in {"ending", "ended"} : game' = [game EXCEPT ![g] = how]
    BY <1>8 DEF EndMatch
  <2>. QED
    BY <1>g, <2>1
<1>9. ASSUME NEW g \in Games, MatchStarted(g) \/ ServerError(g) PROVE MatchesOK'
  BY <1>9, <1>g, <1>u DEF MatchStarted, ServerError
<1>10. ASSUME NEW p \in Players,
              Drops(p) \/ Returns(p) \/ Login(p) \/ CloseIgnored(p) \/ CloseBetween(p) \/ ServerFails(p) \/ LeavesMidGame(p)
       PROVE  MatchesOK'
  BY <1>10, <1>u DEF Drops, Returns, Login, CloseIgnored, CloseBetween, ServerFails, LeavesMidGame
<1>11. CASE UNCHANGED vars
  BY <1>11, <1>u DEF vars
<1>. QED
  BY <1>1, <1>2, <1>3, <1>4, <1>5, <1>6, <1>7, <1>8, <1>9, <1>10, <1>11 DEF Next, Handler

\* What becomes of each request.
Goes(r) ==
    /\ req'[r].op = req[r].op /\ req'[r].who = req[r].who
    /\ \/ /\ TakeLock(r) /\ req[r].at = "lock" /\ req'[r].at = "held" /\ req'[r].arg = req[r].arg
          /\ req[r].game # 0 => req'[r].game = req[r].game
          /\ req'[r].mine \in {rec, NoSet}
       \/ /\ CheckinCounts(r) /\ req[r].op = "checkin" /\ req[r].at = "held" /\ req'[r].at = "counted" /\ req[r].mine # NoSet
          /\ req'[r].arg = Cardinality(checkins \cup {req[r].who})
          /\ req'[r].mine.played = req[r].mine.played /\ req'[r].mine.score = req[r].mine.score
          /\ req'[r].mine.conceder = req[r].mine.conceder
       \/ /\ KeepReport(r) /\ req[r].op = "report" /\ req[r].at = "keep" /\ req'[r].at = "lock"
          /\ req'[r].game = req[r].game
       \/ /\ CheckinAlone(r) \/ CheckinOver(r) \/ ConcedeSettles(r) \/ EndOver(r)
          /\ elo[1] = "none" /\ req'[r].at = "rate" /\ req[r].op \in {"checkin", "concede", "end"} /\ req[r].at \in {"held", "counted"}
          /\ req'[r].game = req[r].game /\ req'[r].mine = req[r].mine /\ req'[r].arg.id = 1 /\ UNCHANGED keys
Starts(r) ==
    /\ Free(r) /\ req'[r].mine = NoSet
    /\ \/ \E p \in Players : Concede(r, p) /\ req'[r].op = "concede" /\ req'[r].at = "lock"
       \/ \E p \in Players : Faceoff(r, p) /\ req'[r].op = "faceoff" /\ req'[r].at = "drop"
       \/ \E p \in Players : /\ Dodges(r, p) /\ req'[r].op = "dodge" /\ req'[r].at = "settle" /\ req'[r].who = p
                             /\ req'[r].game = Current /\ req'[r].arg = IF ptr[p] THEN 1 ELSE Current
                             /\ elo[req'[r].arg] = "none"
       \/ \E p \in Players : \E g \in Games :
            Checkin(r, p, g) /\ req'[r].op = "checkin" /\ req'[r].at = "lock" /\ req'[r].who = p /\ req'[r].game = g
       \/ \E p \in Players : \E g \in Games : \E w \in Players :
            Report(r, p, g, w) /\ req'[r].op = "report" /\ req'[r].at = "keep" /\ req'[r].who = p /\ req'[r].game = g
       \/ \E g \in Games : EndMatch(r, g) /\ g \notin crash /\ req'[r].op = "end" /\ req'[r].at = "lock" /\ req'[r].game = g

LEMMA RequestStep ==
  ASSUME Typed, [Next]_vars, NEW r \in Requests, req'[r] # req[r]
  PROVE  ((req'[r] = Idle /\ Handler(r)) \/ Goes(r) \/ Starts(r)) /\ \A s \in Requests \ {r} : req'[s] = req[s]
<1> USE DEF Typed
<1> DEFINE Done == ((req'[r] = Idle /\ Handler(r)) \/ Goes(r) \/ Starts(r)) /\ \A s \in Requests \ {r} : req'[s] = req[s]
<1>t. \A s \in Requests : req[s] \in RequestType /\ Carries(req[s])
  BY DEF ReqsOK
<1>e. ASSUME NEW q \in Requests, NEW x, req' = [req EXCEPT ![q] = x] PROVE q = r /\ req'[r] = x /\ \A s \in Requests \ {r} : req'[s] = req[s]
  BY <1>e DEF ReqsOK
<1>f. ASSUME NEW q \in Requests, Handler(q), Finish(q) PROVE Done
  BY <1>e, <1>f DEF Finish
<1>1. ASSUME NEW q \in Requests,
             Rate(q) \/ CheckinCrashed(q) \/ CheckinWaits(q) \/ CheckinNext(q) \/ FaceoffDrops(q) \/ CountWinner(q)
             \/ EndOrphan(q) \/ EndResolved(q) \/ EndContinues(q) \/ DodgeSettles(q)
      PROVE  Done
  <2>1. Finish(q)
    BY <1>1 DEF Rate, CheckinCrashed, CheckinWaits, CheckinNext, FaceoffDrops, CountWinner, EndOrphan, EndResolved, EndContinues, DodgeSettles
  <2>. QED
    BY <1>1, <1>f, <2>1 DEF Handler
<1>2. ASSUME NEW q \in Requests, TakeLock(q) PROVE Done
  <2> DEFINE game1 == IF req[q].game = 0 THEN (IF known = 0 THEN 1 ELSE known) ELSE req[q].game
             mine1 == IF req[q].op = "end" /\ req[q].arg = None THEN NoSet ELSE rec
             x == [req[q] EXCEPT !.at = "held", !.game = game1, !.mine = mine1]
  <2>1. req' = [req EXCEPT ![q] = x] /\ req[q].at = "lock"
    BY <1>2 DEF TakeLock
  <2>2. mine1 \in {NoSet, rec} /\ (req[q].game # 0 => game1 = req[q].game)
    OBVIOUS
  <2>. HIDE DEF game1, mine1
  <2>3. x.op = req[q].op /\ x.at = "held" /\ x.who = req[q].who /\ x.arg = req[q].arg /\ x.game = game1 /\ x.mine = mine1
    BY <1>t DEF RequestType
  <2>. HIDE DEF x
  <2>4. q = r /\ req'[r] = x /\ \A s \in Requests \ {r} : req'[s] = req[s]
    BY <1>e, <2>1
  <2>5. Goes(r)
    BY <1>2, <2>1, <2>2, <2>3, <2>4 DEF Goes
  <2>. QED
    BY <2>4, <2>5
<1>3. ASSUME NEW q \in Requests, CheckinCounts(q) PROVE Done
  <2> DEFINE in == checkins \cup {req[q].who}
             set == IF req[q].who \in checkins THEN req[q].mine ELSE [req[q].mine EXCEPT !.in = in]
             now == IF known # 0 THEN known ELSE IF req[q].game \in toSet THEN req[q].game ELSE 1
             x == [req[q] EXCEPT !.at = "counted", !.game = now, !.arg = Cardinality(in), !.mine = set]
  <2>1. At(q, "checkin", "held") /\ (Finish(q) \/ (req[q].mine # NoSet /\ req' = [req EXCEPT ![q] = x]))
    BY <1>3 DEF CheckinCounts
  <2>2. CASE Finish(q)
    BY <1>3, <1>f, <2>2 DEF Handler
  <2>3. CASE req[q].mine # NoSet /\ req' = [req EXCEPT ![q] = x]
    <3>1. req[q].mine \in SetShape
      BY <1>t, <2>3 DEF RequestType
    <3>2. set.played = req[q].mine.played /\ set.score = req[q].mine.score /\ set.conceder = req[q].mine.conceder
      BY <3>1 DEF SetShape
    <3>. HIDE DEF set, now, in
    <3>3. x.op = req[q].op /\ x.at = "counted" /\ x.who = req[q].who /\ x.arg = Cardinality(in) /\ x.mine = set
      BY <1>t DEF RequestType
    <3>. HIDE DEF x
    <3>4. q = r /\ req'[r] = x /\ \A s \in Requests \ {r} : req'[s] = req[s]
      BY <1>e, <2>3
    <3>5. Goes(r)
      BY <1>3, <2>1, <2>3, <3>2, <3>3, <3>4 DEF Goes, At, in
    <3>. QED
      BY <3>4, <3>5
  <2>. QED
    BY <2>1, <2>2, <2>3
<1>4. ASSUME NEW q \in Requests, KeepReport(q) PROVE Done
  <2> DEFINE x == [req[q] EXCEPT !.at = "lock", !.arg = Resolve(KeptNow(req[q]))]
  <2>1. At(q, "report", "keep") /\ (Finish(q) \/ req' = [req EXCEPT ![q] = x])
    BY <1>4 DEF KeepReport, KeptNow
  <2>2. CASE Finish(q)
    BY <1>4, <1>f, <2>2 DEF Handler
  <2>3. CASE req' = [req EXCEPT ![q] = x]
    <3>1. x.op = req[q].op /\ x.at = "lock" /\ x.who = req[q].who /\ x.game = req[q].game
      BY <1>t DEF RequestType
    <3>. HIDE DEF x
    <3>2. q = r /\ req'[r] = x /\ \A s \in Requests \ {r} : req'[s] = req[s]
      BY <1>e, <2>3
    <3>3. Goes(r)
      BY <1>4, <2>1, <3>1, <3>2 DEF Goes, At
    <3>. QED
      BY <3>2, <3>3
  <2>. QED
    BY <2>1, <2>2, <2>3
<1>s. ASSUME NEW q \in Requests, NEW why, NEW winner, NEW conceder, CheckinAlone(q) \/ CheckinOver(q) \/ ConcedeSettles(q) \/ EndOver(q),
             Settle(q, why, Outcome(1, winner, conceder))
      PROVE  Done
  <2>1. req[q].op \in {"checkin", "concede", "end"} /\ req[q].at \in {"held", "counted"}
    BY <1>s DEF CheckinAlone, CheckinOver, ConcedeSettles, EndOver, Counted, Stays, Ending, At
  <2>2. CASE Finish(q)
    BY <1>s, <1>f, <2>2 DEF Handler
  <2>3. CASE elo[1] = "none" /\ req' = [req EXCEPT ![q].at = "rate", ![q].arg = Outcome(1, winner, conceder)] /\ UNCHANGED keys
    <3> DEFINE x == [[req[q] EXCEPT !.at = "rate"] EXCEPT !.arg = Outcome(1, winner, conceder)]
    <3>1. req' = [req EXCEPT ![q] = x]
      <4>1. req' = [req EXCEPT ![q] = [[@ EXCEPT !.at = "rate"] EXCEPT !.arg = Outcome(1, winner, conceder)]]
        BY <2>3, Zenon
      <4>. QED
        BY <4>1
    <3>2. x.op = req[q].op /\ x.at = "rate" /\ x.who = req[q].who /\ x.game = req[q].game /\ x.mine = req[q].mine /\ x.arg = Outcome(1, winner, conceder)
      BY <1>t DEF RequestType
    <3>. HIDE DEF x
    <3>3. q = r /\ req'[r] = x /\ \A s \in Requests \ {r} : req'[s] = req[s]
      BY <1>e, <3>1
    <3>4. req'[r].arg.id = 1
      BY <3>2, <3>3 DEF Outcome
    <3>5. Goes(r)
      BY <1>s, <2>1, <2>3, <3>2, <3>3, <3>4 DEF Goes
    <3>. QED
      BY <3>3, <3>5
  <2>. QED
    BY <1>s, <2>2, <2>3 DEF Settle
<1>5. ASSUME NEW q \in Requests, CheckinAlone(q) \/ CheckinOver(q) \/ ConcedeSettles(q) \/ EndOver(q) PROVE Done
  <2>1. Finish(q) \/ \E why, winner, conceder : Settle(q, why, Outcome(1, winner, conceder))
    BY <1>5 DEF CheckinAlone, CheckinOver, ConcedeSettles, EndOver
  <2>. QED
    BY <1>5, <1>f, <1>s, <2>1 DEF Handler
<1>b. ASSUME NEW q \in Requests, NEW op, NEW at, NEW p, NEW g, NEW arg, Begin(q, op, at, p, g, arg)
      PROVE  /\ q = r /\ \A s \in Requests \ {r} : req'[s] = req[s]
             /\ req'[r].op = op /\ req'[r].at = at /\ req'[r].who = p /\ req'[r].game = g /\ req'[r].arg = arg /\ req'[r].mine = NoSet
  BY <1>b, <1>e DEF Begin
<1>6. ASSUME NEW q \in Requests, NEW p \in Players, Concede(q, p) \/ Faceoff(q, p) PROVE Done
  <2>1. CASE Concede(q, p)
    <3>1. Free(q) /\ Begin(q, "concede", "lock", p, 0, None)
      BY <2>1 DEF Concede
    <3>. QED
      BY <1>b, <2>1, <3>1 DEF Starts
  <2>2. CASE Faceoff(q, p)
    <3>1. Free(q) /\ Begin(q, "faceoff", "drop", p, 0, None)
      BY <2>2 DEF Faceoff
    <3>. QED
      BY <1>b, <2>2, <3>1 DEF Starts
  <2>. QED
    BY <1>6, <2>1, <2>2
<1>7. ASSUME NEW q \in Requests, NEW p \in Players, Dodges(q, p) PROVE Done
  <2> DEFINE id == IF ptr[p] THEN 1 ELSE Current
  <2>1. Free(q) /\ (UNCHANGED req \/ (elo[id] = "none" /\ Begin(q, "dodge", "settle", p, Current, id)))
    BY <1>7 DEF Dodges
  <2>. HIDE DEF id
  <2>2. CASE elo[id] = "none" /\ Begin(q, "dodge", "settle", p, Current, id)
    <3>1. /\ q = r /\ \A s \in Requests \ {r} : req'[s] = req[s]
          /\ req'[r].op = "dodge" /\ req'[r].at = "settle" /\ req'[r].who = p /\ req'[r].game = Current /\ req'[r].arg = id /\ req'[r].mine = NoSet
      BY <1>b, <2>2
    <3>. QED
      BY <1>7, <2>1, <2>2, <3>1 DEF Starts, id
  <2>. QED
    BY <2>1, <2>2
<1>8. ASSUME NEW q \in Requests, NEW p \in Players, NEW g \in Games, Checkin(q, p, g) PROVE Done
  <2>1. Free(q) /\ (UNCHANGED req \/ Begin(q, "checkin", "lock", p, g, None))
    BY <1>8 DEF Checkin
  <2>. QED
    BY <1>8, <1>b, <2>1 DEF Starts
<1>9. ASSUME NEW q \in Requests, NEW p \in Players, NEW g \in Games, NEW w \in Players, Report(q, p, g, w) PROVE Done
  <2>1. Free(q) /\ Begin(q, "report", "keep", p, g, None)
    BY <1>9 DEF Report
  <2>. QED
    BY <1>9, <1>b, <2>1 DEF Starts
<1>10. ASSUME NEW q \in Requests, NEW g \in Games, EndMatch(q, g) PROVE Done
  <2>1. Free(q) /\ (UNCHANGED req \/ (g \notin crash /\ \E arg : Begin(q, "end", "lock", None, g, arg)))
    BY <1>10 DEF EndMatch
  <2>. QED
    BY <1>10, <1>b, <2>1 DEF Starts
<1>11. ASSUME NEW g \in Games, MatchStarted(g) \/ ServerError(g) PROVE Done
  BY <1>11 DEF MatchStarted, ServerError
<1>12. ASSUME NEW p \in Players,
              Drops(p) \/ Returns(p) \/ Login(p) \/ CloseIgnored(p) \/ CloseBetween(p) \/ ServerFails(p) \/ LeavesMidGame(p)
       PROVE  Done
  BY <1>12 DEF Drops, Returns, Login, CloseIgnored, CloseBetween, ServerFails, LeavesMidGame
<1>13. ~ UNCHANGED vars
  BY DEF vars
<1>. QED
  BY <1>1, <1>2, <1>3, <1>4, <1>5, <1>6, <1>7, <1>8, <1>9, <1>10, <1>11, <1>12, <1>13 DEF Next, Handler

\* What becomes of each game.
LEMMA GamesStep ==
  ASSUME Typed, [Next]_vars, NEW g \in Games
  PROVE  \/ game'[g] = game[g]
         \/ game[g] = "none" /\ game'[g] = "made" /\ g = Current + 1 /\ \E r \in Requests : CheckinNext(r)
         \/ game[g] = "made" /\ game'[g] = "failed" /\ g = Current /\ \E r \in Requests : \E p \in Players : Faceoff(r, p)
         \/ game[g] = "made" /\ game'[g] = "started" /\ MatchStarted(g)
         \/ game[g] \in {"made", "failed", "started"} /\ game'[g] \in {"ending", "ended"} /\ \E r \in Requests : EndMatch(r, g)
         \/ game[g] \in {"ending", "ended"} /\ game'[g] = "ended" /\ \E r \in Requests : req[r].game = g /\ Ending(r)
<1> USE Constants1 DEF Typed
<1>g. game \in [Games -> {"none", "made", "failed", "started", "ending", "ended"}]
  BY DEF MatchesOK
<1>c. Current \in Games /\ game[Current] # "none" /\ \A h \in Games : game[h] # "none" <=> h <= Current
  BY CurrentGame
<1>1. ASSUME NEW r \in Requests, Ending(r)
      PROVE  game'[g] = game[g] \/ (game[g] \in {"ending", "ended"} /\ game'[g] = "ended" /\ req[r].game = g)
  BY <1>1, <1>g DEF Ending, At, EndsGame, ReqsOK, Carries
<1>2. ASSUME NEW r \in Requests, EndOrphan(r) \/ EndResolved(r) \/ EndOver(r) \/ EndContinues(r) PROVE Ending(r)
  BY <1>2 DEF EndOrphan, EndResolved, EndOver, EndContinues
<1>3. ASSUME NEW r \in Requests, CheckinNext(r)
      PROVE  game'[g] = game[g] \/ (game[g] = "none" /\ game'[g] = "made" /\ g = Current + 1)
  BY <1>3, <1>c, <1>g DEF CheckinNext
<1>4. ASSUME NEW r \in Requests, TakeLock(r) \/ Rate(r) \/ CheckinCounts(r) \/ CheckinCrashed(r) \/ CheckinAlone(r) \/ CheckinWaits(r)
                                 \/ CheckinOver(r) \/ ConcedeSettles(r) \/ FaceoffDrops(r) \/ KeepReport(r) \/ CountWinner(r) \/ DodgeSettles(r)
      PROVE  UNCHANGED game
  BY <1>4 DEF TakeLock, Rate, CheckinCounts, CheckinCrashed, CheckinAlone, CheckinWaits, CheckinOver, ConcedeSettles, FaceoffDrops,
              KeepReport, CountWinner, DodgeSettles, matches
<1>5. ASSUME NEW r \in Requests, NEW p \in Players, Concede(r, p) \/ Dodges(r, p) PROVE UNCHANGED game
  BY <1>5 DEF Concede, Dodges, matches
<1>6. ASSUME NEW r \in Requests, NEW p \in Players, Faceoff(r, p)
      PROVE  game'[g] = game[g] \/ (game[g] = "made" /\ game'[g] = "failed" /\ g = Current)
  BY <1>6, <1>c, <1>g DEF Faceoff
<1>7. ASSUME NEW r \in Requests, NEW p \in Players, NEW h \in Games, NEW w \in Players, Checkin(r, p, h) \/ Report(r, p, h, w)
      PROVE  UNCHANGED game
  BY <1>7 DEF Checkin, Report, matches
<1>8. ASSUME NEW r \in Requests, NEW h \in Games, EndMatch(r, h)
      PROVE  game'[g] = game[g] \/ (g = h /\ game[g] \in {"made", "failed", "started"} /\ game'[g] \in {"ending", "ended"})
  BY <1>8, <1>g DEF EndMatch
<1>9. ASSUME NEW h \in Games, MatchStarted(h)
      PROVE  game'[g] = game[g] \/ (g = h /\ game[g] = "made" /\ game'[g] = "started")
  BY <1>9, <1>g DEF MatchStarted
<1>10. ASSUME NEW h \in Games, ServerError(h) PROVE UNCHANGED game
  BY <1>10 DEF ServerError, matches
<1>11. ASSUME NEW p \in Players,
              Drops(p) \/ Returns(p) \/ Login(p) \/ CloseIgnored(p) \/ CloseBetween(p) \/ ServerFails(p) \/ LeavesMidGame(p)
       PROVE  UNCHANGED game
  BY <1>11 DEF Drops, Returns, Login, CloseIgnored, CloseBetween, ServerFails, LeavesMidGame, matches
<1>12. CASE UNCHANGED vars
  BY <1>12 DEF vars, matches
<1>. QED
  BY <1>1, <1>2, <1>3, <1>4, <1>5, <1>6, <1>7, <1>8, <1>9, <1>10, <1>11, <1>12 DEF Next, Handler

\* A report's place in the order is kept; the game a request ends is over.
LEMMA UnderwayStep ==
  ASSUME Typed, [Next]_vars
  PROVE  OwnReport' /\ EndsGame'
<1> USE DEF Typed
<1>1. ASSUME NEW r \in Requests, req'[r].op = "end" PROVE game'[req'[r].game] \in {"ending", "ended"}
  <2>1. CASE req'[r] = req[r] \/ (req'[r].op = req[r].op /\ req'[r].game = req[r].game)
    <3>1. req[r].game \in Games /\ game[req[r].game] \in {"ending", "ended"}
      BY <1>1, <2>1 DEF EndsGame, ReqsOK, Carries
    <3>. QED
      BY <2>1, <3>1, GamesStep
  <2>2. CASE req'[r] # req[r] /\ Goes(r)
    <3>1. req[r].op = "end" /\ req[r].game \in Games /\ req[r].game # 0
      BY <1>1, <2>2, Constants1 DEF Goes, ReqsOK, Carries
    <3>2. req'[r].game = req[r].game
      BY <3>1, <2>2 DEF Goes
    <3>. QED
      BY <1>1, <2>1, <3>1, <3>2
  <2>3. CASE req'[r] # req[r] /\ Starts(r)
    <3>1. PICK g \in Games : EndMatch(r, g) /\ g \notin crash /\ req'[r].game = g
      BY <1>1, <2>3 DEF Starts
    <3>2. game' = [game EXCEPT ![g] = "ending"]
      BY <3>1 DEF EndMatch
    <3>. QED
      BY <3>1, <3>2 DEF MatchesOK
  <2>4. req'[r] # Idle
    BY <1>1, IdleTyped
  <2>. QED
    BY <2>1, <2>2, <2>3, <2>4, RequestStep
<1>2. ASSUME NEW g \in Games, NEW i \in DOMAIN reports[g]
      PROVE  i \in DOMAIN reports'[g] /\ reports'[g][i].who = reports[g][i].who
  <2>k. CASE UNCHANGED reports
    BY <2>k
  <2>1. ASSUME NEW r \in Requests, KeepReport(r) PROVE i \in DOMAIN reports'[g] /\ reports'[g][i].who = reports[g][i].who
    <3>1. At(r, "report", "keep") /\ reports' = [reports EXCEPT ![req[r].game] = KeptNow(req[r])]
      BY <2>1 DEF KeepReport, KeptNow
    <3>2. /\ DOMAIN KeptNow(req[r]) = DOMAIN reports[req[r].game]
          /\ \A j \in DOMAIN reports[req[r].game] : KeptNow(req[r])[j].who = reports[req[r].game][j].who
      BY <3>1, KeepsReports
    <3>. QED
      BY <3>1, <3>2 DEF MatchesOK
  <2>2. ASSUME NEW r \in Requests, NEW p \in Players, NEW h \in Games, NEW w \in Players, Report(r, p, h, w)
        PROVE  i \in DOMAIN reports'[g] /\ reports'[g][i].who = reports[g][i].who
    <3> DEFINE x == [who |-> p, winner |-> w, kept |-> FALSE]
    <3>1. reports' = [reports EXCEPT ![h] = Append(reports[h], x)] /\ reports[h] \in Seq(ReportType)
      BY <2>2 DEF Report, MatchesOK
    <3>. HIDE DEF x
    <3>2. \A j \in DOMAIN reports[h] : j \in DOMAIN Append(reports[h], x) /\ Append(reports[h], x)[j] = reports[h][j]
      BY <3>1
    <3>. QED
      BY <3>1, <3>2 DEF MatchesOK
  <2>3. ASSUME NEW r \in Requests, Handler(r), ~KeepReport(r) PROVE UNCHANGED reports
    BY <2>3 DEF Handler, TakeLock, Rate, CheckinCounts, CheckinCrashed, CheckinAlone, CheckinWaits, CheckinOver, CheckinNext, ConcedeSettles,
                FaceoffDrops, CountWinner, EndOrphan, EndResolved, EndOver, EndContinues, DodgeSettles, matches
  <2>4. ASSUME NEW r \in Requests, NEW p \in Players, Concede(r, p) \/ Faceoff(r, p) \/ Dodges(r, p) PROVE UNCHANGED reports
    BY <2>4 DEF Concede, Faceoff, Dodges, matches
  <2>5. ASSUME NEW r \in Requests, NEW p \in Players, NEW h \in Games, Checkin(r, p, h) PROVE UNCHANGED reports
    BY <2>5 DEF Checkin, matches
  <2>6. ASSUME NEW r \in Requests, NEW h \in Games, EndMatch(r, h) PROVE UNCHANGED reports
    BY <2>6 DEF EndMatch
  <2>7. ASSUME NEW h \in Games, MatchStarted(h) \/ ServerError(h) PROVE UNCHANGED reports
    BY <2>7 DEF MatchStarted, ServerError, matches
  <2>8. ASSUME NEW p \in Players,
               Drops(p) \/ Returns(p) \/ Login(p) \/ CloseIgnored(p) \/ CloseBetween(p) \/ ServerFails(p) \/ LeavesMidGame(p)
        PROVE  UNCHANGED reports
    BY <2>8 DEF Drops, Returns, Login, CloseIgnored, CloseBetween, ServerFails, LeavesMidGame, matches
  <2>9. UNCHANGED vars => UNCHANGED reports
    BY DEF vars, matches
  <2>. QED
    BY <2>k, <2>1, <2>2, <2>3, <2>4, <2>5, <2>6, <2>7, <2>8, <2>9 DEF Next
<1>3. ASSUME NEW r \in Requests, At(r, "report", "keep")'
      PROVE  \E i \in DOMAIN reports'[req'[r].game] : reports'[req'[r].game][i].who = req'[r].who
  <2>1. CASE req'[r] = req[r]
    <3>1. At(r, "report", "keep") /\ req[r].game \in Games
      BY <1>3, <2>1 DEF At, ReqsOK, Carries
    <3>2. PICK i \in DOMAIN reports[req[r].game] : reports[req[r].game][i].who = req[r].who
      BY <3>1 DEF OwnReport
    <3>. QED
      BY <1>2, <2>1, <3>1, <3>2
  <2>2. CASE req'[r] # req[r]
    <3>1. PICK p \in Players, g \in Games, w \in Players : Report(r, p, g, w) /\ req'[r].who = p /\ req'[r].game = g
      BY <1>3, <2>2, RequestStep, IdleTyped DEF At, Goes, Starts
    <3> DEFINE x == [who |-> p, winner |-> w, kept |-> FALSE]
    <3>2. reports' = [reports EXCEPT ![g] = Append(reports[g], x)] /\ reports[g] \in Seq(ReportType) /\ x.who = p
      BY <3>1 DEF Report, MatchesOK
    <3>. HIDE DEF x
    <3>3. Len(reports[g]) + 1 \in DOMAIN Append(reports[g], x) /\ Append(reports[g], x)[Len(reports[g]) + 1] = x
      BY <3>2
    <3>4. reports'[g] = Append(reports[g], x)
      BY <3>2 DEF MatchesOK
    <3>. QED
      BY <3>1, <3>2, <3>3, <3>4
  <2>. QED
    BY <2>1, <2>2
<1>. QED
  BY <1>1, <1>3 DEF OwnReport, EndsGame

\* The set, and the copies of it, keep the score of the points counted.
LEMMA SetsStep ==
  ASSUME Typed, [Next]_vars
  PROVE  SetsOK'
<1> USE DEF Typed
<1>t. \A r \in Requests : req[r] \in RequestType /\ Carries(req[r]) /\ IsSet(req[r].mine)
  BY DEF ReqsOK, SetsOK
<1>n. IsSet(NoSet)' /\ IsSet(rec)
  BY DEF IsSet, SetsOK
<1>k. ASSUME UNCHANGED counted, NEW s, IsSet(s) PROVE IsSet(s)'
  BY <1>k DEF IsSet, Points, PointsOf
<1>1. ASSUME NEW r \in Requests, CountWinner(r) PROVE SetsOK'
  <2> DEFINE q == req[r]
             was == counted[q.game]
             points == [t \in Players |-> q.mine.score[t] + (IF t = q.arg THEN 1 ELSE 0) - (IF t = was THEN 1 ELSE 0)]
  <2>1. q.game \in Games /\ q.arg \in Players /\ Finish(r) /\ q.at = "held"
    BY <1>1, <1>t DEF CountWinner, At, Carries
  <2>2. CASE UNCHANGED <<rec, counted>>
    <3>1. \A s \in Requests : req'[s].mine \in {NoSet, req[s].mine}
      BY <2>1, Finishes, IdleTyped
    <3>. QED
      BY <1>k, <1>n, <1>t, <2>2, <3>1 DEF SetsOK
  <2>3. CASE q.mine # NoSet /\ was # q.arg /\ rec' = [q.mine EXCEPT !.score = points] /\ counted' = [counted EXCEPT ![q.game] = q.arg]
    <3>1. q.mine \in SetShape /\ \A t \in Players : q.mine.score[t] = Points(t)
      BY <1>t, <2>3 DEF IsSet
    <3>2. counted \in [Games -> Players \cup {None}]
      BY DEF MarksOK
    <3>3. ASSUME NEW t \in Players PROVE points[t] = Points(t)' /\ points[t] \in Nat
      <4>1. q.mine.score[t] = Cardinality(PointsOf(t)) /\ IsFiniteSet(PointsOf(t)) /\ Cardinality(PointsOf(t)) \in Nat
        BY <3>1, <3>3, PointsBounded, FS_CardinalityType DEF Points
      <4>2. CASE t = q.arg
        <5>1. PointsOf(t)' = PointsOf(t) \cup {q.game} /\ q.game \notin PointsOf(t)
          BY <2>1, <2>3, <3>2, <4>2 DEF PointsOf
        <5>2. Cardinality(PointsOf(t)') = Cardinality(PointsOf(t)) + 1
          BY <4>1, <5>1, FS_AddElement
        <5>. QED
          BY <2>3, <4>1, <4>2, <5>2 DEF Points
      <4>3. CASE t = was
        <5>1. PointsOf(t)' = PointsOf(t) \ {q.game} /\ q.game \in PointsOf(t)
          BY <2>1, <2>3, <3>2, <4>3 DEF PointsOf
        <5>2. Cardinality(PointsOf(t)') = Cardinality(PointsOf(t)) - 1 /\ Cardinality(PointsOf(t)') \in Nat
          BY <4>1, <5>1, FS_RemoveElement, FS_CardinalityType
        <5>. QED
          BY <2>3, <4>1, <4>3, <5>2 DEF Points
      <4>4. CASE t # q.arg /\ t # was
        <5>1. PointsOf(t)' = PointsOf(t)
          BY <2>1, <2>3, <3>2, <4>4 DEF PointsOf
        <5>. QED
          BY <2>3, <4>1, <4>4, <5>1 DEF Points
      <4>. QED
        BY <4>2, <4>3, <4>4
    <3>4. points \in [Players -> Nat]
      BY <3>3
    <3>. HIDE DEF points
    <3>5. rec' \in SetShape /\ rec'.score = points
      BY <2>3, <3>1, <3>4 DEF SetShape
    <3>6. IsSet(rec)'
      BY <3>3, <3>5 DEF IsSet
    <3>7. \A s \in Requests : req'[s].mine = NoSet
      <4>1. lock = r
        BY <2>1 DEF LockOK, Locked
      <4>. QED
        BY <2>1, <4>1, Finishes, IdleTyped DEF LockOK
    <3>. QED
      BY <1>n, <3>6, <3>7 DEF SetsOK
  <2>4. UNCHANGED <<rec, counted>>
        \/ (q.mine # NoSet /\ was # q.arg /\ rec' = [q.mine EXCEPT !.score = points] /\ counted' = [counted EXCEPT ![q.game] = q.arg])
    BY <1>1 DEF CountWinner
  <2>. QED
    BY <2>2, <2>3, <2>4
<1>2. ASSUME UNCHANGED counted, IsSet(rec') PROVE SetsOK'
  <2>1. ASSUME NEW r \in Requests PROVE IsSet(req'[r].mine)
    <3>1. CASE req'[r].mine \in {NoSet, rec, req[r].mine}
      BY <1>t, <1>n, <3>1 DEF IsSet
    <3>2. CASE CheckinCounts(r)
      <4> DEFINE in == checkins \cup {req[r].who}
                 set == IF req[r].who \in checkins THEN req[r].mine ELSE [req[r].mine EXCEPT !.in = in]
                 now == IF known # 0 THEN known ELSE IF req[r].game \in toSet THEN req[r].game ELSE 1
                 x == [req[r] EXCEPT !.at = "counted", !.game = now, !.arg = Cardinality(in), !.mine = set]
      <4>1. Finish(r) \/ (req[r].mine # NoSet /\ req' = [req EXCEPT ![r] = x])
        BY <3>2 DEF CheckinCounts
      <4>2. req[r].mine # NoSet => req[r].mine \in SetShape /\ req[r].who \in Players
        BY <1>t, <3>2 DEF IsSet, CheckinCounts, At, Carries
      <4>3. req[r].mine # NoSet => set \in SetShape /\ set.score = req[r].mine.score
        BY <4>2 DEF SetShape, KeysOK
      <4>4. x.mine = set
        BY <1>t DEF RequestType
      <4>. HIDE DEF set, x
      <4>5. req'[r].mine = NoSet \/ (req[r].mine # NoSet /\ req'[r].mine = set)
        BY <4>1, <4>4, Finishes, IdleTyped DEF ReqsOK
      <4>. QED
        BY <1>t, <4>3, <4>5 DEF IsSet
    <3>. QED
      BY <3>1, <3>2, ReqsStep
  <2>. QED
    BY <1>2, <1>k, <2>1 DEF SetsOK
<1>3. ASSUME NEW r \in Requests, CheckinCounts(r) PROVE UNCHANGED counted /\ IsSet(rec')
  <2>1. UNCHANGED counted
    BY <1>3 DEF CheckinCounts, marks
  <2>2. CASE rec' = rec
    BY <1>n, <2>1, <2>2
  <2>3. CASE req[r].mine # NoSet /\ rec' = [req[r].mine EXCEPT !.in = checkins \cup {req[r].who}]
    <3>1. req[r].mine \in SetShape /\ req[r].who \in Players
      BY <1>3, <1>t, <2>3 DEF IsSet, CheckinCounts, At, Carries
    <3>2. rec' \in SetShape /\ rec'.score = req[r].mine.score
      BY <2>3, <3>1 DEF SetShape, KeysOK
    <3>. QED
      BY <1>t, <2>1, <2>3, <3>2 DEF IsSet
  <2>. QED
    BY <1>3, <2>1, <2>2, <2>3 DEF CheckinCounts, keys
<1>4. ASSUME NEW r \in Requests, CheckinNext(r) PROVE UNCHANGED counted /\ IsSet(rec')
  <2>1. UNCHANGED counted /\ (rec' = rec \/ rec' = [req[r].mine EXCEPT !.in = {}])
    BY <1>4 DEF CheckinNext
  <2>2. CASE rec' = [req[r].mine EXCEPT !.in = {}] /\ req[r].mine # NoSet
    <3>1. rec' \in SetShape /\ rec'.score = req[r].mine.score
      BY <1>t, <2>2 DEF IsSet, SetShape
    <3>. QED
      BY <1>t, <2>1, <2>2, <3>1 DEF IsSet
  <2>3. CASE rec' = [req[r].mine EXCEPT !.in = {}] /\ req[r].mine = NoSet
    <3>1. [NoSet EXCEPT !.in = {}] = NoSet
      <4>1. NoSet \in [played : {0}, score : {<<>>}, in : {{}}, conceder : {None}]
        BY DEF NoSet
      <4>2. [NoSet EXCEPT !.in = {}] \in [played : {0}, score : {<<>>}, in : {{}}, conceder : {None}]
        BY <4>1
      <4>. QED
        BY <4>1, <4>2
    <3>. QED
      BY <2>1, <2>3, <3>1 DEF IsSet
  <2>. QED
    BY <1>n, <2>1, <2>2, <2>3
<1>5. ASSUME NEW r \in Requests, EndContinues(r) PROVE UNCHANGED counted /\ IsSet(rec')
  <2>1. UNCHANGED counted /\ rec' = After(r) /\ req[r].mine # NoSet /\ After(r).played < 3
    BY <1>5 DEF EndContinues
  <2>2. req[r].mine \in SetShape /\ \A t \in Players : req[r].mine.score[t] = Points(t)
    BY <1>t, <2>1 DEF IsSet
  <2>3. After(r).played = req[r].mine.played + 1 /\ req[r].mine.played \in 0 .. 2
    BY <2>2 DEF After, SetShape
  <2>4. After(r) \in SetShape /\ After(r).score = req[r].mine.score
    <3> DEFINE dodgers == {p \in Players : flag[p] = "set"}
               who == IF dodgers = {} THEN None ELSE IF 0 \in dodgers THEN 0 ELSE 1
               played == req[r].mine.played + 1
    <3>1. After(r) = [req[r].mine EXCEPT !.played = played, !.in = {}, !.conceder = who]
      BY DEF After
    <3>2. who \in Players \cup {None}
      BY Constants1
    <3>3. played \in 0 .. 2
      BY <2>1, <2>3
    <3>. HIDE DEF who, played
    <3>. QED
      BY <2>2, <3>1, <3>2, <3>3 DEF SetShape
  <2>. QED
    BY <2>1, <2>2, <2>4 DEF IsSet
<1>6. ASSUME NEW r \in Requests, NEW why, NEW x, Settle(r, why, x) PROVE rec' \in {rec, NoSet}
  BY <1>6 DEF Settle, Drop, keys
<1>7. ASSUME NEW r \in Requests, CheckinAlone(r) \/ CheckinOver(r) \/ ConcedeSettles(r) \/ EndOver(r)
      PROVE  UNCHANGED counted /\ rec' \in {rec, NoSet}
  <2>1. (\E why, x : Settle(r, why, x)) \/ UNCHANGED keys
    BY <1>7 DEF CheckinAlone, CheckinOver, ConcedeSettles, EndOver
  <2>2. UNCHANGED counted
    BY <1>7 DEF CheckinAlone, CheckinOver, ConcedeSettles, EndOver
  <2>. QED
    BY <1>6, <2>1, <2>2 DEF keys
<1>8. ASSUME NEW r \in Requests, Rate(r) \/ CheckinCrashed(r) \/ FaceoffDrops(r) \/ DodgeSettles(r)
      PROVE  UNCHANGED counted /\ rec' \in {rec, NoSet}
  BY <1>8 DEF Rate, CheckinCrashed, FaceoffDrops, DodgeSettles, Drop, marks
<1>9. ASSUME NEW r \in Requests, TakeLock(r) \/ CheckinWaits(r) \/ KeepReport(r) \/ EndOrphan(r) \/ EndResolved(r)
      PROVE  UNCHANGED counted /\ rec' \in {rec, NoSet}
  BY <1>9 DEF TakeLock, CheckinWaits, KeepReport, EndOrphan, EndResolved, marks, keys
<1>10. ASSUME NEW r \in Requests, NEW p \in Players, Concede(r, p) \/ Faceoff(r, p) \/ Dodges(r, p)
       PROVE  UNCHANGED counted /\ rec' \in {rec, NoSet}
  BY <1>10 DEF Concede, Faceoff, Dodges, marks, keys
<1>11. ASSUME NEW r \in Requests, NEW p \in Players, NEW g \in Games, NEW w \in Players, Checkin(r, p, g) \/ Report(r, p, g, w)
       PROVE  UNCHANGED counted /\ rec' \in {rec, NoSet}
  BY <1>11 DEF Checkin, Report, marks, keys
<1>12. ASSUME NEW r \in Requests, NEW g \in Games, EndMatch(r, g) PROVE UNCHANGED counted /\ rec' \in {rec, NoSet}
  BY <1>12 DEF EndMatch
<1>13. ASSUME NEW g \in Games, MatchStarted(g) \/ ServerError(g) PROVE UNCHANGED counted /\ rec' \in {rec, NoSet}
  BY <1>13 DEF MatchStarted, ServerError, marks, keys
<1>14. ASSUME NEW p \in Players, Drops(p) \/ Returns(p) \/ Login(p) \/ CloseIgnored(p) \/ CloseBetween(p) \/ ServerFails(p) \/ LeavesMidGame(p)
       PROVE  UNCHANGED counted /\ rec' \in {rec, NoSet}
  BY <1>14 DEF Drops, Returns, Login, CloseIgnored, CloseBetween, ServerFails, LeavesMidGame, marks, keys
<1>15. CASE UNCHANGED vars
  <2>1. UNCHANGED counted /\ rec' \in {rec, NoSet}
    BY <1>15 DEF vars, marks, keys
  <2>. QED
    BY <1>2, <1>n, <2>1 DEF IsSet
<1>16. rec' \in {rec, NoSet} => IsSet(rec')
  BY <1>n DEF IsSet
<1>. QED
  BY <1>1, <1>2, <1>3, <1>4, <1>5, <1>7, <1>8, <1>9, <1>10, <1>11, <1>12, <1>13, <1>14, <1>15, <1>16 DEF Next, Handler

\* The id a request that is about to rate has claimed.
Owes(r) == req[r].at = "rate" \/ At(r, "dodge", "settle")
Owed(r) == IF req[r].at = "rate" THEN req[r].arg.id ELSE req[r].arg

LEMMA OwedTyped ==
  ASSUME Typed, NEW r \in Requests, Owes(r)
  PROVE  Owed(r) \in Games
BY DEF Typed, Owes, Owed, At, ReqsOK, Carries, OutcomeType

\* A rating is made by a request that claimed its id.
LEMMA RatedStep ==
  ASSUME Typed, [Next]_vars, rated' # rated
  PROVE  \E r \in Requests : \E x \in OutcomeType :
           /\ Rate(r) \/ DodgeSettles(r)
           /\ Owes(r) /\ req'[r] = Idle /\ x.id = Owed(r) /\ rated' = Append(rated, x) /\ UNCHANGED <<elo, crash>>
           /\ (req[r].at = "rate" /\ req[r].op # "end") => ~Crashed(req[r].game)
<1> USE DEF Typed
<1>1. ASSUME NEW r \in Requests, Handler(r), ~Rate(r), ~DodgeSettles(r) PROVE UNCHANGED rated
  BY <1>1 DEF Handler, TakeLock, CheckinCounts, CheckinCrashed, CheckinAlone, CheckinWaits, CheckinOver, CheckinNext, ConcedeSettles,
              FaceoffDrops, KeepReport, CountWinner, EndOrphan, EndResolved, EndOver, EndContinues
<1>2. ASSUME NEW r \in Requests, NEW p \in Players, Concede(r, p) \/ Faceoff(r, p) \/ Dodges(r, p) PROVE UNCHANGED rated
  BY <1>2 DEF Concede, Faceoff, Dodges
<1>3. ASSUME NEW r \in Requests, NEW p \in Players, NEW g \in Games, NEW w \in Players, Checkin(r, p, g) \/ Report(r, p, g, w)
      PROVE  UNCHANGED rated
  BY <1>3 DEF Checkin, Report
<1>4. ASSUME NEW r \in Requests, NEW g \in Games, EndMatch(r, g) PROVE UNCHANGED rated
  BY <1>4 DEF EndMatch
<1>5. ASSUME NEW g \in Games, MatchStarted(g) \/ ServerError(g) PROVE UNCHANGED rated
  BY <1>5 DEF MatchStarted, ServerError
<1>6. ASSUME NEW p \in Players,
             Drops(p) \/ Returns(p) \/ Login(p) \/ CloseIgnored(p) \/ CloseBetween(p) \/ ServerFails(p) \/ LeavesMidGame(p)
      PROVE  UNCHANGED rated
  BY <1>6 DEF Drops, Returns, Login, CloseIgnored, CloseBetween, ServerFails, LeavesMidGame
<1>7. UNCHANGED vars => UNCHANGED rated
  BY DEF vars
<1>8. PICK r \in Requests : Rate(r) \/ DodgeSettles(r)
  BY <1>1, <1>2, <1>3, <1>4, <1>5, <1>6, <1>7 DEF Next
<1>9. req[r] \in RequestType /\ Carries(req[r])
  BY DEF ReqsOK
<1>10. Finish(r)
  BY <1>8 DEF Rate, DodgeSettles
<1>11. req'[r] = Idle
  BY <1>10, Finishes
<1>12. CASE Rate(r)
  <2>1. req[r].at = "rate" /\ ~(req[r].op # "end" /\ Crashed(req[r].game)) /\ rated' = Append(rated, req[r].arg) /\ UNCHANGED <<elo, crash>>
    BY <1>12 DEF Rate, marks
  <2>2. req[r].arg \in OutcomeType /\ Owes(r) /\ Owed(r) = req[r].arg.id
    BY <1>9, <2>1 DEF Carries, Owes, Owed
  <2>. QED
    BY <1>11, <1>12, <2>1, <2>2
<1>13. CASE DodgeSettles(r)
  <2> DEFINE x == Outcome(req[r].arg, Other(req[r].who), req[r].who)
  <2>1. At(r, "dodge", "settle") /\ rated' = Append(rated, x) /\ UNCHANGED <<elo, crash>>
    BY <1>13 DEF DodgeSettles
  <2>2. x \in OutcomeType /\ x.id = req[r].arg
    BY <1>9, <2>1, Constants1 DEF At, Carries, Outcome, OutcomeType
  <2>3. Owes(r) /\ Owed(r) = req[r].arg /\ req[r].at # "rate"
    BY <2>1 DEF Owes, Owed, At
  <2>. HIDE DEF x
  <2>. QED
    BY <1>11, <1>13, <2>1, <2>2, <2>3
<1>. QED
  BY <1>8, <1>12, <1>13

\* Every step keeps the types.
LEMMA TypedStep ==
  ASSUME Typed, [Next]_vars
  PROVE  Typed'
<1>1. RatedOK'
  <2>1. CASE rated' = rated
    BY <2>1 DEF Typed, RatedOK
  <2>2. CASE rated' # rated
    <3>1. PICK x \in OutcomeType : rated' = Append(rated, x)
      BY <2>2, RatedStep
    <3>. QED
      BY <3>1 DEF Typed, RatedOK
  <2>. QED
    BY <2>1, <2>2
<1>. QED
  BY <1>1, KeysStep, MarksStep, MatchesStep, ReqsStep, UnderwayStep, SetsStep DEF Typed

LEMMA TypedType ==
  ASSUME Typed
  PROVE  TypeOK
<1>1. ASSUME NEW s, IsSet(s), s # NoSet PROVE s \in [played : 0 .. 4, score : [Players -> 0 .. 4], in : SUBSET Players, conceder : Players \cup {None}]
  <2>1. s \in SetShape /\ \A t \in Players : s.score[t] \in 0 .. 4
    BY <1>1, PointsBounded DEF IsSet
  <2>2. s.score \in [Players -> 0 .. 4]
    BY <2>1 DEF SetShape
  <2>. QED
    BY <2>1, <2>2 DEF SetShape
<1>2. rec \in SetType /\ \A r \in Requests : req[r].mine \in SetType
  BY <1>1 DEF Typed, SetsOK, SetType
<1>3. \A r \in Requests : lock = r => req[r].at \in {"held", "counted", "rate"}
  BY DEF Typed, LockOK, Locked
<1>4. \A i \in DOMAIN rated : rated[i] \in [id : Games, winner : Players, conceder : Players \cup {None}]
  <2>1. \A i \in DOMAIN rated : rated[i] \in OutcomeType
    BY DEF Typed, RatedOK
  <2>. QED
    BY <2>1 DEF OutcomeType
<1>5. dedup \subseteq 0 .. 3
  BY DEF Typed, MarksOK
<1>. QED
  BY <1>2, <1>3, <1>4, <1>5 DEF Typed, KeysOK, MarksOK, MatchesOK, LockOK, TypeOK

\* For any requests at once, and whatever the players and the servers do: the set's
\* keys, the marks of its games and the requests keep their types, and only the
\* request that has the lock is at a step that needs it.
THEOREM TypeCorrect == Spec => []TypeOK
<1>1. Init => Typed
  BY TypedInit
<1>2. Typed /\ [Next]_vars => Typed'
  BY TypedStep
<1>3. Typed => TypeOK
  BY TypedType
<1>. QED
  BY <1>1, <1>2, <1>3, PTL DEF Spec

\* A set's score is the points counted, even while requests with the lock hold a
\* copy of it and others drop it without the lock: CountWinner is the only step that
\* moves a point, and it moves both.
THEOREM ScoreCountsHolds == Spec => []ScoreCounts
<1>1. Init => Typed
  BY TypedInit
<1>2. Typed /\ [Next]_vars => Typed'
  BY TypedStep
<1>3. Typed => ScoreCounts
  <2> SUFFICES ASSUME Typed, rec # NoSet, NEW t \in Players PROVE rec.score[t] = Points(t)
    BY DEF ScoreCounts, Points, PointsOf
  <2>. QED
    BY DEF Typed, SetsOK, IsSet
<1>. QED
  BY <1>1, <1>2, <1>3, PTL DEF Spec

-----------------------------------------------------------------------------
(* One claim, one rating. *)

\* What RatedByKey rests on: an id that is rated, or about to be, is claimed, and
\* by one request only.
Claimed ==
    /\ \A r \in Requests : Owes(r) =>
          elo[Owed(r)] # "none" /\ (req[r].at = "rate" => req[r].op # "dodge" /\ req[r].arg.id = 1)
          /\ \A i \in DOMAIN rated : rated[i].id # Owed(r)
    /\ \A r, s \in Requests : r # s /\ Owes(r) /\ Owes(s) => Owed(r) # Owed(s)
    /\ \A i \in DOMAIN rated : elo[rated[i].id] # "none"
    /\ RatedByKey

\* A claim is never given back.
LEMMA EloStep ==
  ASSUME Typed, [Next]_vars
  PROVE  /\ \A g \in Games : elo[g] # "none" => elo'[g] # "none"
         /\ \A r \in Requests : \A p \in Players :
              Dodges(r, p) /\ req'[r] # req[r] => elo'[IF ptr[p] THEN 1 ELSE Current] # "none"
         /\ \A r \in Requests : (CheckinAlone(r) \/ CheckinOver(r) \/ ConcedeSettles(r) \/ EndOver(r)) /\ req'[r].at = "rate" =>
              elo'[1] # "none"
<1> DEFINE Whys == {"disconnect_concede", "set_over", "concede", "set_complete", "pregame_dodge"}
           Kept == \A g \in Games : elo[g] # "none" => elo'[g] # "none"
<1>t. elo \in [Games -> {"none"} \cup Whys] /\ 1 \in Games /\ Current \in Games
  BY CurrentGame, Constants1 DEF Typed, MarksOK
<1>u. UNCHANGED elo => Kept
  OBVIOUS
<1>s. ASSUME NEW r \in Requests, NEW why \in Whys, NEW x, Settle(r, why, x)
      PROVE  Kept /\ (req'[r].at = "rate" => elo'[1] # "none")
  <2>1. CASE elo[1] = "none"
    <3>1. elo' = [elo EXCEPT ![1] = why]
      BY <1>s, <2>1 DEF Settle
    <3>. QED
      BY <1>t, <3>1
  <2>2. CASE elo[1] # "none"
    <3>1. UNCHANGED elo
      BY <1>s, <2>2 DEF Settle
    <3>. QED
      BY <2>2, <3>1
  <2>. QED
    BY <2>1, <2>2
<1>1. ASSUME NEW r \in Requests, CheckinAlone(r) \/ CheckinOver(r) \/ ConcedeSettles(r) \/ EndOver(r)
      PROVE  Kept /\ (req'[r].at = "rate" => elo'[1] # "none")
  <2>1. CASE \E why \in Whys : \E x : Settle(r, why, x)
    BY <1>s, <2>1
  <2>2. CASE Finish(r) /\ UNCHANGED elo
    <3>1. req'[r].at = "idle"
      BY <2>2, Finishes, IdleTyped DEF Typed
    <3>. QED
      BY <2>2, <3>1
  <2>. QED
    BY <1>1, <2>1, <2>2 DEF CheckinAlone, CheckinOver, ConcedeSettles, EndOver
<1>2. ASSUME NEW r \in Requests, NEW p \in Players, Dodges(r, p)
      PROVE  Kept /\ (req'[r] # req[r] => elo'[IF ptr[p] THEN 1 ELSE Current] # "none")
  <2> DEFINE id == IF ptr[p] THEN 1 ELSE Current
  <2>1. (UNCHANGED <<elo, req>>) \/ elo' = [elo EXCEPT ![id] = "pregame_dodge"]
    BY <1>2 DEF Dodges
  <2>2. id \in Games
    BY <1>t
  <2>. HIDE DEF id
  <2>3. Kept /\ (req'[r] # req[r] => elo'[id] # "none")
    BY <1>t, <2>1, <2>2
  <2>. QED
    BY <2>3 DEF id
<1>3. ASSUME NEW r \in Requests, Handler(r), ~CheckinAlone(r), ~CheckinOver(r), ~ConcedeSettles(r), ~EndOver(r) PROVE UNCHANGED elo
  BY <1>3 DEF Handler, TakeLock, Rate, CheckinCounts, CheckinCrashed, CheckinWaits, CheckinNext, FaceoffDrops, KeepReport, CountWinner,
              EndOrphan, EndResolved, EndContinues, DodgeSettles, marks
<1>4. ASSUME NEW r \in Requests, NEW p \in Players, Concede(r, p) \/ Faceoff(r, p) PROVE UNCHANGED elo
  BY <1>4 DEF Concede, Faceoff, marks
<1>5. ASSUME NEW r \in Requests, NEW p \in Players, NEW g \in Games, NEW w \in Players, Checkin(r, p, g) \/ Report(r, p, g, w)
      PROVE  UNCHANGED elo
  BY <1>5 DEF Checkin, Report, marks
<1>6. ASSUME NEW r \in Requests, NEW g \in Games, EndMatch(r, g) PROVE UNCHANGED elo
  BY <1>6 DEF EndMatch
<1>7. ASSUME NEW g \in Games, MatchStarted(g) \/ ServerError(g) PROVE UNCHANGED elo
  BY <1>7 DEF MatchStarted, ServerError, marks
<1>8. ASSUME NEW p \in Players,
             Drops(p) \/ Returns(p) \/ Login(p) \/ CloseIgnored(p) \/ CloseBetween(p) \/ ServerFails(p) \/ LeavesMidGame(p)
      PROVE  UNCHANGED elo
  BY <1>8 DEF Drops, Returns, Login, CloseIgnored, CloseBetween, ServerFails, LeavesMidGame, marks
<1>9. UNCHANGED vars => UNCHANGED elo
  BY DEF vars, marks
<1>10. Kept
  BY <1>u, <1>1, <1>2, <1>3, <1>4, <1>5, <1>6, <1>7, <1>8, <1>9 DEF Next
<1>. QED
  BY <1>1, <1>2, <1>10

LEMMA ClaimedStep ==
  ASSUME Typed, Claimed, [Next]_vars
  PROVE  Claimed'
<1> USE DEF Claimed
<1>r. rated \in Seq(OutcomeType) /\ DOMAIN rated = 1 .. Len(rated) /\ Len(rated) \in Nat /\ \A i \in DOMAIN rated : rated[i].id \in Games
  <2>1. rated \in Seq(OutcomeType)
    BY DEF Typed, RatedOK
  <2>2. \A i \in DOMAIN rated : rated[i] \in OutcomeType
    BY <2>1
  <2>. QED
    BY <2>1, <2>2 DEF OutcomeType
\* Who owes after the step owed before, or has just claimed an id nobody had.
<1>1. ASSUME NEW r \in Requests, Owes(r)'
      PROVE  /\ elo'[Owed(r)'] # "none" /\ (req'[r].at = "rate" => req'[r].op # "dodge" /\ req'[r].arg.id = 1)
             /\ \/ req'[r] = req[r] /\ Owes(r) /\ Owed(r)' = Owed(r)
                \/ req'[r] # req[r] /\ elo[Owed(r)'] = "none" /\ req'[r] # Idle
  <2>1. CASE req'[r] = req[r]
    <3>1. Owes(r) /\ Owed(r)' = Owed(r)
      BY <1>1, <2>1 DEF Owes, Owed, At
    <3>2. Owed(r) \in Games /\ elo[Owed(r)] # "none" /\ (req[r].at = "rate" => req[r].op # "dodge" /\ req[r].arg.id = 1)
      BY <3>1, OwedTyped
    <3>. QED
      BY <2>1, <3>1, <3>2, EloStep
  <2>2. CASE req'[r] # req[r]
    <3>1. req'[r] # Idle
      BY <1>1, IdleTyped DEF Owes, At
    <3>2. CASE Goes(r)
      <4>1. /\ CheckinAlone(r) \/ CheckinOver(r) \/ ConcedeSettles(r) \/ EndOver(r)
            /\ elo[1] = "none" /\ req'[r].at = "rate" /\ req'[r].op \in {"checkin", "concede", "end"} /\ req'[r].arg.id = 1
        BY <1>1, <3>2 DEF Goes, Owes, At
      <4>2. Owed(r)' = 1
        BY <4>1 DEF Owed
      <4>. QED
        BY <2>2, <3>1, <4>1, <4>2, EloStep
    <3>3. CASE Starts(r)
      <4>1. PICK p \in Players : /\ Dodges(r, p) /\ req'[r].op = "dodge" /\ req'[r].at = "settle"
                                 /\ req'[r].arg = IF ptr[p] THEN 1 ELSE Current
                                 /\ elo[req'[r].arg] = "none"
        BY <1>1, <3>3 DEF Starts, Owes, At
      <4>2. Owed(r)' = IF ptr[p] THEN 1 ELSE Current
        BY <4>1 DEF Owed
      <4>3. elo'[IF ptr[p] THEN 1 ELSE Current] # "none"
        BY <2>2, <4>1, EloStep
      <4>. QED
        BY <2>2, <3>1, <4>1, <4>2, <4>3
    <3>. QED
      BY <2>2, <3>1, <3>2, <3>3, RequestStep
  <2>. QED
    BY <2>1, <2>2
<1>2. \A r, s \in Requests : r # s /\ Owes(r)' /\ Owes(s)' => Owed(r)' # Owed(s)'
  <2> SUFFICES ASSUME NEW r \in Requests, NEW s \in Requests, r # s, Owes(r)', Owes(s)' PROVE Owed(r)' # Owed(s)'
    OBVIOUS
  <2>1. CASE req'[r] = req[r] /\ req'[s] = req[s]
    BY <1>1, <2>1
  <2>2. CASE req'[r] # req[r]
    <3>1. req'[s] = req[s] /\ elo[Owed(r)'] = "none"
      BY <1>1, <2>2, RequestStep
    <3>2. elo[Owed(s)'] # "none"
      BY <1>1, <3>1
    <3>. QED
      BY <3>1, <3>2
  <2>3. CASE req'[s] # req[s]
    <3>1. req'[r] = req[r] /\ elo[Owed(s)'] = "none"
      BY <1>1, <2>3, RequestStep
    <3>2. elo[Owed(r)'] # "none"
      BY <1>1, <3>1
    <3>. QED
      BY <3>1, <3>2
  <2>. QED
    BY <2>1, <2>2, <2>3
<1>3. CASE rated' = rated
  <2>1. \A i \in DOMAIN rated : elo'[rated[i].id] # "none"
    BY <1>r, EloStep
  <2>2. \A r \in Requests : Owes(r)' => \A i \in DOMAIN rated : rated[i].id # Owed(r)'
    BY <1>1
  <2>. QED
    BY <1>1, <1>2, <1>3, <2>1, <2>2 DEF RatedByKey
<1>4. CASE rated' # rated
  <2>1. PICK r \in Requests, x \in OutcomeType :
          Owes(r) /\ req'[r] = Idle /\ x.id = Owed(r) /\ rated' = Append(rated, x) /\ UNCHANGED <<elo, crash>>
    BY <1>4, RatedStep
  <2>2. x.id \in Games /\ elo'[x.id] # "none" /\ \A i \in DOMAIN rated : rated[i].id # x.id
    BY <2>1, OwedTyped
  <2>3. /\ DOMAIN rated' = DOMAIN rated \cup {Len(rated) + 1} /\ Len(rated) + 1 \notin DOMAIN rated
        /\ rated'[Len(rated) + 1] = x /\ \A i \in DOMAIN rated : rated'[i] = rated[i]
    BY <1>r, <2>1
  <2>4. \A i \in DOMAIN rated' : elo'[rated'[i].id] # "none"
    BY <1>r, <2>1, <2>2, <2>3
  <2>5. RatedByKey'
    BY <2>2, <2>3 DEF RatedByKey
  <2>6. ASSUME NEW s \in Requests, Owes(s)', NEW i \in DOMAIN rated' PROVE rated'[i].id # Owed(s)'
    <3>1. s # r
      BY <1>1, <2>1, <2>6, IdleTyped DEF Owes, At
    <3>2. Idle # req[r]
      BY <2>1, IdleTyped DEF Owes, At
    <3>3. req'[s] = req[s]
      BY <2>1, <3>1, <3>2, RequestStep
    <3>4. Owes(s) /\ Owed(s)' = Owed(s)
      BY <1>1, <2>6, <3>3
    <3>. QED
      BY <2>1, <2>3, <3>1, <3>4
  <2>. QED
    BY <1>1, <1>2, <2>4, <2>5, <2>6
<1>. QED
  BY <1>3, <1>4

\* Whatever ends of a set come together (the last game's end, the check-ins, a
\* concede, the concede of a player who left, a dodge of its next game), an
\* elo_processed_set id is rated once.
THEOREM RatedByKeyHolds == Spec => []RatedByKey
<1>1. Init => Typed /\ Claimed
  <2> SUFFICES ASSUME Init PROVE Typed /\ Claimed
    OBVIOUS
  <2>1. \A r \in Requests : ~Owes(r)
    BY IdleTyped DEF Init, Owes, At
  <2>2. rated = <<>> /\ DOMAIN rated = {}
    BY DEF Init
  <2>. QED
    BY <2>1, <2>2, TypedInit DEF Claimed, RatedByKey
<1>2. Typed /\ Claimed /\ [Next]_vars => (Typed /\ Claimed)'
  BY TypedStep, ClaimedStep
<1>3. Claimed => RatedByKey
  BY DEF Claimed
<1>. QED
  BY <1>1, <1>2, <1>3, PTL DEF Spec

-----------------------------------------------------------------------------
(* A crash is not rated by who asks after it. *)

\* A report is added at the end, and kept where it is.
LEMMA ReportsStep ==
  ASSUME Typed, [Next]_vars, NEW g \in Games
  PROVE  \/ DOMAIN reports'[g] = DOMAIN reports[g] /\ \A i \in DOMAIN reports[g] : reports'[g][i].who = reports[g][i].who
         \/ \E r \in Requests : \E p \in Players : \E w \in Players :
              Report(r, p, g, w) /\ reports'[g] = Append(reports[g], [who |-> p, winner |-> w, kept |-> FALSE])
<1> DEFINE Same == DOMAIN reports'[g] = DOMAIN reports[g] /\ \A i \in DOMAIN reports[g] : reports'[g][i].who = reports[g][i].who
<1>t. reports \in [Games -> Seq(ReportType)]
  BY DEF Typed, MatchesOK
<1>1. ASSUME NEW r \in Requests, KeepReport(r) PROVE Same
  <2>1. reports' = [reports EXCEPT ![req[r].game] = KeptNow(req[r])] /\ At(r, "report", "keep")
    BY <1>1 DEF KeepReport, KeptNow
  <2>2. /\ DOMAIN KeptNow(req[r]) = DOMAIN reports[req[r].game]
        /\ \A i \in DOMAIN reports[req[r].game] : KeptNow(req[r])[i].who = reports[req[r].game][i].who
    BY <2>1, KeepsReports DEF Typed
  <2>. QED
    BY <1>t, <2>1, <2>2
<1>2. ASSUME NEW r \in Requests, Handler(r), ~KeepReport(r) PROVE UNCHANGED reports
  BY <1>2 DEF Handler, TakeLock, Rate, CheckinCounts, CheckinCrashed, CheckinAlone, CheckinWaits, CheckinOver, CheckinNext, ConcedeSettles,
              FaceoffDrops, CountWinner, EndOrphan, EndResolved, EndOver, EndContinues, DodgeSettles, matches
<1>3. ASSUME NEW r \in Requests, NEW p \in Players, Concede(r, p) \/ Faceoff(r, p) \/ Dodges(r, p) PROVE UNCHANGED reports
  BY <1>3 DEF Concede, Faceoff, Dodges, matches
<1>4. ASSUME NEW r \in Requests, NEW p \in Players, NEW h \in Games, Checkin(r, p, h) PROVE UNCHANGED reports
  BY <1>4 DEF Checkin, matches
<1>5. ASSUME NEW r \in Requests, NEW p \in Players, NEW h \in Games, NEW w \in Players, Report(r, p, h, w)
      PROVE  Same \/ (h = g /\ reports'[g] = Append(reports[g], [who |-> p, winner |-> w, kept |-> FALSE]))
  BY <1>5, <1>t DEF Report
<1>6. ASSUME NEW r \in Requests, NEW h \in Games, EndMatch(r, h) PROVE UNCHANGED reports
  BY <1>6 DEF EndMatch
<1>7. ASSUME NEW h \in Games, MatchStarted(h) \/ ServerError(h) PROVE UNCHANGED reports
  BY <1>7 DEF MatchStarted, ServerError, matches
<1>8. ASSUME NEW p \in Players,
             Drops(p) \/ Returns(p) \/ Login(p) \/ CloseIgnored(p) \/ CloseBetween(p) \/ ServerFails(p) \/ LeavesMidGame(p)
      PROVE  UNCHANGED reports
  BY <1>8 DEF Drops, Returns, Login, CloseIgnored, CloseBetween, ServerFails, LeavesMidGame, matches
<1>9. UNCHANGED vars => UNCHANGED reports
  BY DEF vars, matches
<1>. QED
  BY <1>1, <1>2, <1>3, <1>4, <1>5, <1>6, <1>7, <1>8, <1>9 DEF Next

\* What CrashUnrated rests on: the game a request dodges has no crash.  It is called
\* off, so it never starts, no report of it comes, and it is not undecided any more.
Uncrashed ==
    /\ \A r \in Requests : req[r].op = "dodge" => req[r].game \in off \ crash
    /\ \A g \in off : game[g] # "started" /\ DOMAIN reports[g] = {}

\* A crash comes to a game whose start is still known, or to the current one while
\* it is undecided.
LEMMA CrashStep ==
  ASSUME Typed, [Next]_vars, NEW g \in crash', g \notin crash
  PROVE  StartedKept(g) \/ (g = Current /\ Undecided)
<1>1. ASSUME NEW r \in Requests, Handler(r) PROVE UNCHANGED crash
  BY <1>1 DEF Handler, TakeLock, Rate, CheckinCounts, CheckinCrashed, CheckinAlone, CheckinWaits, CheckinOver, CheckinNext, ConcedeSettles,
              FaceoffDrops, KeepReport, CountWinner, EndOrphan, EndResolved, EndOver, EndContinues, DodgeSettles, marks
<1>2. ASSUME NEW r \in Requests, NEW p \in Players, Concede(r, p) \/ Faceoff(r, p) \/ Dodges(r, p) PROVE UNCHANGED crash
  BY <1>2 DEF Concede, Faceoff, Dodges, marks
<1>3. ASSUME NEW r \in Requests, NEW p \in Players, NEW h \in Games, NEW w \in Players, Checkin(r, p, h) \/ Report(r, p, h, w)
      PROVE  UNCHANGED crash
  BY <1>3 DEF Checkin, Report, marks
<1>4. ASSUME NEW r \in Requests, NEW h \in Games, EndMatch(r, h) PROVE UNCHANGED crash
  BY <1>4 DEF EndMatch
<1>5. ASSUME NEW h \in Games, MatchStarted(h) PROVE UNCHANGED crash
  BY <1>5 DEF MatchStarted, marks
<1>6. ASSUME NEW p \in Players, Drops(p) \/ Returns(p) \/ Login(p) \/ CloseIgnored(p) \/ CloseBetween(p) \/ LeavesMidGame(p)
      PROVE  UNCHANGED crash
  BY <1>6 DEF Drops, Returns, Login, CloseIgnored, CloseBetween, LeavesMidGame, marks
<1>7. ASSUME NEW h \in Games, ServerError(h) PROVE StartedKept(g)
  BY <1>7 DEF ServerError
<1>8. ASSUME NEW p \in Players, ServerFails(p) PROVE g = Current /\ Undecided
  BY <1>8 DEF ServerFails
<1>9. UNCHANGED vars => UNCHANGED crash
  BY DEF vars, marks
<1>. QED
  BY <1>1, <1>2, <1>3, <1>4, <1>5, <1>6, <1>7, <1>8, <1>9 DEF Next

\* A match is called off while it is current, undecided and not started.
LEMMA OffStep ==
  ASSUME Typed, [Next]_vars
  PROVE  /\ off \subseteq off'
         /\ off' # off => /\ off' = off \cup {Current} /\ game[Current] # "started" /\ reports[Current] = <<>>
                          /\ UNCHANGED <<game, reports, crash>>
<1>1. ASSUME NEW r \in Requests, Handler(r) PROVE UNCHANGED off
  BY <1>1 DEF Handler, TakeLock, Rate, CheckinCounts, CheckinCrashed, CheckinAlone, CheckinWaits, CheckinOver, CheckinNext, ConcedeSettles,
              FaceoffDrops, KeepReport, CountWinner, EndOrphan, EndResolved, EndOver, EndContinues, DodgeSettles, matches
<1>2. ASSUME NEW r \in Requests, NEW p \in Players, Concede(r, p) \/ Faceoff(r, p) PROVE UNCHANGED off
  BY <1>2 DEF Concede, Faceoff, matches
<1>3. ASSUME NEW r \in Requests, NEW p \in Players, NEW h \in Games, NEW w \in Players, Checkin(r, p, h) \/ Report(r, p, h, w)
      PROVE  UNCHANGED off
  BY <1>3 DEF Checkin, Report, matches
<1>4. ASSUME NEW r \in Requests, NEW h \in Games, EndMatch(r, h) PROVE UNCHANGED off
  BY <1>4 DEF EndMatch
<1>5. ASSUME NEW h \in Games, MatchStarted(h) \/ ServerError(h) PROVE UNCHANGED off
  BY <1>5 DEF MatchStarted, ServerError, matches
<1>6. ASSUME NEW p \in Players,
             Drops(p) \/ Returns(p) \/ Login(p) \/ CloseIgnored(p) \/ CloseBetween(p) \/ ServerFails(p) \/ LeavesMidGame(p)
      PROVE  UNCHANGED off
  BY <1>6 DEF Drops, Returns, Login, CloseIgnored, CloseBetween, ServerFails, LeavesMidGame, matches
<1>7. ASSUME NEW r \in Requests, NEW p \in Players, Dodges(r, p)
      PROVE  /\ (off' = off \/ off' = off \cup {Current}) /\ game[Current] # "started" /\ reports[Current] = <<>>
             /\ UNCHANGED <<game, reports, crash>>
  BY <1>7 DEF Dodges, Undecided
<1>8. UNCHANGED vars => UNCHANGED off
  BY DEF vars, matches
<1>. QED
  BY <1>1, <1>2, <1>3, <1>4, <1>5, <1>6, <1>7, <1>8 DEF Next

LEMMA UncrashedStep ==
  ASSUME Typed, Uncrashed, [Next]_vars
  PROVE  Uncrashed'
<1>c. Current \in Games /\ off \subseteq Games
  BY CurrentGame DEF Typed, MatchesOK
<1>t. \A r \in Requests : Carries(req[r])
  BY DEF Typed, ReqsOK
<1>1. ASSUME NEW g \in off' PROVE game'[g] # "started" /\ DOMAIN reports'[g] = {}
  <2>1. CASE off' = off
    <3>1. game[g] # "started" /\ DOMAIN reports[g] = {} /\ g \in Games
      BY <1>c, <2>1 DEF Uncrashed
    <3>2. ~MatchStarted(g)
      BY <2>1 DEF MatchStarted
    <3>3. \A r \in Requests : \A p \in Players : \A w \in Players : ~Report(r, p, g, w)
      BY <3>1 DEF Report
    <3>. QED
      BY <3>1, <3>2, <3>3, GamesStep, ReportsStep
  <2>2. CASE off' # off
    <3>1. off' = off \cup {Current} /\ game[Current] # "started" /\ reports[Current] = <<>> /\ UNCHANGED <<game, reports>>
      BY <2>2, OffStep
    <3>2. CASE g \in off
      BY <3>1, <3>2 DEF Uncrashed
    <3>3. CASE g = Current
      BY <3>1, <3>3
    <3>. QED
      BY <3>1, <3>2, <3>3
  <2>. QED
    BY <2>1, <2>2
<1>2. ASSUME NEW g \in off \ crash PROVE g \notin crash'
  <2>1. reports[g] \in Seq(ReportType) /\ DOMAIN reports[g] = {} /\ game[g] # "started"
    BY <1>c DEF Typed, MatchesOK, Uncrashed
  <2>2. reports[g] = <<>>
    BY <2>1
  <2>3. ~StartedKept(g)
    BY <2>1, <2>2 DEF StartedKept
  <2>. QED
    BY <2>3, CrashStep DEF Undecided
<1>3. ASSUME NEW r \in Requests, req'[r].op = "dodge" PROVE req'[r].game \in off' \ crash'
  <2>1. CASE req[r].op = "dodge" /\ req'[r].game = req[r].game
    <3>1. req[r].game \in off \ crash
      BY <2>1 DEF Uncrashed
    <3>. QED
      BY <1>2, <2>1, <3>1, OffStep
  <2>2. CASE req'[r] # req[r] /\ Goes(r)
    <3>1. req[r].op = "dodge" /\ req[r].game # 0 /\ req'[r].game = req[r].game
      BY <1>3, <1>t, <2>2, Constants1 DEF Goes, Carries
    <3>. QED
      BY <2>1, <3>1
  <2>3. CASE req'[r] # req[r] /\ Starts(r)
    <3>1. PICK p \in Players : Dodges(r, p) /\ req'[r].game = Current
      BY <1>3, <2>3 DEF Starts
    <3>2. Current \notin crash /\ UNCHANGED crash /\ Current \in off'
      BY <2>3, <3>1 DEF Dodges, Undecided
    <3>. QED
      BY <3>1, <3>2
  <2>. QED
    BY <1>3, <2>1, <2>2, <2>3, RequestStep, IdleTyped
<1>. QED
  BY <1>1, <1>3 DEF Uncrashed

\* A request about a crashed game rates nothing but as its end, which had asked
\* before the crash came: no end of a crashed game is begun.
THEOREM CrashUnratedHolds == Spec => CrashUnrated
<1>1. Init => Typed /\ Uncrashed
  <2> SUFFICES ASSUME Init PROVE Typed /\ Uncrashed
    OBVIOUS
  <2>1. \A r \in Requests : req[r].op = "idle"
    BY IdleTyped DEF Init
  <2>2. off = {}
    BY DEF Init
  <2>. QED
    BY <2>1, <2>2, TypedInit DEF Uncrashed
<1>2. Typed /\ Uncrashed /\ [Next]_vars => (Typed /\ Uncrashed)'
  BY TypedStep, UncrashedStep
<1>3. Typed /\ Uncrashed /\ [Next]_vars =>
        [/\ \A r \in Requests : rated' # rated /\ req'[r] # req[r] /\ req[r].game \in crash => req[r].op = "end"
         /\ \A g \in crash : game[g] # "ending" => game'[g] # "ending"]_vars
  <2> SUFFICES ASSUME Typed, Uncrashed, [Next]_vars
               PROVE  /\ \A r \in Requests : rated' # rated /\ req'[r] # req[r] /\ req[r].game \in crash => req[r].op = "end"
                      /\ \A g \in crash : game[g] # "ending" => game'[g] # "ending"
    OBVIOUS
  <2>1. ASSUME NEW r \in Requests, rated' # rated, req'[r] # req[r], req[r].game \in crash PROVE req[r].op = "end"
    <3>1. PICK s \in Requests : /\ Owes(s) /\ req'[s] = Idle
                                /\ (req[s].at = "rate" /\ req[s].op # "end") => ~Crashed(req[s].game)
      BY <2>1, RatedStep
    <3>2. req'[s] # req[s]
      BY <3>1, IdleTyped DEF Owes, At
    <3>3. r = s
      BY <2>1, <3>2, RequestStep
    <3>4. req[r].op # "dodge"
      BY <2>1 DEF Uncrashed
    <3>. QED
      BY <2>1, <3>1, <3>3, <3>4 DEF Owes, At, Crashed
  <2>2. ASSUME NEW g \in crash, game[g] # "ending", game'[g] = "ending" PROVE FALSE
    <3>1. g \in Games /\ game \in [Games -> {"none", "made", "failed", "started", "ending", "ended"}]
      BY DEF Typed, MarksOK, MatchesOK
    <3>2. PICK r \in Requests : EndMatch(r, g)
      BY <2>2, <3>1, GamesStep
    <3>. QED
      BY <2>2, <3>1, <3>2 DEF EndMatch
  <2>. QED
    BY <2>1, <2>2
<1>. QED
  BY <1>1, <1>2, <1>3, PTL DEF Spec, CrashUnrated

-----------------------------------------------------------------------------
(* Check-ins count for the game the set is at. *)

\* What CheckinsCurrent rests on: a check-in was sent for its game, which is over;
\* and the set has a second game only once both players checked in after the first.
BothFirst == \A p \in Players : sent[p][1] > 0
SentFor ==
    /\ sent \in [Players -> [Games -> Nat]]
    /\ \A r \in Requests : req[r].op = "checkin" =>
          /\ req[r].at \in {"lock", "held"} =>
                sent[req[r].who][req[r].game] > 0 /\ game[req[r].game] \in {"ending", "ended"}
          /\ req[r].at = "counted" /\ req[r].arg = 2 => BothFirst
    /\ game[2] # "none" => BothFirst
    /\ known # 0 => game[known] # "none"
    /\ CheckinsCurrent

\* A check-in that was sent stays sent.
LEMMA SentStep ==
  ASSUME Typed, SentFor, [Next]_vars
  PROVE  /\ sent' \in [Players -> [Games -> Nat]]
         /\ \A p \in Players : \A g \in Games : sent[p][g] > 0 => sent'[p][g] > 0
         /\ \A r \in Requests : \A p \in Players : \A g \in Games :
              Checkin(r, p, g) => sent'[p][g] > 0 /\ game[g] \in {"ending", "ended"} /\ UNCHANGED game
<1> DEFINE Kept == sent' \in [Players -> [Games -> Nat]] /\ \A p \in Players : \A g \in Games : sent[p][g] > 0 => sent'[p][g] > 0
<1>u. UNCHANGED sent => Kept
  BY DEF SentFor
<1>1. ASSUME NEW r \in Requests, NEW p \in Players, NEW g \in Games, Checkin(r, p, g)
      PROVE  Kept /\ sent'[p][g] > 0 /\ game[g] \in {"ending", "ended"} /\ UNCHANGED game
  <2>1. sent' = [sent EXCEPT ![p][g] = sent[p][g] + 1] /\ game[g] \in {"ending", "ended"} /\ UNCHANGED game
    BY <1>1 DEF Checkin, matches
  <2>2. sent \in [Players -> [Games -> Nat]] /\ sent[p] \in [Games -> Nat] /\ sent[p][g] \in Nat
    BY DEF SentFor
  <2>3. sent'[p] = [sent[p] EXCEPT ![g] = sent[p][g] + 1] /\ \A q \in Players \ {p} : sent'[q] = sent[q]
    BY <2>1, <2>2
  <2>4. sent'[p] \in [Games -> Nat] /\ sent'[p][g] = sent[p][g] + 1 /\ \A h \in Games \ {g} : sent'[p][h] = sent[p][h]
    BY <2>2, <2>3
  <2>5. sent' \in [Players -> [Games -> Nat]]
    BY <2>1, <2>2
  <2>. QED
    BY <2>1, <2>2, <2>3, <2>4, <2>5
<1>2. ASSUME NEW r \in Requests, Handler(r) PROVE UNCHANGED sent
  BY <1>2 DEF Handler, TakeLock, Rate, CheckinCounts, CheckinCrashed, CheckinAlone, CheckinWaits, CheckinOver, CheckinNext, ConcedeSettles,
              FaceoffDrops, KeepReport, CountWinner, EndOrphan, EndResolved, EndOver, EndContinues, DodgeSettles, people
<1>3. ASSUME NEW r \in Requests, NEW p \in Players, Concede(r, p) \/ Faceoff(r, p) \/ Dodges(r, p) PROVE UNCHANGED sent
  BY <1>3 DEF Concede, Faceoff, Dodges, people
<1>4. ASSUME NEW r \in Requests, NEW p \in Players, NEW g \in Games, NEW w \in Players, Report(r, p, g, w) PROVE UNCHANGED sent
  BY <1>4 DEF Report, people
<1>5. ASSUME NEW r \in Requests, NEW g \in Games, EndMatch(r, g) PROVE UNCHANGED sent
  BY <1>5 DEF EndMatch, people
<1>6. ASSUME NEW g \in Games, MatchStarted(g) \/ ServerError(g) PROVE UNCHANGED sent
  BY <1>6 DEF MatchStarted, ServerError, people
<1>7. ASSUME NEW p \in Players,
             Drops(p) \/ Returns(p) \/ Login(p) \/ CloseIgnored(p) \/ CloseBetween(p) \/ ServerFails(p) \/ LeavesMidGame(p)
      PROVE  UNCHANGED sent
  BY <1>7 DEF Drops, Returns, Login, CloseIgnored, CloseBetween, ServerFails, LeavesMidGame
<1>8. UNCHANGED vars => UNCHANGED sent
  BY DEF vars, people
<1>9. Kept
  BY <1>u, <1>1, <1>2, <1>3, <1>4, <1>5, <1>6, <1>7, <1>8 DEF Next
<1>. QED
  BY <1>1, <1>9

\* Who is checked in, and for which game, changes as a whole: both are forgotten,
\* or the next game is made, or a check-in counts.
LEMMA CheckinsStep ==
  ASSUME Typed, [Next]_vars
  PROVE  \/ UNCHANGED <<checkins, known>>
         \/ checkins' = {} /\ known' = 0
         \/ \E r \in Requests : CheckinNext(r) /\ checkins' = {} /\ known' = Current + 1 /\ Current + 1 \in Games /\ game'[Current + 1] = "made"
         \/ \E r \in Requests : CheckinCounts(r) /\ checkins' = checkins \cup {req[r].who} /\ UNCHANGED known
                                /\ (known # 0 => req[r].game = known)
<1>s. ASSUME NEW r \in Requests, NEW why, NEW x, Settle(r, why, x) PROVE UNCHANGED <<checkins, known>> \/ (checkins' = {} /\ known' = 0)
  BY <1>s DEF Settle, Drop, keys
<1>1. ASSUME NEW r \in Requests, CheckinAlone(r) \/ CheckinOver(r) \/ ConcedeSettles(r) \/ EndOver(r)
      PROVE  UNCHANGED <<checkins, known>> \/ (checkins' = {} /\ known' = 0)
  <2>1. (\E why, x : Settle(r, why, x)) \/ UNCHANGED keys
    BY <1>1 DEF CheckinAlone, CheckinOver, ConcedeSettles, EndOver
  <2>. QED
    BY <1>s, <2>1 DEF keys
<1>2. ASSUME NEW r \in Requests, CheckinCounts(r)
      PROVE  UNCHANGED <<checkins, known>> \/ (checkins' = checkins \cup {req[r].who} /\ UNCHANGED known /\ (known # 0 => req[r].game = known))
  BY <1>2 DEF CheckinCounts, keys
<1>3. ASSUME NEW r \in Requests, CheckinNext(r)
      PROVE  UNCHANGED <<checkins, known>> \/ (checkins' = {} /\ known' = Current + 1 /\ Current + 1 \in Games /\ game'[Current + 1] = "made")
  BY <1>3 DEF CheckinNext, Typed, MatchesOK
<1>4. ASSUME NEW r \in Requests, Rate(r) \/ CheckinCrashed(r) \/ FaceoffDrops(r) \/ DodgeSettles(r)
      PROVE  UNCHANGED <<checkins, known>> \/ (checkins' = {} /\ known' = 0)
  BY <1>4 DEF Rate, CheckinCrashed, FaceoffDrops, DodgeSettles, Drop
<1>5. ASSUME NEW r \in Requests, TakeLock(r) \/ CheckinWaits(r) \/ KeepReport(r) \/ CountWinner(r) \/ EndOrphan(r) \/ EndResolved(r) \/ EndContinues(r)
      PROVE  UNCHANGED <<checkins, known>>
  BY <1>5 DEF TakeLock, CheckinWaits, KeepReport, CountWinner, EndOrphan, EndResolved, EndContinues, keys
<1>6. ASSUME NEW r \in Requests, NEW p \in Players, Concede(r, p) \/ Faceoff(r, p) \/ Dodges(r, p) PROVE UNCHANGED <<checkins, known>>
  BY <1>6 DEF Concede, Faceoff, Dodges, keys
<1>7. ASSUME NEW r \in Requests, NEW p \in Players, NEW g \in Games, NEW w \in Players, Checkin(r, p, g) \/ Report(r, p, g, w)
      PROVE  UNCHANGED <<checkins, known>>
  BY <1>7 DEF Checkin, Report, keys
<1>8. ASSUME NEW r \in Requests, NEW g \in Games, EndMatch(r, g) PROVE UNCHANGED <<checkins, known>>
  BY <1>8 DEF EndMatch
<1>9. ASSUME NEW g \in Games, MatchStarted(g) \/ ServerError(g) PROVE UNCHANGED <<checkins, known>>
  BY <1>9 DEF MatchStarted, ServerError, keys
<1>10. ASSUME NEW p \in Players, Drops(p) \/ Returns(p) \/ Login(p) \/ CloseIgnored(p) \/ CloseBetween(p) \/ LeavesMidGame(p)
       PROVE  UNCHANGED <<checkins, known>>
  BY <1>10 DEF Drops, Returns, Login, CloseIgnored, CloseBetween, LeavesMidGame, keys
<1>11. ASSUME NEW p \in Players, ServerFails(p) PROVE UNCHANGED <<checkins, known>> \/ (checkins' = {} /\ known' = 0)
  BY <1>11 DEF ServerFails
<1>12. UNCHANGED vars => UNCHANGED <<checkins, known>>
  BY DEF vars, keys
<1>. QED
  BY <1>1, <1>2, <1>3, <1>4, <1>5, <1>6, <1>7, <1>8, <1>9, <1>10, <1>11, <1>12 DEF Next, Handler

LEMMA SentForStep ==
  ASSUME Typed, SentFor, [Next]_vars
  PROVE  SentFor'
<1> USE Constants1
<1>t. \A r \in Requests : Carries(req[r])
  BY DEF Typed, ReqsOK
<1>c. Current \in Games /\ \A g \in Games : game[g] # "none" <=> g <= Current
  BY CurrentGame DEF Typed
<1>g. \A g \in Games : game[g] # "none" => game'[g] # "none"
  BY GamesStep DEF Typed, MatchesOK
<1>k. BothFirst => BothFirst'
  BY SentStep DEF BothFirst
<1>b. \A g \in Games : g # 1 /\ game[g] # "none" => BothFirst
  <2> SUFFICES ASSUME NEW g \in Games, g # 1, game[g] # "none" PROVE BothFirst
    OBVIOUS
  <2>1. 2 <= g /\ g <= Current
    BY <1>c DEF Games
  <2>2. game[2] # "none"
    BY <1>c, <2>1 DEF Games
  <2>. QED
    BY <2>2 DEF SentFor
<1>1. ASSUME NEW r \in Requests, req'[r].op = "checkin", req'[r].at \in {"lock", "held"}
      PROVE  sent'[req'[r].who][req'[r].game] > 0 /\ game'[req'[r].game] \in {"ending", "ended"}
  <2>1. CASE /\ req[r].op = "checkin" /\ req[r].at \in {"lock", "held"}
             /\ req'[r].game = req[r].game /\ req'[r].who = req[r].who
    <3>1. req[r].who \in Players /\ req[r].game \in Games
      BY <1>t, <2>1 DEF Carries
    <3>2. sent[req[r].who][req[r].game] > 0 /\ game[req[r].game] \in {"ending", "ended"}
      BY <2>1 DEF SentFor
    <3>. QED
      BY <2>1, <3>1, <3>2, SentStep, GamesStep
  <2>2. CASE req'[r] # req[r] /\ Goes(r)
    <3>1. req[r].op = "checkin" /\ req[r].at = "lock" /\ req'[r].who = req[r].who /\ (req[r].game # 0 => req'[r].game = req[r].game)
      BY <1>1, <2>2 DEF Goes
    <3>2. req[r].game \in Games
      BY <1>t, <3>1 DEF Carries
    <3>. QED
      BY <2>1, <3>1, <3>2
  <2>3. CASE req'[r] # req[r] /\ Starts(r)
    <3>1. PICK p \in Players, g \in Games : Checkin(r, p, g) /\ req'[r].who = p /\ req'[r].game = g
      BY <1>1, <2>3 DEF Starts
    <3>. QED
      BY <3>1, SentStep
  <2>. QED
    BY <1>1, <2>1, <2>2, <2>3, RequestStep, IdleTyped
<1>2. ASSUME NEW r \in Requests, CheckinCounts(r), req[r].op = "checkin", req[r].at = "held"
      PROVE  /\ (known # 0 => req[r].game = known) => sent[req[r].who][IF known = 0 THEN 1 ELSE known] > 0
             /\ sent[req[r].who][1] > 0
  <2>1. req[r].who \in Players /\ req[r].game \in Games
    BY <1>2, <1>t DEF Carries
  <2>2. sent[req[r].who][req[r].game] > 0 /\ game[req[r].game] # "none"
    BY <1>2 DEF SentFor
  <2>3. req[r].game # 1 => BothFirst
    BY <1>b, <2>1, <2>2
  <2>4. sent[req[r].who][1] > 0
    BY <2>1, <2>2, <2>3 DEF BothFirst
  <2>. QED
    BY <2>2, <2>4
<1>3. ASSUME NEW r \in Requests, req'[r].op = "checkin", req'[r].at = "counted", req'[r].arg = 2 PROVE BothFirst'
  <2>1. CASE req'[r] = req[r]
    BY <1>3, <1>k, <2>1 DEF SentFor
  <2>2. CASE req'[r] # req[r]
    <3>1. CheckinCounts(r) /\ req[r].op = "checkin" /\ req[r].at = "held" /\ Cardinality(checkins \cup {req[r].who}) = 2
      BY <1>3, <2>2, RequestStep, IdleTyped DEF Goes, Starts
    <3>2. req[r].who \in Players /\ checkins \subseteq Players
      BY <3>1, <1>t DEF Carries, Typed, KeysOK
    <3>3. checkins \cup {req[r].who} = Players
      BY <3>1, <3>2, PlayersCounted
    <3>4. known \in {0} \cup Games /\ (known \notin {0, 1} => BothFirst)
      BY <1>b DEF SentFor, Typed, KeysOK
    <3>5. known \in {0, 1} => \A p \in checkins : sent[p][1] > 0
      BY DEF SentFor, CheckinsCurrent
    <3>6. BothFirst
      BY <1>2, <3>1, <3>3, <3>4, <3>5 DEF BothFirst
    <3>. QED
      BY <1>k, <3>6
  <2>. QED
    BY <2>1, <2>2
<1>4. game'[2] # "none" => BothFirst'
  <2>1. CASE game[2] # "none"
    BY <1>k, <2>1 DEF SentFor
  <2>2. CASE game[2] = "none" /\ game'[2] # "none"
    <3>1. PICK r \in Requests : CheckinNext(r)
      BY <2>2, GamesStep DEF Typed, MatchesOK
    <3>2. req[r].op = "checkin" /\ req[r].at = "counted" /\ req[r].arg = 2
      BY <3>1 DEF CheckinNext, Stays, Counted, At, AllIn
    <3>3. BothFirst
      BY <3>2 DEF SentFor
    <3>. QED
      BY <1>k, <3>3
  <2>. QED
    BY <2>1, <2>2
<1>5. (known' # 0 => game'[known'] # "none") /\ CheckinsCurrent'
  <2>k. known \in {0} \cup Games /\ checkins \subseteq Players /\ 1 \in Games
    BY DEF Typed, KeysOK
  <2>1. CASE UNCHANGED <<checkins, known>>
    BY <2>1, <2>k, <1>g, SentStep DEF SentFor, CheckinsCurrent
  <2>2. CASE checkins' = {} /\ known' = 0
    BY <2>2 DEF CheckinsCurrent
  <2>3. CASE checkins' = {} /\ known' = Current + 1 /\ Current + 1 \in Games /\ game'[Current + 1] = "made"
    BY <2>3 DEF CheckinsCurrent
  <2>4. ASSUME NEW r \in Requests, CheckinCounts(r), checkins' = checkins \cup {req[r].who}, UNCHANGED known, known # 0 => req[r].game = known
        PROVE  (known' # 0 => game'[known'] # "none") /\ CheckinsCurrent'
    <3>1. req[r].op = "checkin" /\ req[r].at = "held" /\ req[r].who \in Players
      BY <2>4, <1>t DEF CheckinCounts, At, Carries
    <3>2. \A p \in checkins' : sent[p][IF known = 0 THEN 1 ELSE known] > 0
      BY <1>2, <2>4, <3>1 DEF SentFor, CheckinsCurrent
    <3>. QED
      BY <2>4, <2>k, <3>1, <3>2, <1>g, SentStep DEF SentFor, CheckinsCurrent
  <2>. QED
    BY <2>1, <2>2, <2>3, <2>4, CheckinsStep
<1>. QED
  BY <1>1, <1>3, <1>4, <1>5, SentStep DEF SentFor

\* A check-in of an earlier game, sent late by that game's timer, does not count for
\* the next game: what is counted was sent for the game the set is at.
THEOREM CheckinsCurrentHolds == Spec => []CheckinsCurrent
<1>1. Init => Typed /\ SentFor
  <2> SUFFICES ASSUME Init PROVE Typed /\ SentFor
    OBVIOUS
  <2>1. \A r \in Requests : req[r].op = "idle"
    BY IdleTyped DEF Init
  <2>2. sent \in [Players -> [Games -> Nat]] /\ game[2] = "none" /\ known = 0 /\ checkins = {}
    BY Constants1 DEF Init
  <2>. QED
    BY <2>1, <2>2, TypedInit DEF SentFor, CheckinsCurrent
<1>2. Typed /\ SentFor /\ [Next]_vars => (Typed /\ SentFor)'
  BY TypedStep, SentForStep
<1>3. SentFor => CheckinsCurrent
  BY DEF SentFor
<1>. QED
  BY <1>1, <1>2, <1>3, PTL DEF Spec

-----------------------------------------------------------------------------
(* Two check-ins at once. *)

\* The set is over: no key of it is left, nor a copy that may be written back.
Over == rec = NoSet /\ \A r \in Requests : req[r].mine = NoSet

\* The game made last is not decided.
Underway == game[Current] \in {"made", "failed", "started"}
Rates    == \E r \in Requests : req[r].at = "rate"

\* Once a check-in has claimed the next step (set_match_dedup), that step was taken
\* or is being taken, until the next game ends.
Deduped == dedup # {} => Underway \/ Over \/ Rates

\* Both are in: who has the lock sees both, or is about to rate the set.
Holder(r) ==
    /\ lock = r
    /\ \/ req[r].at = "rate"
       \/ req[r].at = "counted" /\ req[r].op = "checkin" /\ req[r].arg = 2 /\ req[r].mine.played \notin dedup
Going == checkins = Players /\ known = AtGame => \E r \in Requests : Holder(r)

CurrentIsLast == Current \in Games /\ \A g \in Games : game[g] # "none" <=> g <= Current
LEMMA LastGame == MatchesOK => CurrentIsLast
BY CurrentGame DEF CurrentIsLast

\* The last game made changes only with the next one.
LEMMA CurrentStep ==
  ASSUME Typed, [Next]_vars
  PROVE  CurrentIsLast' /\ (Current' = Current \/ \E r \in Requests : CheckinNext(r))
<1>1. CurrentIsLast
  BY LastGame DEF Typed
<1>2. CurrentIsLast'
  <2>1. (MatchesOK => CurrentIsLast)'
    BY LastGame, PTL
  <2>2. MatchesOK'
    BY TypedStep DEF Typed
  <2>. QED
    BY <2>1, <2>2
<1>3. ASSUME \A r \in Requests : ~CheckinNext(r) PROVE Current' = Current
  <2>1. \A g \in Games : game'[g] = "none" <=> game[g] = "none"
    BY <1>3, GamesStep DEF Typed, MatchesOK
  <2> DEFINE c == Current  d == Current'
  <2>2. c \in Games /\ d \in Games /\ c <= d /\ d <= c
    <3>1. c \in Games /\ game[c] # "none" /\ \A g \in Games : game[g] # "none" <=> g <= c
      BY <1>1, Constants1 DEF CurrentIsLast
    <3>2. d \in Games /\ game'[d] # "none" /\ \A g \in Games : game'[g] # "none" <=> g <= d
      BY <1>2, Constants1 DEF CurrentIsLast
    <3>. HIDE DEF c, d
    <3>. QED
      BY <2>1, <3>1, <3>2
  <2>3. c = d
    <3>. HIDE DEF c, d
    <3>. QED
      BY <2>2, Constants1
  <2>. QED
    BY <2>3
<1>. QED
  BY <1>2, <1>3

\* A request that rates the set does that next, and one that counted a check-in acts on it.
LEMMA LockStep ==
  ASSUME Typed, [Next]_vars, NEW r \in Requests, req'[r] # req[r]
  PROVE  /\ req[r].at = "rate" => Rate(r)
         /\ req[r].at = "counted" =>
              CheckinCrashed(r) \/ CheckinAlone(r) \/ CheckinWaits(r) \/ CheckinOver(r) \/ CheckinNext(r)
<1>1. req[r].at \in {"rate", "counted"} => ~Starts(r)
  BY IdleTyped DEF Starts, Free
<1>2. req[r].at = "rate" => ~Goes(r)
  BY DEF Goes
<1>3. req[r].at = "counted" /\ Goes(r) => CheckinAlone(r) \/ CheckinOver(r)
  BY DEF Goes, ConcedeSettles, EndOver, Ending, At
<1>4. Handler(r) /\ req[r].at = "rate" => Rate(r)
  BY DEF Handler, TakeLock, CheckinCounts, CheckinCrashed, CheckinAlone, CheckinWaits, CheckinOver, CheckinNext, Stays, Counted, ConcedeSettles,
         FaceoffDrops, KeepReport, CountWinner, EndOrphan, EndResolved, EndOver, EndContinues, Ending, DodgeSettles, At
<1>5. Handler(r) /\ req[r].at = "counted" =>
        CheckinCrashed(r) \/ CheckinAlone(r) \/ CheckinWaits(r) \/ CheckinOver(r) \/ CheckinNext(r)
  BY DEF Handler, TakeLock, Rate, CheckinCounts, ConcedeSettles,
         FaceoffDrops, KeepReport, CountWinner, EndOrphan, EndResolved, EndOver, EndContinues, Ending, DodgeSettles, At
<1>. QED
  BY <1>1, <1>2, <1>3, <1>4, <1>5, RequestStep

\* A step of a set is claimed by the check-ins that take it.
LEMMA DedupStep ==
  ASSUME [Next]_vars
  PROVE  dedup' \subseteq dedup \/ \E r \in Requests : CheckinOver(r) \/ CheckinNext(r)
<1>1. ASSUME NEW r \in Requests, Handler(r) PROVE UNCHANGED dedup \/ CheckinOver(r) \/ CheckinNext(r)
  BY <1>1 DEF Handler, TakeLock, Rate, CheckinCounts, CheckinCrashed, CheckinAlone, CheckinWaits, ConcedeSettles,
              FaceoffDrops, KeepReport, CountWinner, EndOrphan, EndResolved, EndOver, EndContinues, DodgeSettles, marks
<1>2. ASSUME NEW r \in Requests, NEW p \in Players, Concede(r, p) \/ Faceoff(r, p) \/ Dodges(r, p) PROVE UNCHANGED dedup
  BY <1>2 DEF Concede, Faceoff, Dodges, marks
<1>3. ASSUME NEW r \in Requests, NEW p \in Players, NEW g \in Games, NEW w \in Players, Checkin(r, p, g) \/ Report(r, p, g, w)
      PROVE  UNCHANGED dedup
  BY <1>3 DEF Checkin, Report, marks
<1>4. ASSUME NEW r \in Requests, NEW g \in Games, EndMatch(r, g) PROVE dedup' = {}
  BY <1>4 DEF EndMatch
<1>5. ASSUME NEW g \in Games, MatchStarted(g) \/ ServerError(g) PROVE UNCHANGED dedup
  BY <1>5 DEF MatchStarted, ServerError, marks
<1>6. ASSUME NEW p \in Players,
             Drops(p) \/ Returns(p) \/ Login(p) \/ CloseIgnored(p) \/ CloseBetween(p) \/ ServerFails(p) \/ LeavesMidGame(p)
      PROVE  UNCHANGED dedup
  BY <1>6 DEF Drops, Returns, Login, CloseIgnored, CloseBetween, ServerFails, LeavesMidGame, marks
<1>7. UNCHANGED vars => UNCHANGED dedup
  BY DEF vars, marks
<1>. QED
  BY <1>1, <1>2, <1>3, <1>4, <1>5, <1>6, <1>7 DEF Next

\* A set that is over stays over, or another game of it is made.
LEMMA OverStep ==
  ASSUME Typed, [Next]_vars, Over
  PROVE  Over' \/ \E r \in Requests : CheckinNext(r)
<1> SUFFICES ASSUME \A r \in Requests : ~CheckinNext(r) PROVE Over'
  OBVIOUS
<1>s. ASSUME NEW r \in Requests, NEW why, NEW x, Settle(r, why, x) PROVE rec' = NoSet
  BY <1>s DEF Settle, Drop, keys, Over
<1>1. ASSUME NEW r \in Requests, CheckinAlone(r) \/ CheckinOver(r) \/ ConcedeSettles(r) \/ EndOver(r) PROVE rec' = NoSet
  <2>1. (\E why, x : Settle(r, why, x)) \/ UNCHANGED keys
    BY <1>1 DEF CheckinAlone, CheckinOver, ConcedeSettles, EndOver
  <2>. QED
    BY <1>s, <2>1 DEF keys, Over
<1>2. ASSUME NEW r \in Requests, CheckinCounts(r) \/ CountWinner(r) \/ EndContinues(r) PROVE rec' = NoSet
  BY <1>2 DEF CheckinCounts, CountWinner, EndContinues, keys, Over
<1>3. ASSUME NEW r \in Requests, Rate(r) \/ CheckinCrashed(r) \/ FaceoffDrops(r) \/ DodgeSettles(r) PROVE rec' = NoSet
  BY <1>3 DEF Rate, CheckinCrashed, FaceoffDrops, DodgeSettles, Drop, Over
<1>4. ASSUME NEW r \in Requests, TakeLock(r) \/ CheckinWaits(r) \/ KeepReport(r) \/ EndOrphan(r) \/ EndResolved(r) PROVE rec' = NoSet
  BY <1>4 DEF TakeLock, CheckinWaits, KeepReport, EndOrphan, EndResolved, keys, Over
<1>5. ASSUME NEW r \in Requests, NEW p \in Players, Concede(r, p) \/ Faceoff(r, p) \/ Dodges(r, p) PROVE rec' = NoSet
  BY <1>5 DEF Concede, Faceoff, Dodges, keys, Over
<1>6. ASSUME NEW r \in Requests, NEW p \in Players, NEW g \in Games, NEW w \in Players, Checkin(r, p, g) \/ Report(r, p, g, w)
      PROVE  rec' = NoSet
  BY <1>6 DEF Checkin, Report, keys, Over
<1>7. ASSUME NEW r \in Requests, NEW g \in Games, EndMatch(r, g) PROVE rec' = NoSet
  BY <1>7 DEF EndMatch, Over
<1>8. ASSUME NEW g \in Games, MatchStarted(g) \/ ServerError(g) PROVE rec' = NoSet
  BY <1>8 DEF MatchStarted, ServerError, keys, Over
<1>9. ASSUME NEW p \in Players,
             Drops(p) \/ Returns(p) \/ Login(p) \/ CloseIgnored(p) \/ CloseBetween(p) \/ ServerFails(p) \/ LeavesMidGame(p)
      PROVE  rec' = NoSet
  BY <1>9 DEF Drops, Returns, Login, CloseIgnored, CloseBetween, ServerFails, LeavesMidGame, keys, Over
<1>10. UNCHANGED vars => rec' = NoSet
  BY DEF vars, keys, Over
<1>11. rec' = NoSet
  BY <1>1, <1>2, <1>3, <1>4, <1>5, <1>6, <1>7, <1>8, <1>9, <1>10 DEF Next, Handler
<1>12. ASSUME NEW r \in Requests PROVE req'[r].mine = NoSet
  <2>1. CASE req'[r] = req[r]
    BY <2>1 DEF Over
  <2>2. CASE req'[r] # req[r] /\ req'[r].at \notin Locked
    BY <2>2, TypedStep DEF Typed, LockOK
  <2>3. CASE req'[r] # req[r] /\ req'[r].at \in Locked
    <3>1. Goes(r) \/ Starts(r)
      BY <2>3, RequestStep, IdleTyped DEF Locked
    <3>. QED
      BY <2>3, <3>1 DEF Goes, Starts, Over, Locked
  <2>. QED
    BY <2>1, <2>2, <2>3
<1>. QED
  BY <1>11, <1>12 DEF Over

\* Who has the lock and drops the set leaves no copy of it.
LEMMA Ends ==
  ASSUME Typed, NEW r \in Requests, lock = r, Drop, Finish(r)
  PROVE  Over'
<1>1. req' = [req EXCEPT ![r] = Idle] /\ rec' = NoSet
  BY DEF Finish, Drop
<1>2. \A s \in Requests \ {r} : req[s].mine = NoSet
  BY DEF Typed, LockOK
<1>. QED
  BY <1>1, <1>2, IdleTyped DEF Over, Typed, ReqsOK

\* A claim made goes on to rate the set; one that came too late drops it.
LEMMA SettleStep ==
  ASSUME Typed, NEW r \in Requests, lock = r, NEW why, NEW x, Settle(r, why, x)
  PROVE  (req'[r].at = "rate" /\ UNCHANGED keys) \/ (Over' /\ checkins' = {} /\ req'[r] = Idle)
<1>1. CASE Drop /\ Finish(r)
  BY <1>1, Ends DEF Drop, Finish, Typed, ReqsOK
<1>2. CASE req' = [req EXCEPT ![r].at = "rate", ![r].arg = x] /\ UNCHANGED keys
  <2>1. req[r] \in RequestType
    BY DEF Typed, ReqsOK
  <2>2. req'[r] = [[req[r] EXCEPT !.at = "rate"] EXCEPT !.arg = x]
    <3>1. req' = [req EXCEPT ![r] = [[@ EXCEPT !.at = "rate"] EXCEPT !.arg = x]]
      BY <1>2, Zenon
    <3>. QED
      BY <3>1 DEF Typed, ReqsOK
  <2>3. req'[r].at = "rate"
    BY <2>1, <2>2 DEF RequestType
  <2>. QED
    BY <1>2, <2>3
<1>. QED
  BY <1>1, <1>2 DEF Settle

\* With a rollback port left, the next game is made.
LEMMA NextStep ==
  ASSUME Typed, [Next]_vars, "port" \notin Behaviours, NEW r \in Requests, CheckinNext(r)
  PROVE  Underway' /\ checkins' = {}
<1>1. Current + 1 \in Games /\ game' = [game EXCEPT ![Current + 1] = "made"] /\ checkins' = {}
  BY DEF CheckinNext, May
<1>2. Current \in Games /\ \A g \in Games : game[g] # "none" <=> g <= Current
  BY CurrentGame DEF Typed
<1>3. Current' \in Games /\ \A g \in Games : game'[g] # "none" <=> g <= Current'
  BY CurrentStep DEF CurrentIsLast
<1>4. game \in [Games -> {"none", "made", "failed", "started", "ending", "ended"}]
  BY DEF Typed, MatchesOK
<1> DEFINE c == Current  d == Current'
<1>5. c \in Games /\ d \in Games /\ Games \subseteq Nat /\ c + 1 \in Games /\ c + 1 <= d /\ (d <= c \/ d = c + 1)
  <2>1. game'[c + 1] # "none" /\ game'[d] # "none"
    BY <1>1, <1>3, <1>4, Constants1
  <2>2. d # c + 1 => game[d] # "none"
    BY <1>1, <1>3, <1>4, <2>1
  <2>3. d # c + 1 => d <= c
    BY <1>2, <1>3, <2>2
  <2>. QED
    BY <1>1, <1>2, <1>3, <2>1, <2>3, Constants1
<1>6. d = c + 1
  <2>. HIDE DEF c, d
  <2>. QED
    BY <1>5
<1>. QED
  BY <1>1, <1>4, <1>6 DEF Underway

LEMMA DedupedStep ==
  ASSUME Typed, Deduped, "port" \notin Behaviours, [Next]_vars
  PROVE  Deduped'
<1> SUFFICES ASSUME dedup' # {}, \A r \in Requests : ~CheckinNext(r) PROVE Underway' \/ Over' \/ Rates'
  BY NextStep DEF Deduped
<1>l. \A r \in Requests : req[r].at \in Locked => lock = r
  BY DEF Typed, LockOK
<1>1. ASSUME NEW r \in Requests, CheckinOver(r) PROVE Over' \/ Rates'
  <2>1. lock = r
    BY <1>1, <1>l DEF CheckinOver, Stays, Counted, At, Locked
  <2>2. \E why, x : Settle(r, why, x)
    BY <1>1 DEF CheckinOver
  <2>. QED
    BY <2>1, <2>2, SettleStep DEF Rates
<1>2. CASE dedup # {} /\ Underway
  <2>1. Current' = Current /\ Current \in Games
    BY CurrentStep, CurrentGame DEF Typed
  <2>2. \A r \in Requests : \A g \in Games : ~EndMatch(r, g)
    BY DEF EndMatch
  <2>. QED
    BY <1>2, <2>1, <2>2, GamesStep DEF Underway
<1>3. CASE dedup # {} /\ Over
  BY <1>3, OverStep
<1>4. CASE dedup # {} /\ Rates
  <2>1. PICK r \in Requests : req[r].at = "rate"
    BY <1>4 DEF Rates
  <2>2. CASE req'[r] = req[r]
    BY <2>1, <2>2 DEF Rates
  <2>3. CASE Rate(r)
    BY <1>l, <2>1, <2>3, Ends DEF Rate, Locked
  <2>. QED
    BY <2>1, <2>2, <2>3, LockStep
<1>. QED
  BY <1>1, <1>2, <1>3, <1>4, DedupStep DEF Deduped

\* A check-in's count is of the members the other one's left.
LEMMA CountsStep ==
  ASSUME Typed, NEW r \in Requests, CheckinCounts(r)
  PROVE  /\ req[r].op = "checkin" /\ req[r].at = "held" /\ lock = r /\ UNCHANGED dedup
         /\ UNCHANGED keys \/ (req'[r].at = "counted" /\ req'[r] # req[r])
<1> DEFINE in == checkins \cup {req[r].who}
           set == IF req[r].who \in checkins THEN req[r].mine ELSE [req[r].mine EXCEPT !.in = in]
           now == IF known # 0 THEN known ELSE IF req[r].game \in toSet THEN req[r].game ELSE 1
           x == [req[r] EXCEPT !.at = "counted", !.game = now, !.arg = Cardinality(in), !.mine = set]
<1>1. At(r, "checkin", "held") /\ UNCHANGED dedup /\ (UNCHANGED keys \/ req' = [req EXCEPT ![r] = x])
  BY DEF CheckinCounts, marks
<1>2. lock = r
  BY <1>1 DEF At, Typed, LockOK, Locked
<1>. HIDE DEF in, set, now
<1>3. x.at = "counted"
  BY DEF Typed, ReqsOK, RequestType
<1>. HIDE DEF x
<1>. QED
  BY <1>1, <1>2, <1>3 DEF At, Typed, ReqsOK

LEMMA GoingStep ==
  ASSUME Typed, SentFor, Deduped, Going, "port" \notin Behaviours, [Next]_vars
  PROVE  Going'
<1> SUFFICES ASSUME checkins' = Players, known' = AtGame' PROVE \E r \in Requests : Holder(r)'
  BY DEF Going
<1>p. Players # {} /\ checkins' # {} /\ None \notin Requests
  BY Constants1 DEF Players
<1>n. \A r \in Requests : ~CheckinNext(r)
  BY <1>p, NextStep
<1>c. Current' = Current /\ known' = AtGame
  BY <1>n, CurrentStep DEF AtGame
<1>l. \A r \in Requests : req[r].at \in Locked => lock = r
  BY DEF Typed, LockOK
<1>m. \A r \in Requests : req'[r].at \in Locked => lock' = r
  BY TypedStep DEF Typed, LockOK
<1>1. CASE UNCHANGED <<checkins, known>>
  <2>1. PICK r \in Requests : Holder(r)
    BY <1>1, <1>c DEF Going
  <2>2. CASE req'[r] = req[r]
    <3>1. lock' = r
      BY <1>m, <2>1, <2>2 DEF Holder, Locked
    <3>2. ASSUME NEW q \in Requests, CheckinOver(q) PROVE req'[r].at = "rate"
      <4>1. req[q].at = "counted" /\ lock = q
        BY <1>l, <3>2 DEF CheckinOver, Stays, Counted, At, Locked
      <4>2. q = r
        BY <2>1, <4>1 DEF Holder
      <4>3. \E why, x : Settle(q, why, x)
        BY <3>2 DEF CheckinOver
      <4>. QED
        BY <1>p, <4>1, <4>2, <4>3, SettleStep
    <3>3. dedup' \subseteq dedup \/ req'[r].at = "rate"
      BY <1>n, <3>2, DedupStep
    <3>. QED
      BY <2>1, <2>2, <3>1, <3>3 DEF Holder
  <2>3. CASE req'[r] # req[r] /\ req[r].at = "rate"
    BY <1>p, <2>3, LockStep DEF Rate, Drop
  <2>4. CASE req'[r] # req[r] /\ req[r].at = "counted"
    <3>1. CheckinAlone(r) \/ CheckinOver(r) \/ CheckinCrashed(r) \/ CheckinWaits(r)
      BY <1>n, <2>4, LockStep
    <3>2. ~CheckinCrashed(r)
      BY <1>p DEF CheckinCrashed, Drop
    <3>3. ~CheckinWaits(r)
      BY <2>1, <2>4 DEF CheckinWaits, AllIn, Holder
    <3>4. \E why, x : Settle(r, why, x)
      BY <3>1, <3>2, <3>3 DEF CheckinAlone, CheckinOver
    <3>5. req'[r].at = "rate"
      BY <1>p, <2>1, <3>4, SettleStep DEF Holder
    <3>. QED
      BY <1>m, <3>5 DEF Holder, Locked
  <2>. QED
    BY <2>1, <2>2, <2>3, <2>4 DEF Holder
<1>2. ASSUME NEW r \in Requests, CheckinCounts(r), ~UNCHANGED keys, checkins' = checkins \cup {req[r].who}, UNCHANGED known,
             known # 0 => req[r].game = known
      PROVE  Holder(r)'
  <2>1. req[r].op = "checkin" /\ req[r].at = "held" /\ lock = r /\ UNCHANGED dedup /\ req'[r].at = "counted" /\ req'[r] # req[r]
    BY <1>2, CountsStep
  <2>2. /\ req'[r].op = "checkin" /\ req[r].mine # NoSet /\ req'[r].mine.played = req[r].mine.played
        /\ req'[r].arg = Cardinality(checkins \cup {req[r].who})
    BY <2>1, RequestStep, IdleTyped DEF Goes, Starts
  <2>3. req'[r].arg = 2
    <3>1. checkins \cup {req[r].who} = Players
      BY <1>2
    <3>. QED
      BY <2>2, <3>1, PlayersCounted
  <2>4. lock' = r
    BY <1>m, <2>1 DEF Locked
  <2>5. ~Underway
    <3>1. game[req[r].game] \in {"ending", "ended"} /\ req[r].game \in Games
      BY <2>1 DEF SentFor, Typed, ReqsOK, Carries
    <3>2. Current \in Games /\ game[req[r].game] # "none" => req[r].game <= Current
      BY <3>1, CurrentGame DEF Typed
    <3>3. req[r].game = Current
      BY <1>2, <1>c, <3>1, <3>2, CurrentGame, Constants1 DEF AtGame, Games, Typed
    <3>. QED
      BY <3>1, <3>3 DEF Underway
  <2>6. ~Over
    BY <2>2 DEF Over
  <2>7. ~Rates
    <3> SUFFICES ASSUME NEW s \in Requests, req[s].at = "rate" PROVE FALSE
      BY DEF Rates
    <3>. QED
      BY <1>l, <2>1 DEF Locked
  <2>8. dedup' = {}
    BY <2>1, <2>5, <2>6, <2>7 DEF Deduped
  <2>. QED
    BY <2>1, <2>2, <2>3, <2>4, <2>8 DEF Holder
<1>3. UNCHANGED keys => UNCHANGED <<checkins, known>>
  BY DEF keys
<1>. QED
  BY <1>1, <1>2, <1>3, <1>n, <1>p, CheckinsStep

\* Where a port is left for each next game: two check-ins for the game last made,
\* whatever the order and whoever else asks for the lock, never leave the set
\* waiting for a third.
THEOREM NoStallHolds ==
  ASSUME "port" \notin Behaviours
  PROVE  Spec => []NoStall
<1>1. Init => Typed /\ SentFor /\ Deduped /\ Going
  <2> SUFFICES ASSUME Init PROVE Typed /\ SentFor /\ Deduped /\ Going
    OBVIOUS
  <2>1. \A r \in Requests : req[r].op = "idle"
    BY IdleTyped DEF Init
  <2>2. sent \in [Players -> [Games -> Nat]] /\ game[2] = "none" /\ known = 0 /\ checkins = {} /\ dedup = {}
    BY Constants1 DEF Init
  <2>3. Players # {}
    BY DEF Players
  <2>. QED
    BY <2>1, <2>2, <2>3, TypedInit DEF SentFor, CheckinsCurrent, Deduped, Going
<1>2. Typed /\ SentFor /\ Deduped /\ Going /\ [Next]_vars => (Typed /\ SentFor /\ Deduped /\ Going)'
  BY TypedStep, SentForStep, DedupedStep, GoingStep
<1>3. Going => NoStall
  BY IdleTyped DEF Going, NoStall, Holder, Free
<1>. QED
  BY <1>1, <1>2, <1>3, PTL DEF Spec
=============================================================================
