---------------------------- MODULE WinnerProofs ----------------------------
(***************************************************************************)
(* A set rated on its score is won by a team that won two of its games: for *)
(* any requests under way at once, and whatever the players and the servers *)
(* do but the three things Plain rules out.                                 *)
(***************************************************************************)
EXTENDS RankedSetProofs

\* No match ends before a report of it is answered, no opponent fails to load,
\* and nobody starts the game again.
Plain == Behaviours \cap {"early", "faceoff", "login"} = {}

\* The set will not be rated on its score any more.
Closed == elo[1] # "none" \/ Over

\* The games that are over and count for somebody.
Scored == {g \in Games : game[g] = "ended" /\ counted[g] # None}

\* The set in the store, and the copies of it.
Copies == ({rec} \cup {req[r].mine : r \in Requests}) \ {NoSet}

AtEnd(r)     == req[r].op = "end" /\ req[r].at \in {"lock", "held"}
AtCheckin(r) == req[r].op = "checkin" /\ req[r].at \in {"lock", "held"}

\* What is under way fits the games: who counted a check-in has the set; an end is
\* of a game that is ending, and the only one; a report is of a started game, a
\* check-in of one that is over.
Fits ==
    /\ \A r \in Requests : req[r].at = "counted" => req[r].mine # NoSet
    /\ \A r \in Requests : AtEnd(r) => game[req[r].game] = "ending"
    /\ \A r, s \in Requests : AtEnd(r) /\ AtEnd(s) /\ r # s => req[r].game # req[s].game
    /\ \A r \in Requests : req[r].op = "report" => game[req[r].game] = "started"
    /\ \A r \in Requests : AtCheckin(r) => game[req[r].game] = "ended"
    /\ \A r \in Requests : req[r].op # "faceoff"
    /\ \A g \in Games : game[g] # "failed"
    /\ \A g \in Games : game[g] \in {"none", "made"} => DOMAIN reports[g] = {}

\* All games but the one made last are over.
InTurn == ~Closed => \A g \in Games : g < Current => game[g] = "ended"

\* The last game has no crash that came before its end was begun.
Clean == Current \notin crash \/ game[Current] = "ending"

\* Until that one is over too nobody makes the next, and unless it crashed while it
\* was played the pointers and the set's match are what it was made with.
Quiet ==
    ~Closed /\ game[Current] # "ended" =>
        /\ Current # 1 /\ game[Current] # "ending" =>
              \A s \in Copies : s.played \in dedup
        /\ Clean \/ Current = 1 => checkins = {} /\ known = AtGame /\ \A r \in Requests : req[r].at # "counted"
        /\ Clean => \A p \in Players : ptr[p]

\* Who finds no set finds it over; a match is called off only with the set settled.
Found ==
    /\ \A r \in Requests : req[r].at = "held" /\ ~(req[r].op = "end" /\ req[r].arg = None) /\ req[r].mine = NoSet => Over
    /\ \A r \in Requests : req[r].op = "dodge" => Closed
    /\ off # {} => Closed

\* A started game's reports count or are being counted; an ending game's counted.
Counting ==
    /\ ~Closed => \A g \in Games \ crash : game[g] = "started" =>
         \A i \in DOMAIN reports[g] :
            counted[g] # None \/ \E r \in Requests : req[r].op = "report" /\ req[r].game = g /\ req[r].who = reports[g][i].who
    /\ ~Closed => \A r \in Requests : AtEnd(r) => req[r].arg # None /\ counted[req[r].game] # None

\* A set has played no more games than count.
PlayedScored == \A s \in Copies : s.played <= Cardinality(Scored)

WonBy(x) == x.conceder = None => Points(x.winner) >= 2
Earned ==
    /\ \A r \in Requests : req[r].at = "rate" => WonBy(req[r].arg)
    /\ \A i \in DOMAIN rated : WonBy(rated[i]) /\ (rated[i].conceder = None => Over)

Inv == Fits /\ InTurn /\ Quiet /\ Found /\ Counting /\ PlayedScored /\ Earned

-----------------------------------------------------------------------------
(* What a step does to each key. *)

\* Who drops the set under the lock ends it; who drops it without is named, and so
\* is who only takes the pointers.
LEMMA PointersStep ==
  ASSUME Typed, Fits, Plain, [Next]_vars
  PROVE  \/ (\A p \in Players : ptr[p] => ptr'[p]) /\ UNCHANGED known
         \/ \E r \in Requests : CheckinNext(r)
         \/ Over'
         \/ \E p \in Players : ServerFails(p)
         \/ \E r \in Requests : DodgeSettles(r) \/ EndOrphan(r)
         \/ \E r \in Requests : \E g \in Games \cap crash : EndMatch(r, g)
<1> DEFINE Kept == (\A p \in Players : ptr[p] => ptr'[p]) /\ UNCHANGED known
<1>k. UNCHANGED keys => Kept
  BY DEF keys
<1>l. \A r \in Requests : req[r].at \in Locked => lock = r
  BY DEF Typed, LockOK
<1>1. ASSUME NEW r \in Requests, CheckinAlone(r) \/ CheckinOver(r) \/ ConcedeSettles(r) \/ EndOver(r) PROVE Kept \/ Over'
  <2>1. lock = r
    BY <1>1, <1>l DEF CheckinAlone, CheckinOver, ConcedeSettles, EndOver, Counted, Stays, Ending, At, Locked
  <2>2. (\E why, x : Settle(r, why, x)) \/ UNCHANGED keys
    BY <1>1 DEF CheckinAlone, CheckinOver, ConcedeSettles, EndOver
  <2>. QED
    BY <1>k, <2>1, <2>2, SettleStep
<1>2. ASSUME NEW r \in Requests, Rate(r) \/ CheckinCrashed(r) PROVE Over'
  <2>1. lock = r /\ Drop /\ Finish(r)
    BY <1>2, <1>l DEF Rate, CheckinCrashed, Counted, At, Locked
  <2>. QED
    BY <2>1, Ends
<1>3. ASSUME NEW r \in Requests, FaceoffDrops(r) PROVE FALSE
  BY <1>3 DEF FaceoffDrops, At, Fits
<1>4. ASSUME NEW r \in Requests, CheckinCounts(r) \/ CountWinner(r) \/ TakeLock(r) \/ CheckinWaits(r) \/ KeepReport(r) \/ EndResolved(r)
      PROVE  Kept
  BY <1>4, <1>k DEF CheckinCounts, CountWinner, TakeLock, CheckinWaits, KeepReport, EndResolved, keys
<1>5. ASSUME NEW r \in Requests, EndContinues(r) PROVE Kept
  BY <1>5 DEF EndContinues
<1>6. ASSUME NEW r \in Requests, NEW p \in Players, Concede(r, p) \/ Faceoff(r, p) \/ Dodges(r, p) PROVE Kept
  BY <1>6, <1>k DEF Concede, Faceoff, Dodges
<1>7. ASSUME NEW r \in Requests, NEW p \in Players, NEW g \in Games, NEW w \in Players, Checkin(r, p, g) \/ Report(r, p, g, w) PROVE Kept
  BY <1>7, <1>k DEF Checkin, Report
<1>8. ASSUME NEW r \in Requests, NEW g \in Games, EndMatch(r, g) PROVE Kept \/ g \in crash
  BY <1>8 DEF EndMatch
<1>9. ASSUME NEW g \in Games, MatchStarted(g) \/ ServerError(g) PROVE Kept
  BY <1>9, <1>k DEF MatchStarted, ServerError
<1>10. ASSUME NEW p \in Players, Drops(p) \/ Returns(p) \/ CloseIgnored(p) \/ CloseBetween(p) \/ LeavesMidGame(p) PROVE Kept
  BY <1>10, <1>k DEF Drops, Returns, CloseIgnored, CloseBetween, LeavesMidGame
<1>11. ASSUME NEW p \in Players, Login(p) PROVE FALSE
  BY <1>11 DEF Login, May, Plain
<1>12. UNCHANGED vars => Kept
  BY <1>k DEF vars
<1>. QED
  BY <1>1, <1>2, <1>3, <1>4, <1>5, <1>6, <1>7, <1>8, <1>9, <1>10, <1>11, <1>12 DEF Next, Handler

\* The games played are a set's own, and one more once a game's end goes on.
LEMMA CopiesStep ==
  ASSUME Typed, Fits, [Next]_vars, NEW s \in Copies'
  PROVE  \/ \E t \in Copies : s.played = t.played
         \/ \E r \in Requests : EndContinues(r) /\ req[r].mine \in Copies /\ s.played = req[r].mine.played + 1
<1> DEFINE Same(x) == \E t \in Copies : x.played = t.played
           More(x) == \E r \in Requests : EndContinues(r) /\ req[r].mine \in Copies /\ x.played = req[r].mine.played + 1
           Fine(x) == x = NoSet \/ Same(x) \/ More(x)
<1>m. \A r \in Requests : req[r].mine # NoSet => req[r].mine \in Copies /\ req[r].mine \in SetShape
  BY DEF Copies, Typed, SetsOK, IsSet
<1>r. Fine(rec)
  BY DEF Copies
<1>s. ASSUME NEW r \in Requests, NEW why, NEW x, Settle(r, why, x) PROVE rec' \in {rec, NoSet}
  BY <1>s DEF Settle, Drop, keys
<1>1. ASSUME NEW r \in Requests, CheckinAlone(r) \/ CheckinOver(r) \/ ConcedeSettles(r) \/ EndOver(r) PROVE Fine(rec')
  <2>1. (\E why, x : Settle(r, why, x)) \/ UNCHANGED keys
    BY <1>1 DEF CheckinAlone, CheckinOver, ConcedeSettles, EndOver
  <2>. QED
    BY <1>r, <1>s, <2>1 DEF keys
<1>2. ASSUME NEW r \in Requests, CheckinCounts(r) PROVE Fine(rec')
  <2>1. \/ rec' = rec
        \/ req[r].mine # NoSet /\ rec' = [req[r].mine EXCEPT !.in = checkins \cup {req[r].who}]
    BY <1>2 DEF CheckinCounts, keys
  <2>2. req[r].mine # NoSet => [req[r].mine EXCEPT !.in = checkins \cup {req[r].who}].played = req[r].mine.played
    BY <1>m DEF SetShape
  <2>. QED
    BY <1>r, <1>m, <2>1, <2>2
<1>3. ASSUME NEW r \in Requests, CheckinNext(r) PROVE Fine(rec')
  <2>1. (rec' = rec \/ rec' = [req[r].mine EXCEPT !.in = {}]) /\ req[r].mine # NoSet
    BY <1>3 DEF CheckinNext, Stays, Counted, At, Fits
  <2>2. [req[r].mine EXCEPT !.in = {}].played = req[r].mine.played
    BY <1>m, <2>1 DEF SetShape
  <2>. QED
    BY <1>r, <1>m, <2>1, <2>2
<1>4. ASSUME NEW r \in Requests, CountWinner(r) PROVE Fine(rec')
  <2>1. rec' = rec \/ (req[r].mine # NoSet /\ \E points : rec' = [req[r].mine EXCEPT !.score = points])
    BY <1>4 DEF CountWinner
  <2>2. req[r].mine # NoSet => \A points : [req[r].mine EXCEPT !.score = points].played = req[r].mine.played
    BY <1>m DEF SetShape
  <2>. QED
    BY <1>r, <1>m, <2>1, <2>2
<1>5. ASSUME NEW r \in Requests, EndContinues(r) PROVE Fine(rec')
  <2>1. rec' = After(r) /\ req[r].mine # NoSet
    BY <1>5 DEF EndContinues
  <2>2. After(r).played = req[r].mine.played + 1
    BY <1>m, <2>1 DEF After, SetShape
  <2>. QED
    BY <1>5, <1>m, <2>1, <2>2
<1>6. ASSUME NEW r \in Requests, Rate(r) \/ CheckinCrashed(r) \/ FaceoffDrops(r) \/ DodgeSettles(r) PROVE Fine(rec')
  BY <1>6, <1>r DEF Rate, CheckinCrashed, FaceoffDrops, DodgeSettles, Drop
<1>7. ASSUME NEW r \in Requests, TakeLock(r) \/ CheckinWaits(r) \/ KeepReport(r) \/ EndOrphan(r) \/ EndResolved(r) PROVE Fine(rec')
  BY <1>7, <1>r DEF TakeLock, CheckinWaits, KeepReport, EndOrphan, EndResolved, keys
<1>8. ASSUME NEW r \in Requests, NEW p \in Players, Concede(r, p) \/ Faceoff(r, p) \/ Dodges(r, p) PROVE Fine(rec')
  BY <1>8, <1>r DEF Concede, Faceoff, Dodges, keys
<1>9. ASSUME NEW r \in Requests, NEW p \in Players, NEW g \in Games, NEW w \in Players, Checkin(r, p, g) \/ Report(r, p, g, w)
      PROVE  Fine(rec')
  BY <1>9, <1>r DEF Checkin, Report, keys
<1>10. ASSUME NEW r \in Requests, NEW g \in Games, EndMatch(r, g) PROVE Fine(rec')
  BY <1>10, <1>r DEF EndMatch
<1>11. ASSUME NEW g \in Games, MatchStarted(g) \/ ServerError(g) PROVE Fine(rec')
  BY <1>11, <1>r DEF MatchStarted, ServerError, keys
<1>12. ASSUME NEW p \in Players,
              Drops(p) \/ Returns(p) \/ Login(p) \/ CloseIgnored(p) \/ CloseBetween(p) \/ ServerFails(p) \/ LeavesMidGame(p)
       PROVE  Fine(rec')
  BY <1>12, <1>r DEF Drops, Returns, Login, CloseIgnored, CloseBetween, ServerFails, LeavesMidGame, keys
<1>13. UNCHANGED vars => Fine(rec')
  BY <1>r DEF vars, keys
<1>14. Fine(rec')
  <2>. HIDE DEF Fine
  <2>. QED
    BY <1>1, <1>2, <1>3, <1>4, <1>5, <1>6, <1>7, <1>8, <1>9, <1>10, <1>11, <1>12, <1>13 DEF Next, Handler
<1>15. ASSUME NEW r \in Requests PROVE req'[r].mine = NoSet \/ Same(req'[r].mine)
  <2>1. CASE req'[r] = req[r]
    BY <1>m, <2>1
  <2>2. CASE req'[r] # req[r] /\ req'[r].at \notin Locked
    BY <2>2, TypedStep DEF Typed, LockOK
  <2>3. CASE req'[r] # req[r] /\ req'[r].at \in Locked
    <3>1. Goes(r) \/ Starts(r)
      BY <2>3, RequestStep, IdleTyped DEF Locked
    <3>2. \/ req'[r].mine \in {rec, NoSet}
          \/ req[r].mine # NoSet /\ req'[r].mine.played = req[r].mine.played
          \/ req'[r].mine = req[r].mine
      BY <2>3, <3>1 DEF Goes, Starts, Locked
    <3>. QED
      BY <1>m, <3>2 DEF Copies
  <2>. QED
    BY <2>1, <2>2, <2>3
<1>. QED
  BY <1>14, <1>15 DEF Copies

\* Only a game's end, with 30 s gone by, lets a step of the set be taken again.
LEMMA DedupKept ==
  ASSUME [Next]_vars
  PROVE  dedup \subseteq dedup' \/ \E r \in Requests : \E g \in Games : EndMatch(r, g)
<1>1. ASSUME NEW r \in Requests, Handler(r) PROVE dedup \subseteq dedup'
  BY <1>1 DEF Handler, TakeLock, Rate, CheckinCounts, CheckinCrashed, CheckinAlone, CheckinWaits, CheckinOver, CheckinNext, ConcedeSettles,
              FaceoffDrops, KeepReport, CountWinner, EndOrphan, EndResolved, EndOver, EndContinues, DodgeSettles, marks
<1>2. ASSUME NEW r \in Requests, NEW p \in Players, Concede(r, p) \/ Faceoff(r, p) \/ Dodges(r, p) PROVE UNCHANGED dedup
  BY <1>2 DEF Concede, Faceoff, Dodges, marks
<1>3. ASSUME NEW r \in Requests, NEW p \in Players, NEW g \in Games, NEW w \in Players, Checkin(r, p, g) \/ Report(r, p, g, w)
      PROVE  UNCHANGED dedup
  BY <1>3 DEF Checkin, Report, marks
<1>4. ASSUME NEW g \in Games, MatchStarted(g) \/ ServerError(g) PROVE UNCHANGED dedup
  BY <1>4 DEF MatchStarted, ServerError, marks
<1>5. ASSUME NEW p \in Players,
             Drops(p) \/ Returns(p) \/ Login(p) \/ CloseIgnored(p) \/ CloseBetween(p) \/ ServerFails(p) \/ LeavesMidGame(p)
      PROVE  UNCHANGED dedup
  BY <1>5 DEF Drops, Returns, Login, CloseIgnored, CloseBetween, ServerFails, LeavesMidGame, marks
<1>6. UNCHANGED vars => UNCHANGED dedup
  BY DEF vars, marks
<1>. QED
  BY <1>1, <1>2, <1>3, <1>4, <1>5, <1>6 DEF Next

\* A point that was counted may move to the other team but is not taken back, and
\* it is counted by who has a copy of the set.
LEMMA CountedStep ==
  ASSUME Typed, [Next]_vars
  PROVE  /\ \A g \in Games : counted[g] # None => counted'[g] # None
         /\ counted' # counted => \E r \in Requests : CountWinner(r) /\ req[r].mine # NoSet
<1>1. ASSUME NEW r \in Requests, CountWinner(r)
      PROVE  /\ \A g \in Games : counted[g] # None => counted'[g] # None
             /\ counted' # counted => req[r].mine # NoSet
  <2>1. req[r].arg \in Players /\ req[r].arg # None
    BY <1>1, Constants1 DEF CountWinner, At, Typed, ReqsOK, Carries
  <2>2. counted' = counted \/ (req[r].mine # NoSet /\ counted' = [counted EXCEPT ![req[r].game] = req[r].arg])
    BY <1>1 DEF CountWinner
  <2>. QED
    BY <2>1, <2>2 DEF Typed, MarksOK
<1>2. ASSUME NEW r \in Requests, Handler(r), ~CountWinner(r) PROVE UNCHANGED counted
  BY <1>2 DEF Handler, TakeLock, Rate, CheckinCounts, CheckinCrashed, CheckinAlone, CheckinWaits, CheckinOver, CheckinNext, ConcedeSettles,
              FaceoffDrops, KeepReport, EndOrphan, EndResolved, EndOver, EndContinues, DodgeSettles, marks
<1>3. ASSUME NEW r \in Requests, NEW p \in Players, Concede(r, p) \/ Faceoff(r, p) \/ Dodges(r, p) PROVE UNCHANGED counted
  BY <1>3 DEF Concede, Faceoff, Dodges, marks
<1>4. ASSUME NEW r \in Requests, NEW p \in Players, NEW g \in Games, NEW w \in Players, Checkin(r, p, g) \/ Report(r, p, g, w)
      PROVE  UNCHANGED counted
  BY <1>4 DEF Checkin, Report, marks
<1>5. ASSUME NEW r \in Requests, NEW g \in Games, EndMatch(r, g) PROVE UNCHANGED counted
  BY <1>5 DEF EndMatch
<1>6. ASSUME NEW g \in Games, MatchStarted(g) \/ ServerError(g) PROVE UNCHANGED counted
  BY <1>6 DEF MatchStarted, ServerError, marks
<1>7. ASSUME NEW p \in Players,
             Drops(p) \/ Returns(p) \/ Login(p) \/ CloseIgnored(p) \/ CloseBetween(p) \/ ServerFails(p) \/ LeavesMidGame(p)
      PROVE  UNCHANGED counted
  BY <1>7 DEF Drops, Returns, Login, CloseIgnored, CloseBetween, ServerFails, LeavesMidGame, marks
<1>8. UNCHANGED vars => UNCHANGED counted
  BY DEF vars, marks
<1>. QED
  BY <1>1, <1>2, <1>3, <1>4, <1>5, <1>6, <1>7, <1>8 DEF Next

\* What is decided stays so.
LEMMA ClosedStep ==
  ASSUME Typed, Fits, [Next]_vars
  PROVE  (Over => Over') /\ (Closed => Closed')
<1>1. ASSUME Over, NEW r \in Requests, CheckinNext(r) PROVE FALSE
  BY <1>1 DEF CheckinNext, Stays, Counted, At, Fits, Over
<1>. QED
  BY <1>1, OverStep, EloStep, Constants1 DEF Closed

-----------------------------------------------------------------------------
(* What is under way fits the games. *)

\* What a request is about was said when it began.
LEMMA Fate ==
  ASSUME Typed, Fits, Plain, [Next]_vars, NEW r \in Requests
  PROVE  /\ AtEnd(r)' => \/ AtEnd(r) /\ req'[r].game = req[r].game /\ req'[r].arg = req[r].arg
                         \/ \E g \in Games : EndMatch(r, g) /\ g \notin crash /\ req'[r].game = g
         /\ AtCheckin(r)' => \/ AtCheckin(r) /\ req'[r].game = req[r].game
                             \/ \E p \in Players : \E g \in Games : Checkin(r, p, g) /\ req'[r].game = g
         /\ req'[r].op = "report" => \/ req[r].op = "report" /\ req'[r].game = req[r].game
                                     \/ \E p \in Players : \E g \in Games : \E w \in Players : Report(r, p, g, w) /\ req'[r].game = g
         /\ req'[r].op # "faceoff"
         /\ req'[r].op = "dodge" => req[r].op = "dodge" \/ \E p \in Players : Dodges(r, p) /\ req'[r] # req[r]
<1>1. req[r].op \in {"checkin", "report", "end"} => req[r].game \in Games /\ req[r].game # 0
  BY Constants1 DEF Typed, ReqsOK, Carries
<1>2. CASE req'[r] = req[r]
  BY <1>2 DEF AtEnd, AtCheckin, Fits
<1>3. CASE req'[r] = Idle
  BY <1>3, IdleTyped DEF AtEnd, AtCheckin
<1>4. CASE Goes(r)
  BY <1>1, <1>4 DEF Goes, AtEnd, AtCheckin, Fits
<1>5. CASE Starts(r) /\ req'[r] # req[r]
  <2>1. \A p \in Players : ~Faceoff(r, p)
    BY DEF Faceoff, May, Plain
  <2>. QED
    BY <1>5, <2>1 DEF Starts, AtEnd, AtCheckin
<1>. QED
  BY <1>2, <1>3, <1>4, <1>5, RequestStep

\* A game's end makes it ended, and is done.
LEMMA EndedStep ==
  ASSUME Typed, [Next]_vars, NEW g \in Games, game[g] = "ending", game'[g] # "ending"
  PROVE  \E r \in Requests : AtEnd(r) /\ req[r].game = g /\ ~AtEnd(r)'
<1>s. ASSUME NEW r \in Requests, Ending(r), NEW why, NEW x, Settle(r, why, x) PROVE ~AtEnd(r)'
  <2>1. lock = r
    BY <1>s DEF Ending, At, Typed, LockOK, Locked
  <2>. QED
    BY <1>s, <2>1, SettleStep, IdleTyped DEF AtEnd
<1>f. ASSUME NEW r \in Requests, Finish(r) PROVE ~AtEnd(r)'
  BY <1>f, Finishes, IdleTyped DEF AtEnd, Typed
<1>1. ASSUME NEW r \in Requests, EndOrphan(r) \/ EndResolved(r) \/ EndOver(r) \/ EndContinues(r)
      PROVE  AtEnd(r) /\ req[r].game = g /\ ~AtEnd(r)'
  <2>1. Ending(r) /\ (Finish(r) \/ \E why, x : Settle(r, why, x))
    BY <1>1 DEF EndOrphan, EndResolved, EndOver, EndContinues
  <2>2. AtEnd(r) /\ req[r].game = g
    BY <2>1 DEF Ending, At, AtEnd, Typed, MatchesOK
  <2>. QED
    BY <1>s, <1>f, <2>1, <2>2
<1>2. ASSUME NEW r \in Requests, Handler(r), ~EndOrphan(r), ~EndResolved(r), ~EndOver(r), ~EndContinues(r) PROVE game'[g] = "ending"
  <2>1. ASSUME CheckinNext(r) PROVE game'[g] = "ending"
    <3>1. game[Current + 1] # game[g] \/ Current + 1 \notin Games
      <4> DEFINE c == Current
      <4>1. c \in Nat /\ \A h \in Games : game[h] # "none" <=> h <= c
        BY CurrentGame, Constants1 DEF Typed
      <4>. HIDE DEF c
      <4>2. c + 1 \in Games => game[c + 1] = "none"
        BY <4>1
      <4>. QED
        BY <4>2 DEF c
    <3>. QED
      BY <2>1, <3>1 DEF CheckinNext, Typed, MatchesOK
  <2>. QED
    BY <1>2, <2>1 DEF Handler, TakeLock, Rate, CheckinCounts, CheckinCrashed, CheckinAlone, CheckinWaits, CheckinOver, ConcedeSettles,
              FaceoffDrops, KeepReport, CountWinner, DodgeSettles, matches
<1>3. ASSUME NEW r \in Requests, NEW p \in Players, Concede(r, p) \/ Faceoff(r, p) \/ Dodges(r, p) PROVE game'[g] = "ending"
  BY <1>3 DEF Concede, Faceoff, Dodges, matches, Typed, MatchesOK
<1>4. ASSUME NEW r \in Requests, NEW p \in Players, NEW h \in Games, NEW w \in Players, Checkin(r, p, h) \/ Report(r, p, h, w)
      PROVE  UNCHANGED game
  BY <1>4 DEF Checkin, Report, matches
<1>5. ASSUME NEW r \in Requests, NEW h \in Games, EndMatch(r, h) PROVE game'[g] = "ending"
  BY <1>5 DEF EndMatch, Typed, MatchesOK
<1>6. ASSUME NEW h \in Games, MatchStarted(h) \/ ServerError(h) PROVE game'[g] = "ending"
  BY <1>6 DEF MatchStarted, ServerError, matches, Typed, MatchesOK
<1>7. ASSUME NEW p \in Players,
             Drops(p) \/ Returns(p) \/ Login(p) \/ CloseIgnored(p) \/ CloseBetween(p) \/ ServerFails(p) \/ LeavesMidGame(p)
      PROVE  UNCHANGED game
  BY <1>7 DEF Drops, Returns, Login, CloseIgnored, CloseBetween, ServerFails, LeavesMidGame, matches
<1>8. UNCHANGED vars => UNCHANGED game
  BY DEF vars, matches
<1>. QED
  BY <1>1, <1>2, <1>3, <1>4, <1>5, <1>6, <1>7, <1>8 DEF Next

LEMMA FitsStep ==
  ASSUME Typed, Fits, Plain, [Next]_vars
  PROVE  Fits'
<1>g. game \in [Games -> {"none", "made", "failed", "started", "ending", "ended"}] /\ \A r \in Requests : Carries(req[r])
  BY DEF Typed, MatchesOK, ReqsOK
<1>e. \A g \in Games : game[g] = "ended" => game'[g] = "ended"
  BY GamesStep
<1>1. ASSUME NEW r \in Requests, req'[r].at = "counted" PROVE req'[r].mine # NoSet
  <2>1. CASE req'[r] = req[r]
    BY <1>1, <2>1 DEF Fits
  <2>2. CASE req'[r] # req[r]
    <3>1. req[r].mine # NoSet /\ req'[r].mine.score = req[r].mine.score
      BY <1>1, <2>2, RequestStep, IdleTyped DEF Goes, Starts
    <3>2. req[r].mine \in SetShape
      BY <3>1 DEF Typed, SetsOK, IsSet
    <3>3. NoSet.score = <<>> /\ \A x \in SetShape : x.score # <<>>
      BY DEF NoSet, SetShape, Players
    <3>. QED
      BY <3>1, <3>2, <3>3
  <2>. QED
    BY <2>1, <2>2
<1>2. ASSUME NEW r \in Requests, AtEnd(r)' PROVE game'[req'[r].game] = "ending"
  <2>1. CASE AtEnd(r) /\ req'[r].game = req[r].game
    <3>1. req[r].game \in Games /\ game[req[r].game] = "ending"
      BY <1>g, <2>1 DEF AtEnd, Carries, Fits
    <3>2. ASSUME game'[req[r].game] # "ending" PROVE FALSE
      <4>1. PICK q \in Requests : AtEnd(q) /\ req[q].game = req[r].game /\ ~AtEnd(q)'
        BY <3>1, <3>2, EndedStep
      <4>. QED
        BY <1>2, <2>1, <4>1 DEF Fits
    <3>. QED
      BY <2>1, <3>2
  <2>2. ASSUME NEW g \in Games, EndMatch(r, g), g \notin crash, req'[r].game = g PROVE game'[g] = "ending"
    BY <1>g, <2>2 DEF EndMatch
  <2>. QED
    BY <1>2, <2>1, <2>2, Fate
<1>3. ASSUME NEW r \in Requests, NEW s \in Requests, AtEnd(r)', AtEnd(s)', r # s PROVE req'[r].game # req'[s].game
  <2>1. ASSUME NEW q \in Requests, NEW g \in Games, EndMatch(q, g), NEW t \in Requests, AtEnd(t) PROVE req[t].game # g /\ req[q] = Idle
    BY <2>1 DEF EndMatch, Fits, Free
  <2>2. ASSUME NEW q \in Requests, NEW g \in Games, EndMatch(q, g), NEW t \in Requests, NEW h \in Games, EndMatch(t, h), AtEnd(q)', AtEnd(t)'
        PROVE  t = q
    <3>1. req'[q] # req[q] /\ req'[t] # req[t]
      BY <2>2, IdleTyped DEF EndMatch, Free, AtEnd
    <3>. QED
      BY <3>1, RequestStep
  <2>. QED
    BY <1>3, <2>1, <2>2, Fate DEF Fits
<1>4. ASSUME NEW r \in Requests, req'[r].op = "report" PROVE game'[req'[r].game] = "started"
  <2>1. CASE req[r].op = "report" /\ req'[r].game = req[r].game
    <3>1. req[r].game \in Games /\ game[req[r].game] = "started"
      BY <1>g, <2>1 DEF Carries, Fits
    <3>2. \A q \in Requests : ~EndMatch(q, req[r].game)
      BY <2>1 DEF EndMatch, Plain
    <3>. QED
      BY <2>1, <3>1, <3>2, GamesStep
  <2>2. ASSUME NEW p \in Players, NEW g \in Games, NEW w \in Players, Report(r, p, g, w), req'[r].game = g PROVE game'[g] = "started"
    BY <2>2 DEF Report
  <2>. QED
    BY <1>4, <2>1, <2>2, Fate
<1>5. ASSUME NEW r \in Requests, AtCheckin(r)' PROVE game'[req'[r].game] = "ended"
  <2>1. CASE AtCheckin(r) /\ req'[r].game = req[r].game
    BY <1>g, <1>e, <2>1 DEF Fits, AtCheckin, Carries
  <2>2. ASSUME NEW p \in Players, NEW g \in Games, Checkin(r, p, g), req'[r].game = g PROVE game'[g] = "ended"
    <3>1. game[g] = "ended"
      BY <2>2 DEF Checkin, Plain
    <3>. QED
      BY <1>e, <3>1
  <2>. QED
    BY <1>5, <2>1, <2>2, Fate
<1>6. \A r \in Requests : req'[r].op # "faceoff"
  BY Fate
<1>7. ASSUME NEW g \in Games PROVE game'[g] # "failed"
  <2>1. \A r \in Requests, p \in Players : ~Faceoff(r, p)
    BY DEF Faceoff, May, Plain
  <2>. QED
    BY <2>1, GamesStep DEF Fits
<1>8. ASSUME NEW g \in Games, game'[g] \in {"none", "made"} PROVE DOMAIN reports'[g] = {}
  <2>1. game[g] \in {"none", "made"}
    BY <1>8, GamesStep, <1>g
  <2>2. DOMAIN reports[g] = {}
    BY <2>1 DEF Fits
  <2>3. \A r \in Requests : \A p \in Players : \A w \in Players : ~Report(r, p, g, w)
    BY <2>1 DEF Report
  <2>. QED
    BY <2>2, <2>3, ReportsStep
<1>. QED
  BY <1>1, <1>2, <1>3, <1>4, <1>5, <1>6, <1>7, <1>8 DEF Fits

-----------------------------------------------------------------------------
(* The games are made one after the other. *)

\* The next game is made, or no rollback port is left.
LEMMA NextMakes ==
  ASSUME Typed, [Next]_vars, NEW r \in Requests, CheckinNext(r)
  PROVE  \/ /\ Current' = Current + 1 /\ Current + 1 \in Games /\ Current + 1 # 1
            /\ game' = [game EXCEPT ![Current + 1] = "made"]
            /\ checkins' = {} /\ known' = Current + 1 /\ \A p \in Players : ptr'[p]
            /\ rec' = [req[r].mine EXCEPT !.in = {}]
         \/ Current' = Current /\ UNCHANGED <<game, rec, checkins, ptr, known>>
<1> DEFINE c == Current  d == Current'
<1>g. game \in [Games -> {"none", "made", "failed", "started", "ending", "ended"}] /\ Games \subseteq Nat
  BY Constants1 DEF Typed, MatchesOK
<1>c. c \in Games /\ \A g \in Games : game[g] # "none" <=> g <= c
  BY CurrentGame DEF Typed
<1>d. d \in Games /\ \A g \in Games : game'[g] # "none" <=> g <= d
  BY CurrentStep DEF CurrentIsLast
<1>1. CASE UNCHANGED <<game, rec, checkins, ptr, known>>
  <2>. HIDE DEF c, d
  <2>1. c <= d /\ d <= c /\ c \in Nat /\ d \in Nat
    BY <1>1, <1>c, <1>d, <1>g
  <2>2. c = d
    BY <2>1
  <2>. QED
    BY <1>1, <2>2 DEF c, d
<1>2. CASE /\ c + 1 \in Games /\ game' = [game EXCEPT ![c + 1] = "made"] /\ checkins' = {} /\ known' = c + 1
           /\ ptr' = [p \in Players |-> TRUE] /\ rec' = [req[r].mine EXCEPT !.in = {}]
  <2>0. CASE TRUE
    <3>. HIDE DEF c, d
    <3>1. game'[c + 1] # "none" /\ \A g \in Games \ {c + 1} : game'[g] = game[g]
      BY <1>2, <1>g
    <3>2. c + 1 <= d
      BY <1>2, <1>d, <3>1
    <3>3. d # c + 1 => d <= c
      <4>1. game'[d] # "none"
        BY <1>d, <1>g
      <4>. QED
        BY <1>c, <1>d, <3>1, <4>1
    <3>4. d = c + 1 /\ c + 1 # 1
      BY <1>c, <1>d, <1>g, <3>2, <3>3, Constants1
    <3>. QED
      BY <1>2, <3>4 DEF c, d
  <2>. QED
    BY <2>0
<1>. QED
  BY <1>1, <1>2 DEF CheckinNext

\* It is made once the last one is over.
LEMMA NextAfterLast ==
  ASSUME Typed, Fits, Quiet, ~Closed, NEW r \in Requests, CheckinNext(r)
  PROVE  game[Current] = "ended"
<1>1. req[r].at = "counted" /\ req[r].mine.played \notin dedup
  BY DEF CheckinNext, Stays, Counted, AllIn, At
<1>2. req[r].mine \in Copies
  BY <1>1 DEF Fits, Copies
<1>. QED
  BY <1>1, <1>2 DEF Quiet, Clean

\* A game that is not over is the last.
LEMMA OnlyLast ==
  ASSUME Typed, InTurn, ~Closed, NEW g \in Games, game[g] \in {"made", "started", "ending"}
  PROVE  g = Current
<1> DEFINE c == Current
<1>1. c \in Games /\ (game[g] # "none" <=> g <= c) /\ (g < c => game[g] = "ended") /\ Games \subseteq Nat
  BY CurrentGame, Constants1 DEF Typed, InTurn
<1>. HIDE DEF c
<1>2. g = c
  BY <1>1
<1>. QED
  BY <1>2 DEF c

LEMMA InTurnStep ==
  ASSUME Typed, Fits, InTurn, Quiet, [Next]_vars
  PROVE  InTurn'
<1> SUFFICES ASSUME ~Closed', NEW g \in Games, g < Current' PROVE game'[g] = "ended"
  BY DEF InTurn
<1>0. ~Closed
  BY ClosedStep
<1>e. game[g] = "ended" => game'[g] = "ended"
  BY GamesStep
<1>1. CASE Current' = Current
  BY <1>0, <1>1, <1>e DEF InTurn
<1>2. CASE Current' # Current
  <2>1. PICK r \in Requests : CheckinNext(r)
    BY <1>2, CurrentStep
  <2>2. Current' = Current + 1 /\ game[Current] = "ended"
    BY <1>0, <1>2, <2>1, NextMakes, NextAfterLast
  <2> DEFINE c == Current
  <2>3. c \in Nat /\ g \in Nat /\ g < c + 1
    BY <2>2, CurrentGame, Constants1 DEF Typed
  <2>4. g = c \/ g < c
    <3>. HIDE DEF c
    <3>. QED
      BY <2>3
  <2>. QED
    BY <1>0, <1>e, <2>2, <2>4 DEF InTurn
<1>. QED
  BY <1>1, <1>2

\* A crash stays.
LEMMA CrashKept ==
  ASSUME Typed, [Next]_vars
  PROVE  crash \subseteq crash'
<1>1. ASSUME NEW r \in Requests, Handler(r) PROVE UNCHANGED crash
  BY <1>1 DEF Handler, TakeLock, Rate, CheckinCounts, CheckinCrashed, CheckinAlone, CheckinWaits, CheckinOver, CheckinNext, ConcedeSettles,
              FaceoffDrops, KeepReport, CountWinner, EndOrphan, EndResolved, EndOver, EndContinues, DodgeSettles, marks
<1>2. ASSUME NEW r \in Requests, NEW p \in Players, Concede(r, p) \/ Faceoff(r, p) \/ Dodges(r, p) PROVE UNCHANGED crash
  BY <1>2 DEF Concede, Faceoff, Dodges, marks
<1>3. ASSUME NEW r \in Requests, NEW p \in Players, NEW h \in Games, NEW w \in Players, Checkin(r, p, h) \/ Report(r, p, h, w)
      PROVE  UNCHANGED crash
  BY <1>3 DEF Checkin, Report, marks
<1>4. ASSUME NEW r \in Requests, NEW h \in Games, EndMatch(r, h) PROVE UNCHANGED crash
  BY <1>4 DEF EndMatch
<1>5. ASSUME NEW h \in Games, MatchStarted(h) \/ ServerError(h) PROVE crash \subseteq crash'
  BY <1>5 DEF MatchStarted, ServerError, marks
<1>6. ASSUME NEW p \in Players,
             Drops(p) \/ Returns(p) \/ Login(p) \/ CloseIgnored(p) \/ CloseBetween(p) \/ ServerFails(p) \/ LeavesMidGame(p)
      PROVE  crash \subseteq crash'
  BY <1>6 DEF Drops, Returns, Login, CloseIgnored, CloseBetween, ServerFails, LeavesMidGame, marks
<1>7. UNCHANGED vars => UNCHANGED crash
  BY DEF vars, marks
<1>. QED
  BY <1>1, <1>2, <1>3, <1>4, <1>5, <1>6, <1>7 DEF Next

\* A check-in that is counted is of the set's match, if it has one.
LEMMA CountsNow ==
  ASSUME Typed, Fits, [Next]_vars, NEW r \in Requests, req'[r].at = "counted", req[r].at # "counted"
  PROVE  AtCheckin(r) /\ (known = 0 \/ req[r].game = known)
<1>1. CheckinCounts(r) /\ req[r].op = "checkin" /\ req[r].at = "held"
  BY RequestStep, IdleTyped DEF Goes, Starts
<1>2. ~Finish(r)
  BY Finishes, IdleTyped DEF Typed
<1>. QED
  BY <1>1, <1>2 DEF CheckinCounts, AtCheckin

\* With the last game not over, and clean or the only one, no check-in is of the
\* set's match.
LEMMA NoneCounts ==
  ASSUME Typed, Fits, Quiet, ~Closed, game[Current] # "ended", Clean \/ Current = 1,
         NEW r \in Requests, AtCheckin(r), known = 0 \/ req[r].game = known
  PROVE  FALSE
<1> DEFINE c == Current
<1>1. game[req[r].game] = "ended" /\ req[r].game \in Games
  BY DEF Fits, AtCheckin, Typed, ReqsOK, Carries
<1>2. known = IF c = 1 THEN 0 ELSE c
  BY DEF Quiet, AtGame
<1>3. /\ c \in Games /\ (game[req[r].game] # "none" <=> req[r].game <= c) /\ Games \subseteq 1 .. 4
  BY <1>1, CurrentGame, Constants1 DEF Typed
<1>4. req[r].game = c
  <2>. HIDE DEF c
  <2>1. c \in 1 .. 4 /\ req[r].game \in 1 .. 4
    BY <1>1, <1>3
  <2>4. req[r].game <= c
    BY <1>1, <1>3
  <2>2. CASE c = 1
    BY <2>1, <2>2, <2>4
  <2>3. CASE c # 1
    BY <1>2, <2>1, <2>3
  <2>. QED
    BY <2>2, <2>3
<1>. QED
  BY <1>1, <1>4

\* A game that is clean was so before.
LEMMA CleanStep ==
  ASSUME Typed, [Next]_vars, Current' = Current, Clean'
  PROVE  Clean
<1>1. Current \in Games
  BY CurrentGame DEF Typed
<1>2. CASE Current \notin crash'
  BY <1>2, CrashKept DEF Clean
<1>3. CASE game'[Current] = "ending" /\ game[Current] # "ending" /\ Current \in crash
  <2>1. PICK r \in Requests : EndMatch(r, Current)
    BY <1>1, <1>3, GamesStep
  <2>. QED
    BY <1>3, <2>1 DEF EndMatch, Typed, MatchesOK
<1>. QED
  BY <1>2, <1>3 DEF Clean

\* While the last game is not over, and clean, the pointers stay as they are, and
\* so does the set's match.
LEMMA PointersStay ==
  ASSUME Typed, Fits, InTurn, Quiet, Found, Counting, Plain, [Next]_vars, ~Closed', game[Current] # "ended", Current' = Current, Clean'
  PROVE  (\A p \in Players : ptr'[p]) /\ UNCHANGED known
<1>0. ~Closed /\ Clean /\ Current \in Games
  BY ClosedStep, CleanStep, CurrentGame DEF Typed
<1>1. ~Over'
  BY DEF Closed
<1>2. ASSUME NEW r \in Requests, CheckinNext(r) PROVE FALSE
  BY <1>0, <1>2, NextAfterLast
<1>3. ASSUME NEW p \in Players, ServerFails(p) PROVE FALSE
  BY <1>3 DEF ServerFails, Undecided, Clean, matches
<1>4. ASSUME NEW r \in Requests, DodgeSettles(r) PROVE FALSE
  BY <1>0, <1>4 DEF DodgeSettles, At, Found
<1>5. ASSUME NEW r \in Requests, EndOrphan(r) PROVE FALSE
  <2>1. AtEnd(r) /\ req[r].op = "end" /\ req[r].at = "held" /\ req[r].mine = NoSet
    BY <1>5 DEF EndOrphan, Ending, At, AtEnd
  <2>2. req[r].arg # None
    BY <1>0, <2>1 DEF Counting
  <2>. QED
    BY <1>0, <2>1, <2>2 DEF Found, Closed
<1>6. ASSUME NEW r \in Requests, NEW g \in Games \cap crash, EndMatch(r, g) PROVE FALSE
  <2>1. game[g] \in {"made", "started"}
    BY <1>6 DEF EndMatch, Fits
  <2>. QED
    BY <1>0, <2>1, OnlyLast DEF Clean
<1>. QED
  BY <1>0, <1>1, <1>2, <1>3, <1>4, <1>5, <1>6, PointersStep DEF Quiet

LEMMA QuietStep ==
  ASSUME Typed, Fits, InTurn, Quiet, Found, Counting, Plain, [Next]_vars
  PROVE  Quiet'
<1> SUFFICES ASSUME ~Closed', game'[Current'] # "ended"
             PROVE  /\ Current' # 1 /\ game'[Current'] # "ending" => \A s \in Copies' : s.played \in dedup'
                    /\ Clean' \/ Current' = 1 =>
                          checkins' = {} /\ known' = AtGame' /\ \A r \in Requests : req'[r].at # "counted"
                    /\ Clean' => \A p \in Players : ptr'[p]
  BY DEF Quiet
<1>0. ~Closed /\ Current \in Games
  BY ClosedStep, CurrentGame DEF Typed
<1>g. game \in [Games -> {"none", "made", "failed", "started", "ending", "ended"}]
  BY DEF Typed, MatchesOK
<1>1. ASSUME NEW r \in Requests, CheckinNext(r), Current' # Current
      PROVE  /\ \A s \in Copies' : s.played \in dedup'
             /\ checkins' = {} /\ known' = AtGame' /\ \A s \in Requests : req'[s].at # "counted"
             /\ \A p \in Players : ptr'[p]
  <2>1. /\ Current' = Current + 1 /\ Current + 1 # 1 /\ checkins' = {} /\ known' = Current + 1 /\ \A p \in Players : ptr'[p]
        /\ rec' = [req[r].mine EXCEPT !.in = {}]
    BY <1>1, NextMakes
  <2>2. known' = AtGame'
    BY <2>1 DEF AtGame
  <2>3. lock = r /\ Finish(r) /\ dedup' = dedup \cup {req[r].mine.played} /\ req[r].mine # NoSet
    BY <1>1 DEF CheckinNext, Stays, Counted, At, Typed, LockOK, Locked, Fits
  <2>4. req'[r] = Idle /\ \A s \in Requests \ {r} : req'[s] = req[s] /\ req[s].at # "counted" /\ req[s].mine = NoSet
    BY <2>3, Finishes DEF Typed, LockOK, Locked
  <2>5. req[r].mine \in SetShape
    BY <2>3 DEF Typed, SetsOK, IsSet
  <2>6. rec'.played = req[r].mine.played
    BY <2>1, <2>5 DEF SetShape
  <2>7. \A s \in Requests : req'[s].mine = NoSet /\ req'[s].at # "counted"
    BY <2>4, IdleTyped
  <2>8. \A s \in Copies' : s = rec'
    BY <2>7 DEF Copies
  <2>. QED
    BY <2>1, <2>2, <2>3, <2>6, <2>7, <2>8
<1>2. CASE Current' = Current
  <2>1. game[Current] # "ended" /\ (game[Current] = "ending" => game'[Current] = "ending")
    BY <1>0, <1>2, GamesStep
  <2>2. ASSUME Current # 1, game'[Current] # "ending" PROVE \A s \in Copies' : s.played \in dedup'
    <3>1. \A s \in Copies : s.played \in dedup
      BY <1>0, <2>1, <2>2 DEF Quiet
    <3>2. ASSUME NEW r \in Requests, NEW g \in Games, EndMatch(r, g) PROVE FALSE
      <4>1. game[g] \in {"made", "started"} /\ (game' = [game EXCEPT ![g] = "ended"] \/ game' = [game EXCEPT ![g] = "ending"])
        BY <3>2 DEF EndMatch, Fits
      <4>2. g = Current
        BY <1>0, <4>1, OnlyLast
      <4>. QED
        BY <1>0, <1>2, <1>g, <2>2, <4>1, <4>2
    <3>3. ASSUME NEW r \in Requests, EndContinues(r) PROVE FALSE
      <4>1. AtEnd(r) /\ req[r].game \in Games
        BY <3>3 DEF EndContinues, Ending, At, AtEnd, Typed, ReqsOK, Carries
      <4>2. game[req[r].game] = "ending"
        BY <4>1 DEF Fits
      <4>3. req[r].game = Current
        BY <1>0, <4>1, <4>2, OnlyLast
      <4>. QED
        BY <2>1, <2>2, <4>2, <4>3
    <3>. QED
      BY <3>1, <3>2, <3>3, DedupKept, CopiesStep
  <2>3. ASSUME Clean' \/ Current = 1
        PROVE  checkins' = {} /\ known' = AtGame' /\ \A r \in Requests : req'[r].at # "counted"
    <3>1. Clean \/ Current = 1
      BY <1>2, <2>3, CleanStep
    <3>2. checkins = {} /\ known = AtGame /\ \A r \in Requests : req[r].at # "counted"
      BY <1>0, <2>1, <3>1 DEF Quiet
    <3>3. AtGame' = AtGame
      BY <1>2 DEF AtGame
    <3>4. ASSUME NEW r \in Requests, AtCheckin(r), known = 0 \/ req[r].game = known PROVE FALSE
      BY <1>0, <2>1, <3>1, <3>4, NoneCounts
    <3>5. \A r \in Requests : req'[r].at # "counted"
      BY <3>2, <3>4, CountsNow
    <3>6. \A r \in Requests : ~CheckinNext(r)
      BY <1>0, <2>1, NextAfterLast
    <3>7. ASSUME NEW r \in Requests, CheckinCounts(r) PROVE known # 0 /\ req[r].game # known
      BY <3>4, <3>7 DEF CheckinCounts, At, AtCheckin
    <3>8. UNCHANGED <<checkins, known>> \/ (checkins' = {} /\ known' = 0)
      BY <3>6, <3>7, CheckinsStep
    <3>9. known' = known
      <4>1. CASE Current = 1
        BY <3>2, <3>8, <4>1 DEF AtGame
      <4>2. CASE Clean'
        BY <1>2, <2>1, <4>2, PointersStay
      <4>. QED
        BY <2>3, <4>1, <4>2
    <3>. QED
      BY <3>2, <3>3, <3>5, <3>8, <3>9
  <2>4. Clean' => \A p \in Players : ptr'[p]
    <3>1. ASSUME Clean' PROVE \A p \in Players : ptr[p]
      BY <1>0, <1>2, <2>1, <3>1, CleanStep DEF Quiet
    <3>. QED
      BY <1>2, <2>1, PointersStay, <3>1
  <2>. QED
    BY <1>2, <2>2, <2>3, <2>4
<1>. QED
  BY <1>1, <1>2, CurrentStep

\* Only a dodge calls a match off.
LEMMA OffBy ==
  ASSUME Typed, [Next]_vars, off' # off
  PROVE  \E r \in Requests : \E p \in Players : Dodges(r, p) /\ req'[r] # req[r]
<1>1. ASSUME NEW r \in Requests, Handler(r) PROVE UNCHANGED off
  BY <1>1 DEF Handler, TakeLock, Rate, CheckinCounts, CheckinCrashed, CheckinAlone, CheckinWaits, CheckinOver, CheckinNext, ConcedeSettles,
              FaceoffDrops, KeepReport, CountWinner, EndOrphan, EndResolved, EndOver, EndContinues, DodgeSettles, matches
<1>2. ASSUME NEW r \in Requests, NEW p \in Players, Concede(r, p) \/ Faceoff(r, p) PROVE UNCHANGED off
  BY <1>2 DEF Concede, Faceoff, matches
<1>3. ASSUME NEW r \in Requests, NEW p \in Players, NEW h \in Games, NEW w \in Players, Checkin(r, p, h) \/ Report(r, p, h, w)
      PROVE  UNCHANGED off
  BY <1>3 DEF Checkin, Report, matches
<1>4. ASSUME NEW r \in Requests, NEW h \in Games, EndMatch(r, h) PROVE UNCHANGED off
  BY <1>4 DEF EndMatch
<1>5. ASSUME NEW h \in Games, MatchStarted(h) \/ ServerError(h) PROVE UNCHANGED off
  BY <1>5 DEF MatchStarted, ServerError, matches
<1>6. ASSUME NEW p \in Players,
             Drops(p) \/ Returns(p) \/ Login(p) \/ CloseIgnored(p) \/ CloseBetween(p) \/ ServerFails(p) \/ LeavesMidGame(p)
      PROVE  UNCHANGED off
  BY <1>6 DEF Drops, Returns, Login, CloseIgnored, CloseBetween, ServerFails, LeavesMidGame, matches
<1>7. ASSUME NEW r \in Requests, NEW p \in Players, Dodges(r, p) PROVE req'[r] # req[r]
  <2>1. Free(r) /\ \E id : Begin(r, "dodge", "settle", p, Current, id)
    BY <1>7 DEF Dodges
  <2>2. req'[r].op = "dodge"
    BY <2>1 DEF Begin, Typed, ReqsOK
  <2>. QED
    BY <2>1, <2>2, IdleTyped DEF Free
<1>8. UNCHANGED vars => UNCHANGED off
  BY DEF vars, matches
<1>. QED
  BY <1>1, <1>2, <1>3, <1>4, <1>5, <1>6, <1>7, <1>8 DEF Next

LEMMA FoundStep ==
  ASSUME Typed, Fits, Quiet, Found, Plain, [Next]_vars
  PROVE  Found'
<1>1. ASSUME NEW r \in Requests, req'[r].at = "held", ~(req'[r].op = "end" /\ req'[r].arg = None), req'[r].mine = NoSet PROVE Over'
  <2>1. CASE req'[r] = req[r]
    BY <1>1, <2>1, ClosedStep DEF Found
  <2>2. CASE req'[r] # req[r]
    <3>1. TakeLock(r) /\ req'[r].op = req[r].op /\ req'[r].arg = req[r].arg /\ \A s \in Requests \ {r} : req'[s] = req[s]
      BY <1>1, <2>2, RequestStep, IdleTyped DEF Goes, Starts
    <3>2. ~(req[r].op = "end" /\ req[r].arg = None)
      BY <1>1, <3>1
    <3>3. rec' = rec /\ lock = None /\ req'[r].mine = rec
      BY <3>1, <3>2 DEF TakeLock, keys, Typed, ReqsOK, RequestType
    <3>4. \A s \in Requests : req[s].mine = NoSet
      BY <3>3, Constants1 DEF Typed, LockOK
    <3>. QED
      BY <1>1, <3>1, <3>3, <3>4 DEF Over
  <2>. QED
    BY <2>1, <2>2
\* A player of an open set whose last game is undecided has their pointer.
<1>2. ASSUME NEW r \in Requests, NEW p \in Players, Dodges(r, p), req'[r] # req[r] PROVE Closed'
  <2>1. elo'[IF ptr[p] THEN 1 ELSE Current] # "none" /\ Current \notin crash /\ game[Current] # "ended"
    BY <1>2, EloStep DEF Dodges, Undecided
  <2>2. CASE Closed
    BY <2>2, ClosedStep
  <2>3. CASE ~Closed
    <3>1. ptr[p]
      BY <2>1, <2>3 DEF Quiet, Clean
    <3>. QED
      BY <2>1, <3>1 DEF Closed
  <2>. QED
    BY <2>2, <2>3
<1>3. ASSUME NEW r \in Requests, req'[r].op = "dodge" PROVE Closed'
  BY <1>2, <1>3, Fate, ClosedStep DEF Found
<1>4. off' # {} => Closed'
  BY <1>2, OffBy, ClosedStep DEF Found
<1>. QED
  BY <1>1, <1>3, <1>4 DEF Found

\* The report of a started game is handled until it counts.
LEMMA ReportGoesOn ==
  ASSUME Typed, Fits, InTurn, Quiet, Found, Plain, [Next]_vars, ~Closed',
         NEW g \in Games \ crash, NEW q \in Requests, req[q].op = "report", req[q].game = g
  PROVE  counted'[g] # None \/ (req'[q].op = "report" /\ req'[q].game = g /\ req'[q].who = req[q].who)
<1>0. ~Closed /\ ~Over' /\ game[g] = "started" /\ g # 0
  BY ClosedStep, Constants1 DEF Closed, Fits
<1>1. CASE req'[q] = req[q]
  BY <1>1
<1>2. CASE req'[q] = Idle /\ Handler(q)
  <2>1. ~Rate(q)
    <3>1. ASSUME Rate(q) PROVE FALSE
      <4>1. lock = q /\ Drop /\ Finish(q)
        BY <3>1 DEF Rate, Typed, LockOK, Locked
      <4>. QED
        BY <1>0, <4>1, Ends
    <3>. QED
      BY <3>1
  <2>2. ~TakeLock(q)
    <3>1. LockOK'
      BY ReqsStep
    <3>. QED
      BY <1>2, <3>1, IdleTyped DEF TakeLock, LockOK, Locked
  <2>3. KeepReport(q) \/ CountWinner(q)
    BY <1>2, <2>1, <2>2 DEF Handler, CheckinCounts, CheckinCrashed, CheckinAlone, CheckinWaits, CheckinOver, CheckinNext, ConcedeSettles,
              FaceoffDrops, EndOrphan, EndResolved, EndOver, EndContinues, DodgeSettles, Counted, Stays, Ending, At
  <2>4. ASSUME KeepReport(q) PROVE FALSE
    <3>1. g = Current
      BY <1>0, OnlyLast
    <3>2. \A p \in Players : ptr[p]
      BY <1>0, <3>1 DEF Quiet, Clean
    <3>3. \E p \in Players : ptr[p]
      BY <3>2, Constants1
    <3> DEFINE x == [[req[q] EXCEPT !.at = "lock"] EXCEPT !.arg = Resolve(KeptNow(req[q]))]
    <3>4. req' = [req EXCEPT ![q] = x]
      BY <2>4, <3>3 DEF KeepReport, KeptNow
    <3>5. x.at = "lock"
      BY DEF Typed, ReqsOK, RequestType
    <3>. HIDE DEF x
    <3>6. req'[q] = x
      BY <3>4 DEF Typed, ReqsOK
    <3>. QED
      BY <1>2, <3>5, <3>6, IdleTyped
  <2>5. ASSUME CountWinner(q) PROVE counted'[g] # None
    <3>1. req[q].at = "held" /\ req[q].arg \in Players
      BY <2>5 DEF CountWinner, At, Typed, ReqsOK, Carries
    <3>2. req[q].mine # NoSet
      BY <1>0, <3>1 DEF Found, Closed
    <3>3. IF counted[g] = req[q].arg THEN counted' = counted ELSE counted' = [counted EXCEPT ![g] = req[q].arg]
      BY <2>5, <3>2 DEF CountWinner
    <3>. QED
      BY <3>1, <3>3, Constants1 DEF Typed, MarksOK
  <2>. QED
    BY <2>3, <2>4, <2>5
<1>3. CASE Goes(q)
  BY <1>0, <1>3 DEF Goes
<1>4. CASE Starts(q)
  BY <1>4, IdleTyped DEF Starts, Free
<1>. QED
  BY <1>1, <1>2, <1>3, <1>4, RequestStep

\* A game ends, by what Plain says of it, once every report of it has been answered.
LEMMA CountingStep ==
  ASSUME Typed, Fits, InTurn, Quiet, Found, Counting, Plain, [Next]_vars
  PROVE  Counting'
<1>1. ASSUME ~Closed', NEW g \in Games \ crash', game'[g] = "started", NEW i \in DOMAIN reports'[g]
      PROVE  counted'[g] # None \/ \E r \in Requests : req'[r].op = "report" /\ req'[r].game = g /\ req'[r].who = reports'[g][i].who
  <2>0. ~Closed /\ g \notin crash
    BY <1>1, ClosedStep, CrashKept
  <2>1. ASSUME i \in DOMAIN reports[g], reports'[g][i].who = reports[g][i].who
        PROVE  counted'[g] # None \/ \E r \in Requests : req'[r].op = "report" /\ req'[r].game = g /\ req'[r].who = reports'[g][i].who
    <3>1. game[g] = "started"
      BY <1>1, <2>1, GamesStep DEF Fits
    <3>2. CASE counted[g] # None
      BY <3>2, CountedStep
    <3>3. ASSUME NEW r \in Requests, req[r].op = "report", req[r].game = g, req[r].who = reports[g][i].who
          PROVE  counted'[g] # None \/ (req'[r].op = "report" /\ req'[r].game = g /\ req'[r].who = reports'[g][i].who)
      BY <1>1, <2>0, <2>1, <3>3, ReportGoesOn
    <3>. QED
      BY <2>0, <2>1, <3>1, <3>2, <3>3 DEF Counting
  <2>2. ASSUME NEW r \in Requests, NEW p \in Players, NEW w \in Players, Report(r, p, g, w),
               reports'[g] = Append(reports[g], [who |-> p, winner |-> w, kept |-> FALSE]), ~(i \in DOMAIN reports[g])
        PROVE  req'[r].op = "report" /\ req'[r].game = g /\ req'[r].who = reports'[g][i].who
    <3>1. reports[g] \in Seq(ReportType)
      BY DEF Typed, MatchesOK
    <3>2. reports'[g][i].who = p
      BY <1>1, <2>2, <3>1 DEF ReportType
    <3>3. req'[r].op = "report" /\ req'[r].game = g /\ req'[r].who = p
      BY <2>2 DEF Report, Begin, Typed, ReqsOK
    <3>. QED
      BY <3>2, <3>3
  <2>3. ASSUME NEW p \in Players, NEW w \in Players,
               reports'[g] = Append(reports[g], [who |-> p, winner |-> w, kept |-> FALSE]), i \in DOMAIN reports[g]
        PROVE  reports'[g][i].who = reports[g][i].who
    <3>1. reports[g] \in Seq(ReportType)
      BY DEF Typed, MatchesOK
    <3>. QED
      BY <2>3, <3>1
  <2>. QED
    BY <1>1, <2>1, <2>2, <2>3, ReportsStep
<1>2. ASSUME ~Closed', NEW r \in Requests, AtEnd(r)' PROVE req'[r].arg # None /\ counted'[req'[r].game] # None
  <2>0. ~Closed
    BY <1>2, ClosedStep
  <2>1. CASE AtEnd(r) /\ req'[r].game = req[r].game /\ req'[r].arg = req[r].arg
    <3>1. req[r].game \in Games
      BY <2>1 DEF AtEnd, Typed, ReqsOK, Carries
    <3>. QED
      BY <2>0, <2>1, <3>1, CountedStep DEF Counting
  <2>2. ASSUME NEW g \in Games, EndMatch(r, g), g \notin crash, req'[r].game = g PROVE req'[r].arg # None /\ counted'[g] # None
    <3>1. off = {}
      BY <2>0 DEF Found
    <3>2. game[g] = "started" /\ reports[g] # <<>> /\ \A q \in Requests : ~(req[q].op = "report" /\ req[q].game = g)
      BY <2>2, <3>1 DEF EndMatch, Fits, Plain
    <3>3. 1 \in DOMAIN reports[g]
      <4>1. reports[g] \in Seq(ReportType)
        BY DEF Typed, MatchesOK
      <4>. QED
        BY <3>2, <4>1
    <3>4. counted[g] # None
      BY <2>0, <2>2, <3>2, <3>3 DEF Counting
    <3>5. g = Current
      BY <2>0, <3>2, OnlyLast
    <3>6. ptr[0]
      BY <2>0, <2>2, <3>2, <3>5, Constants1 DEF Quiet, Clean
    <3>7. req'[r].arg = 1
      BY <2>2, <3>6 DEF EndMatch, Begin, Typed, ReqsOK
    <3>. QED
      BY <3>4, <3>7, CountedStep, Constants1
  <2>. QED
    BY <1>2, <2>1, <2>2, Fate
<1>. QED
  BY <1>1, <1>2 DEF Counting

-----------------------------------------------------------------------------
(* What is played counts, and what is rated is won. *)

LEMMA ScoredFinite == IsFiniteSet(Scored) /\ Cardinality(Scored) \in Nat
<1>1. IsFiniteSet(Games)
  BY Constants1, FS_Interval DEF Games
<1>2. Scored \in SUBSET Games
  BY DEF Scored
<1>. QED
  BY <1>1, <1>2, FS_Subset, FS_CardinalityType

\* A game's end that goes on is of a game that counts by then.
LEMMA EndsCounted ==
  ASSUME Typed, Fits, Counting, NEW r \in Requests, Ending(r), req[r].mine # NoSet, elo[1] = "none"
  PROVE  req[r].game \in Games \ Scored /\ counted[req[r].game] # None /\ game[req[r].game] = "ending"
<1>1. AtEnd(r) /\ req[r].game \in Games
  BY DEF Ending, At, AtEnd, Typed, ReqsOK, Carries
<1>2. ~Closed
  BY DEF Closed, Over
<1>. QED
  BY <1>1, <1>2 DEF Fits, Counting, Scored

LEMMA PlayedStep ==
  ASSUME Typed, Fits, Counting, PlayedScored, [Next]_vars
  PROVE  PlayedScored'
<1> SUFFICES ASSUME NEW s \in Copies' PROVE s.played <= Cardinality(Scored')
  BY DEF PlayedScored
<1>f. IsFiniteSet(Scored') /\ Cardinality(Scored') \in Nat
  <2>1. IsFiniteSet(Games)
    BY Constants1, FS_Interval DEF Games
  <2>2. Scored' \in SUBSET Games
    BY DEF Scored
  <2>. QED
    BY <2>1, <2>2, FS_Subset, FS_CardinalityType
<1>s. Scored \subseteq Scored'
  BY GamesStep, CountedStep DEF Scored
<1>c. Cardinality(Scored) <= Cardinality(Scored')
  <2>1. Scored \in SUBSET Scored'
    BY <1>s
  <2>. QED
    BY <1>f, <2>1, FS_Subset
<1>t. \A t \in Copies : t.played \in Nat
  <2>1. \A t \in SetShape : t.played \in Nat
    BY DEF SetShape
  <2>. QED
    BY <2>1 DEF Copies, Typed, SetsOK, IsSet
<1>1. ASSUME NEW t \in Copies, s.played = t.played PROVE s.played <= Cardinality(Scored')
  <2>1. t.played <= Cardinality(Scored)
    BY DEF PlayedScored
  <2>. QED
    BY <1>f, <1>c, <1>t, <1>1, <2>1, ScoredFinite
<1>2. ASSUME NEW r \in Requests, EndContinues(r), req[r].mine \in Copies, s.played = req[r].mine.played + 1
      PROVE  s.played <= Cardinality(Scored')
  <2> DEFINE g == req[r].game
  <2>1. g \in Games \ Scored /\ counted[g] # None
    BY <1>2, EndsCounted DEF EndContinues
  <2>2. g \in Scored'
    <3>1. game' = [game EXCEPT ![g] = "ended"]
      BY <1>2 DEF EndContinues, Ending
    <3>2. game'[g] = "ended" /\ counted'[g] # None
      BY <2>1, <3>1, CountedStep DEF Typed, MatchesOK
    <3>. QED
      BY <2>1, <3>2 DEF Scored
  <2>3. Cardinality(Scored \cup {g}) = Cardinality(Scored) + 1
    BY <2>1, ScoredFinite, FS_AddElement
  <2>4. Cardinality(Scored \cup {g}) <= Cardinality(Scored')
    <3>1. Scored \cup {g} \in SUBSET Scored'
      BY <1>s, <2>2
    <3>. QED
      BY <1>f, <3>1, FS_Subset
  <2>5. req[r].mine.played <= Cardinality(Scored)
    BY <1>2 DEF PlayedScored
  <2>. QED
    BY <1>f, <1>t, <1>2, <2>3, <2>4, <2>5, ScoredFinite
<1>. QED
  BY <1>1, <1>2, CopiesStep

\* Three games that count are two for the team that leads.
LEMMA ThreeCount ==
  ASSUME Typed, NEW g \in Games \ Scored, counted[g] # None, Cardinality(Scored) >= 2
  PROVE  Points(0) + Points(1) >= 3
<1>1. Cardinality(Scored \cup {g}) = Cardinality(Scored) + 1
  BY ScoredFinite, FS_AddElement
<1>2. Scored \cup {g} \in SUBSET (PointsOf(0) \cup PointsOf(1))
  <2>1. ASSUME NEW h \in Games, counted[h] # None PROVE h \in PointsOf(0) \cup PointsOf(1)
    BY <2>1, Constants1 DEF PointsOf, Typed, MarksOK
  <2>2. \A h \in Scored \cup {g} : h \in Games /\ counted[h] # None
    BY DEF Scored
  <2>. QED
    BY <2>1, <2>2
<1>3. /\ IsFiniteSet(PointsOf(0) \cup PointsOf(1))
      /\ Cardinality(PointsOf(0) \cup PointsOf(1)) = Points(0) + Points(1) - Cardinality(PointsOf(0) \cap PointsOf(1))
  BY PointsBounded, FS_Union DEF Points
<1>4. Cardinality(PointsOf(0) \cap PointsOf(1)) \in Nat
  <2>1. PointsOf(0) \cap PointsOf(1) \in SUBSET PointsOf(0)
    OBVIOUS
  <2>. QED
    BY <2>1, PointsBounded, FS_Subset, FS_CardinalityType
<1>5. Cardinality(Scored \cup {g}) <= Cardinality(PointsOf(0) \cup PointsOf(1))
  BY <1>2, <1>3, FS_Subset
<1>. QED
  BY <1>1, <1>3, <1>4, <1>5, PointsBounded, ScoredFinite

\* Who leads a set that is over has won two games.
LEMMA LeaderWon ==
  ASSUME Typed, NEW s, s.score[0] = Points(0), s.score[1] = Points(1), Won(s) \/ Points(0) + Points(1) >= 3
  PROVE  Points(Leads(s)) >= 2
<1>1. Points(0) \in Nat /\ Points(1) \in Nat
  BY PointsBounded
<1>2. Points(0) >= 2 \/ Points(1) >= 2 \/ Points(0) + Points(1) >= 3
  BY DEF Won, Players
<1>3. Leads(s) = IF Points(0) > Points(1) THEN 0 ELSE 1
  BY DEF Leads
<1>4. CASE Points(0) > Points(1)
  BY <1>1, <1>2, <1>3, <1>4
<1>5. CASE ~(Points(0) > Points(1))
  BY <1>1, <1>2, <1>3, <1>5
<1>. QED
  BY <1>4, <1>5

\* A request that goes on to rate carries what it claimed.
LEMMA ClaimsOutcome ==
  ASSUME Typed, NEW r \in Requests, NEW why, NEW x, Settle(r, why, x), req'[r].at = "rate"
  PROVE  req'[r].arg = x
<1>1. ~Finish(r)
  BY Finishes, IdleTyped DEF Typed
<1>2. req' = [req EXCEPT ![r].at = "rate", ![r].arg = x]
  BY <1>1 DEF Settle
<1>3. req' = [req EXCEPT ![r] = [[@ EXCEPT !.at = "rate"] EXCEPT !.arg = x]]
  BY <1>2, Zenon
<1>4. req'[r] = [[req[r] EXCEPT !.at = "rate"] EXCEPT !.arg = x] /\ req[r] \in RequestType
  BY <1>3 DEF Typed, ReqsOK
<1>. QED
  BY <1>4 DEF RequestType

\* What a request claims to rate.
LEMMA ClaimsWon ==
  ASSUME Typed, Fits, Counting, PlayedScored, [Next]_vars, NEW r \in Requests, elo[1] = "none",
         CheckinAlone(r) \/ CheckinOver(r) \/ ConcedeSettles(r) \/ EndOver(r), req'[r].at = "rate"
  PROVE  \E w \in Players, c \in Players \cup {None} :
            req'[r].arg = Outcome(1, w, c) /\ (c = None => Points(w) >= 2) /\ UNCHANGED counted
<1>s. ASSUME NEW why, NEW x, Settle(r, why, x) PROVE req'[r].arg = x
  BY <1>s, ClaimsOutcome
<1>l. Leads(req[r].mine) \in Players /\ Leads(After(r)) \in Players
  BY Constants1 DEF Leads
<1>m. req[r].mine # NoSet => /\ req[r].mine \in SetShape
                             /\ req[r].mine.score[0] = Points(0) /\ req[r].mine.score[1] = Points(1)
  BY Constants1 DEF Typed, SetsOK, IsSet
<1>n. req[r].mine # NoSet => req[r].mine.played \in 0 .. 2 /\ req[r].mine.conceder \in Players \cup {None}
  BY <1>m DEF SetShape
<1>1. CASE CheckinAlone(r)
  <2>1. req[r].who \in Players
    BY <1>1 DEF CheckinAlone, Counted, At, Typed, ReqsOK, Carries
  <2>2. Settle(r, "disconnect_concede", Outcome(1, req[r].who, Other(req[r].who))) /\ Other(req[r].who) \in Players
    BY <1>1, <2>1, Constants1 DEF CheckinAlone
  <2>3. req'[r].arg = Outcome(1, req[r].who, Other(req[r].who))
    BY <1>s, <2>2
  <2>. QED
    BY <1>1, <2>1, <2>2, <2>3, Constants1 DEF CheckinAlone
<1>2. CASE ConcedeSettles(r)
  <2>1. req[r].who \in Players
    BY <1>2 DEF ConcedeSettles, At, Typed, ReqsOK, Carries
  <2>2. ~Finish(r)
    BY IdleTyped, Finishes DEF Typed
  <2>3. Settle(r, "concede", Outcome(1, Other(req[r].who), req[r].who)) /\ Other(req[r].who) \in Players
    BY <1>2, <2>1, <2>2, Constants1 DEF ConcedeSettles
  <2>4. req'[r].arg = Outcome(1, Other(req[r].who), req[r].who)
    BY <1>s, <2>3
  <2>. QED
    BY <1>2, <2>1, <2>3, <2>4, Constants1 DEF ConcedeSettles
<1>3. CASE CheckinOver(r)
  <2>1. req[r].mine # NoSet
    BY <1>3 DEF CheckinOver, Stays, Counted, At, Fits
  <2>2. Settle(r, "set_over", Outcome(1, Leads(req[r].mine), req[r].mine.conceder)) /\ UNCHANGED counted
    BY <1>3 DEF CheckinOver
  <2>3. req'[r].arg = Outcome(1, Leads(req[r].mine), req[r].mine.conceder)
    BY <1>s, <2>2
  <2>4. req[r].mine.conceder = None => Won(req[r].mine)
    <3>1. req[r].mine.conceder # None \/ Won(req[r].mine) \/ req[r].mine.played >= 3
      BY <1>3 DEF CheckinOver
    <3>. QED
      BY <1>n, <2>1, <3>1
  <2>5. req[r].mine.conceder = None => Points(Leads(req[r].mine)) >= 2
    BY <1>m, <2>1, <2>4, LeaderWon
  <2>. QED
    BY <1>l, <1>n, <2>1, <2>2, <2>3, <2>5
<1>4. CASE EndOver(r)
  <2>1. req[r].mine # NoSet
    BY <1>4 DEF EndOver
  <2>2. Settle(r, "set_complete", Outcome(1, Leads(After(r)), None)) /\ UNCHANGED counted
    BY <1>4 DEF EndOver
  <2>3. req'[r].arg = Outcome(1, Leads(After(r)), None)
    BY <1>s, <2>2
  <2>4. After(r).score = req[r].mine.score /\ After(r).played = req[r].mine.played + 1
    BY <1>m, <2>1 DEF After, SetShape
  <2>5. Won(After(r)) \/ After(r).played >= 3
    BY <1>4 DEF EndOver
  <2>6. CASE After(r).played >= 3
    <3>1. req[r].mine.played = 2
      BY <1>n, <2>1, <2>4, <2>6
    <3>2. Cardinality(Scored) >= 2
      BY <2>1, <3>1 DEF PlayedScored, Copies
    <3>3. req[r].game \in Games \ Scored /\ counted[req[r].game] # None
      BY <1>4, <2>1, EndsCounted DEF EndOver
    <3>4. Points(0) + Points(1) >= 3
      BY <3>2, <3>3, ThreeCount
    <3>5. Points(Leads(After(r))) >= 2
      BY <1>m, <2>1, <2>4, <3>4, LeaderWon
    <3>. QED
      BY <1>l, <2>2, <2>3, <3>5
  <2>7. CASE Won(After(r))
    <3>1. Points(Leads(After(r))) >= 2
      BY <1>m, <2>1, <2>4, <2>7, LeaderWon
    <3>. QED
      BY <1>l, <2>2, <2>3, <3>1
  <2>. QED
    BY <2>5, <2>6, <2>7
<1>. QED
  BY <1>1, <1>2, <1>3, <1>4

\* A rating under way waits for no count: who rates has the lock.
LEMMA EarnedStep ==
  ASSUME Typed, Fits, Counting, PlayedScored, Earned, [Next]_vars
  PROVE  Earned'
<1> DEFINE Points1(t) == Cardinality({g \in Games : counted'[g] = t})
<1>p. counted' = counted => \A t : Points1(t) = Points(t)
  BY DEF Points, PointsOf
<1>1. ASSUME NEW r \in Requests, req'[r].at = "rate", req'[r].arg.conceder = None PROVE Points1(req'[r].arg.winner) >= 2
  <2>1. CASE req'[r] = req[r]
    <3>1. Points(req[r].arg.winner) >= 2
      BY <1>1, <2>1 DEF Earned, WonBy
    <3>2. counted' = counted
      <4>1. \A q \in Requests : CountWinner(q) => q = r
        BY <1>1, <2>1 DEF CountWinner, At, Typed, LockOK, Locked
      <4>. QED
        BY <1>1, <2>1, <4>1, CountedStep DEF CountWinner, At
    <3>. QED
      BY <1>p, <2>1, <3>1, <3>2
  <2>2. CASE req'[r] # req[r]
    <3>1. (CheckinAlone(r) \/ CheckinOver(r) \/ ConcedeSettles(r) \/ EndOver(r)) /\ elo[1] = "none"
      BY <1>1, <2>2, RequestStep, IdleTyped DEF Goes, Starts
    <3>2. PICK w \in Players, c \in Players \cup {None} :
             req'[r].arg = Outcome(1, w, c) /\ (c = None => Points(w) >= 2) /\ UNCHANGED counted
      BY <1>1, <3>1, ClaimsWon
    <3>3. req'[r].arg.winner = w /\ req'[r].arg.conceder = c
      BY <3>2 DEF Outcome
    <3>. QED
      BY <1>1, <1>p, <3>2, <3>3
  <2>. QED
    BY <2>1, <2>2
\* What was rated on its score is over, and nothing counts any more.
<1>2. ASSUME NEW i \in DOMAIN rated, rated[i].conceder = None PROVE Points1(rated[i].winner) >= 2 /\ Over'
  <2>1. Points(rated[i].winner) >= 2 /\ Over
    BY <1>2 DEF Earned, WonBy
  <2>2. counted' = counted
    BY <2>1, CountedStep DEF Over
  <2>. QED
    BY <1>p, <2>1, <2>2, ClosedStep
<1>3. ASSUME NEW r \in Requests, Rate(r), req[r].arg.conceder = None PROVE Points1(req[r].arg.winner) >= 2 /\ Over'
  <2>1. lock = r /\ Drop /\ Finish(r) /\ req[r].at = "rate" /\ counted' = counted
    BY <1>3 DEF Rate, Typed, LockOK, Locked, marks
  <2>2. Points(req[r].arg.winner) >= 2
    BY <1>3, <2>1 DEF Earned, WonBy
  <2>. QED
    BY <1>p, <2>1, <2>2, Ends
<1>4. ASSUME NEW i \in DOMAIN rated', rated'[i].conceder = None PROVE Points1(rated'[i].winner) >= 2 /\ Over'
  <2>1. CASE rated' = rated
    BY <1>2, <1>4, <2>1
  <2>2. CASE rated' # rated
    <3>1. PICK r \in Requests, x \in OutcomeType :
             (Rate(r) \/ DodgeSettles(r)) /\ rated' = Append(rated, x)
      BY <2>2, RatedStep
    <3>2. rated \in Seq(OutcomeType)
      BY DEF Typed, RatedOK
    <3>3. CASE i \in DOMAIN rated
      <4>1. rated'[i] = rated[i]
        BY <3>1, <3>2, <3>3
      <4>. QED
        BY <1>2, <1>4, <3>3, <4>1
    <3>4. CASE i \notin DOMAIN rated
      <4>1. rated'[i] = x
        BY <1>4, <3>1, <3>2, <3>4
      <4>2. CASE Rate(r)
        <5>1. rated' = Append(rated, req[r].arg) /\ req[r].arg \in OutcomeType
          BY <2>2, <4>2 DEF Rate, Typed, ReqsOK, Carries
        <5>2. rated'[i] = req[r].arg
          BY <1>4, <3>2, <3>4, <5>1
        <5>. QED
          BY <1>3, <1>4, <4>2, <5>2
      <4>3. CASE DodgeSettles(r)
        <5> DEFINE y == Outcome(req[r].arg, Other(req[r].who), req[r].who)
        <5>1. rated' = Append(rated, y) /\ req[r].who \in Players /\ req[r].arg \in Games
          BY <4>3 DEF DodgeSettles, At, Typed, ReqsOK, Carries
        <5>2. y \in OutcomeType /\ y.conceder # None
          BY <5>1, Constants1 DEF Outcome, OutcomeType
        <5>. HIDE DEF y
        <5>3. rated'[i] = y
          BY <1>4, <3>2, <3>4, <5>1, <5>2
        <5>. QED
          BY <1>4, <5>2, <5>3
      <4>. QED
        BY <3>1, <4>2, <4>3
    <3>. QED
      BY <3>3, <3>4
  <2>. QED
    BY <2>1, <2>2
<1>. QED
  BY <1>1, <1>4 DEF Earned, WonBy, Points, PointsOf

-----------------------------------------------------------------------------
LEMMA WonInit ==
  ASSUME Init
  PROVE  Inv
<1>1. Typed
  BY TypedInit
<1>2. Current = 1
  <2> DEFINE c == Current
  <2>1. c \in Games /\ game[c] # "none" /\ game = [g \in Games |-> IF g = 1 THEN "made" ELSE "none"]
    BY <1>1, CurrentGame DEF Init, Typed
  <2>. HIDE DEF c
  <2>2. c = 1
    BY <2>1
  <2>. QED
    BY <2>2 DEF c
<1>3. /\ game = [g \in Games |-> IF g = 1 THEN "made" ELSE "none"] /\ reports = [g \in Games |-> <<>>]
      /\ crash = {} /\ off = {} /\ rated = <<>> /\ checkins = {} /\ known = 0 /\ ptr = [p \in Players |-> TRUE]
  BY DEF Init
<1>4. \A r \in Requests : req[r] = Idle
  BY DEF Init
<1>5. Fits
  BY <1>3, <1>4, IdleTyped DEF Fits, AtEnd, AtCheckin
<1>6. InTurn
  BY <1>2 DEF InTurn, Games
<1>7. Quiet
  BY <1>2, <1>3, <1>4, IdleTyped DEF Quiet, AtGame
<1>8. Found
  BY <1>3, <1>4, IdleTyped DEF Found
<1>9. Counting
  BY <1>3, <1>4, IdleTyped DEF Counting, AtEnd
<1>10. PlayedScored
  <2>1. rec.played = 0
    BY DEF Init
  <2>2. \A s \in Copies : s = rec
    BY <1>4, IdleTyped DEF Copies
  <2>. QED
    BY <2>1, <2>2, ScoredFinite DEF PlayedScored
<1>11. Earned
  BY <1>3, <1>4, IdleTyped DEF Earned
<1>. QED
  BY <1>5, <1>6, <1>7, <1>8, <1>9, <1>10, <1>11 DEF Inv

\* A set is rated on its score only with two of its games counted for the winner:
\* however the reports, the check-ins, the games' ends and the claims of several
\* requests come together, and with leaves, dodges, concedes, crashes and late
\* check-ins (GameEndedAsync, SetOverAsync, RecordWinnerAsync).  A game that ends
\* before its report is answered, an opponent that never loads and a player who
\* starts the game again each make it fail: the set then counts a game played that
\* nobody has a point of.
THEOREM WinnerWonHolds ==
  ASSUME Behaviours \cap {"early", "faceoff", "login"} = {}
  PROVE  Spec => []WinnerWon
<1>1. Init => Typed /\ Inv
  BY TypedInit, WonInit
<1>2. Typed /\ Inv /\ [Next]_vars => Typed' /\ Inv'
  <2> SUFFICES ASSUME Typed, Inv, [Next]_vars PROVE Typed' /\ Inv'
    OBVIOUS
  <2>. QED
    BY TypedStep, FitsStep, InTurnStep, QuietStep, FoundStep, CountingStep, PlayedStep, EarnedStep DEF Inv, Plain
<1>3. Inv => WinnerWon
  BY DEF Inv, Earned, WonBy, WinnerWon, Points, PointsOf
<1>. QED
  BY <1>1, <1>2, <1>3, PTL DEF Spec
=============================================================================
