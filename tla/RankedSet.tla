----------------------------- MODULE RankedSet ------------------------------
(***************************************************************************)
(* One ranked best-of-3 set between two players, from the game the          *)
(* matchmaker made to the set's rating: RankedSets (check-ins, concedes,    *)
(* faceoff timeouts, the score, a game's end, the next game) with what      *)
(* MatchStatusEvents, MatchResults, MatchEnd, the login and the queue do to  *)
(* the set's keys.  A player is named by the index of their team; a game by  *)
(* its number; the set's id is game 1's.                                    *)
(*                                                                         *)
(* A request is one HTTP request or event being handled, on any instance.   *)
(* What it does between two awaits that another request can see is a step:  *)
(* the pointer's read, the lock and the set's read, the writes, the rating. *)
(*                                                                         *)
(* Left out: check-ins that name no game (the game sends the one just        *)
(* played; without it the check-in counts for whichever the set is at, by the *)
(* code's header), the messages, the TTLs (10 min and more, against steps of *)
(* milliseconds; the lock's 10 s is not outlived), 2v2 teams (their players  *)
(* act as one), matches that do not count (RatedMatches), the queue's        *)
(* clean-up of a set its player is back from (EndRankedSetAsync) and with it *)
(* ranked_set_pending_winner, which only a set gone mid-game is opened from. *)
(***************************************************************************)
EXTENDS Naturals, Sequences, FiniteSets

CONSTANTS
    Requests,    \* requests that may be under way at once
    Behaviours,  \* what the players and the servers may do, beyond playing on
    MaxGames,    \* games that may be made: three, and one more if a set lost count
    MaxReports,  \* check-ins a player may send for one game (its timer sends one more)
    MaxFaults,   \* how often any of Behaviours may happen
    None

AllBehaviours ==
    {"stale", "early", "disagree", "concede", "faceoff", "drop", "gone", "lost", "said", "error", "login", "port"}

ASSUME SetAssumption ==
    /\ Behaviours \subseteq AllBehaviours
    /\ MaxGames \in 2 .. 4
    /\ MaxReports \in Nat
    /\ MaxFaults \in Nat
    /\ None \notin Requests \cup (0 .. 4)

VARIABLES
    rec,       \* ranked_set:{set}
    ptr,       \* player_ranked_set:{player} names the set
    checkins,  \* ranked_set_checkins:{set}
    known,     \* ranked_set_match:{set}, 0 when there is none
    crashed,   \* ranked_set_crashed:{set}
    counted,   \* ranked_set_score:{set}:{game}: the team the point went to
    toSet,     \* games with match_to_set:{game}
    dedup,     \* set_match_dedup:{set}:{gamesPlayed}
    elo,       \* elo_processed_set:{id}, by the game the id names
    flag,      \* ranked_disconnect:{player}: "none", "set" (this one), "other"
    crash,     \* games with match_server_crash:{game}
    game,      \* each game: "none", "made", "failed" (an opponent never loaded),
               \* "started", "ending" (match_end:{game}), "ended"
    reports,   \* match_results:{game}: the reports, by order; kept once written
    off,       \* games with match_called_off:{game}
    online,    \* online_players
    closing,   \* a websocket close of the player not handled yet: "none", "closed", "gone"
    away,      \* the player's game was started again: it is out of the set
    sent,      \* check-ins the player sent, by game
    lock,      \* ranked_set_lock:{set}
    req,       \* the requests under way
    rated,     \* the ratings made, in order
    faults

keys    == <<rec, ptr, checkins, known, crashed>>
marks   == <<counted, toSet, dedup, elo, flag, crash>>
matches == <<game, reports, off>>
people  == <<online, closing, away, sent>>
vars    == <<keys, marks, matches, people, lock, req, rated, faults>>

Players == {0, 1}
Games   == 1 .. MaxGames
Other(p) == 1 - p

NoSet == [played |-> 0, score |-> <<>>, in |-> {}, conceder |-> None]
Idle  == [op |-> "idle", at |-> "idle", who |-> None, game |-> 0, arg |-> None, mine |-> NoSet]

\* The match the players were last sent to.
Current == CHOOSE g \in Games : game[g] # "none" /\ (g = MaxGames \/ game[g + 1] = "none")

\* The matchmaker's set, its first game made and told to both players.  A flag
\* may be left of another set.
Init ==
    /\ rec = [played |-> 0, score |-> [t \in Players |-> 0], in |-> {}, conceder |-> None]
    /\ ptr = [p \in Players |-> TRUE]
    /\ checkins = {}
    /\ known = 0
    /\ crashed = FALSE
    /\ counted = [g \in Games |-> None]
    /\ toSet = {}
    /\ dedup = {}
    /\ elo = [g \in Games |-> "none"]
    /\ flag \in [Players -> IF "stale" \in Behaviours THEN {"none", "other"} ELSE {"none"}]
    /\ crash = {}
    /\ game = [g \in Games |-> IF g = 1 THEN "made" ELSE "none"]
    /\ reports = [g \in Games |-> <<>>]
    /\ off = {}
    /\ online = [p \in Players |-> TRUE]
    /\ closing = [p \in Players |-> "none"]
    /\ away = [p \in Players |-> FALSE]
    /\ sent = [p \in Players |-> [g \in Games |-> 0]]
    /\ lock = None
    /\ req = [r \in Requests |-> Idle]
    /\ rated = <<>>
    /\ faults = 0

At(r, op, at) == req[r].op = op /\ req[r].at = at
Free(r) == req[r] = Idle

Begin(r, op, at, p, g, arg) ==
    req' = [req EXCEPT ![r] = [op |-> op, at |-> at, who |-> p, game |-> g, arg |-> arg, mine |-> NoSet]]

\* Mutant of Finish: the lock is kept.
FinishLocked(r) ==
    /\ req' = [req EXCEPT ![r] = Idle]
    /\ UNCHANGED lock

\* The request is answered; SetLock.DisposeAsync releases the lock it took.
Finish(r) ==
    /\ req' = [req EXCEPT ![r] = Idle]
    /\ lock' = IF lock = r THEN None ELSE lock

May(what) ==
    /\ what \in Behaviours
    /\ faults < MaxFaults
    /\ faults' = faults + 1

\* Mutant of Crashed: only the set's id is asked for, game 1's.
CrashedFirst(g) == 1 \in crash

\* CrashedAsync.
Crashed(g) == {1, g} \cap crash # {}

NoFlags == [p \in Players |-> "none"]

\* DropAsync, but for the flags.
Drop ==
    /\ rec' = NoSet
    /\ ptr' = [p \in Players |-> FALSE]
    /\ checkins' = {}
    /\ known' = 0
    /\ crashed' = FALSE

-----------------------------------------------------------------------------
(* Every request on the set but a faceoff timeout waits for its lock. *)

\* LockAsync, then SetAsync (a game's end that found no set reads none).
TakeLock(r) ==
    /\ req[r].at = "lock"
    /\ lock = None
    /\ lock' = r
    /\ LET q == req[r] IN
       req' = [req EXCEPT ![r] = [q EXCEPT
                  !.at = "held",
                  !.game = IF q.game = 0 THEN (IF known = 0 THEN 1 ELSE known) ELSE q.game,
                  !.mine = IF q.op = "end" /\ q.arg = None THEN NoSet ELSE rec]]
    /\ UNCHANGED <<keys, marks, matches, people, rated, faults>>

\* Mutant of Settle: the key is written without asking for it (no NX).
SettleAnyway(r, why, outcome) ==
    /\ elo' = [elo EXCEPT ![1] = why]
    /\ req' = [req EXCEPT ![r].at = "rate", ![r].arg = outcome]
    /\ UNCHANGED <<keys, lock>>

\* elo_processed_set NX: the first goes on to rate the set, another only drops it.
Settle(r, why, outcome) ==
    IF elo[1] = "none"
    THEN /\ elo' = [elo EXCEPT ![1] = why]
         /\ req' = [req EXCEPT ![r].at = "rate", ![r].arg = outcome]
         /\ UNCHANGED <<keys, lock>>
    ELSE /\ Drop
         /\ Finish(r)
         /\ UNCHANGED elo

\* A rating: the elo_processed_set id it was claimed under, who won, who conceded.
Outcome(id, winner, conceder) == [id |-> id, winner |-> winner, conceder |-> conceder]

\* RateAndAnnounceAsync, its look for a crash (line 631) and the rating as one step
\* (SetOverAsync's own rating asks no crash), then DropAsync.
Rate(r) ==
    /\ req[r].at = "rate"
    /\ rated' = IF req[r].op # "end" /\ Crashed(req[r].game) THEN rated ELSE Append(rated, req[r].arg)
    /\ Drop
    /\ Finish(r)
    /\ UNCHANGED <<marks, matches, people, faults>>

-----------------------------------------------------------------------------
(* CheckinAsync *)

\* The player's own report of game g was answered: their post-match screen.
Played(p, g) ==
    /\ \E i \in DOMAIN reports[g] : reports[g][i].who = p
    /\ \A r \in Requests : ~(req[r].op = "report" /\ req[r].who = p)

\* match_set_checkin, or match_set_absent: after game g, from a game still in
\* the set, perhaps late.
Checkin(r, p, g) ==
    /\ Free(r)
    /\ Played(p, g)
    /\ game[g] = "ended" \/ ("early" \in Behaviours /\ game[g] = "ending")
    /\ ~away[p]
    /\ sent[p][g] < MaxReports
    /\ sent' = [sent EXCEPT ![p][g] = @ + 1]
    /\ IF ptr[p] THEN Begin(r, "checkin", "lock", p, g, None) ELSE UNCHANGED req
    /\ UNCHANGED <<keys, marks, matches, online, closing, away, lock, rated, faults>>

\* Mutant of CheckinCounts: a check-in for another game counts too.
CountsAnyGame(r) ==
    /\ At(r, "checkin", "held")
    /\ LET q == req[r]
           in == checkins \cup {q.who}
           set == IF q.who \in checkins THEN q.mine ELSE [q.mine EXCEPT !.in = in]
           now == IF known # 0 THEN known ELSE IF q.game \in toSet THEN q.game ELSE 1
       IN IF q.mine = NoSet
          THEN Finish(r) /\ UNCHANGED keys
          ELSE /\ checkins' = in
               /\ rec' = IF q.who \in checkins THEN rec ELSE set
               /\ req' = [req EXCEPT ![r] = [@ EXCEPT !.at = "counted", !.game = now, !.arg = Cardinality(in), !.mine = set]]
               /\ UNCHANGED <<ptr, known, crashed, lock>>
    /\ UNCHANGED <<marks, matches, people, rated, faults>>

\* Mutant of CheckinCounts: the count is the stored list's, not the members'.
CountsListed(r) ==
    /\ At(r, "checkin", "held")
    /\ LET q == req[r]
           in == checkins \cup {q.who}
           set == IF q.who \in checkins THEN q.mine ELSE [q.mine EXCEPT !.in = in]
           now == IF known # 0 THEN known ELSE IF q.game \in toSet THEN q.game ELSE 1
       IN IF q.mine = NoSet \/ (known # 0 /\ q.game # known)
          THEN Finish(r) /\ UNCHANGED keys
          ELSE /\ checkins' = in
               /\ rec' = IF q.who \in checkins THEN rec ELSE set
               /\ req' = [req EXCEPT ![r] = [@ EXCEPT !.at = "counted", !.game = now, !.arg = Cardinality(q.mine.in \cup {q.who}), !.mine = set]]
               /\ UNCHANGED <<ptr, known, crashed, lock>>
    /\ UNCHANGED <<marks, matches, people, rated, faults>>

\* Counted once per player, for the game the set is at: SADD, and the set's
\* list written back.  Every check-in here names its game (ContainerMatchId).
CheckinCounts(r) ==
    /\ At(r, "checkin", "held")
    /\ LET q == req[r]
           in == checkins \cup {q.who}
           set == IF q.who \in checkins THEN q.mine ELSE [q.mine EXCEPT !.in = in]
           now == IF known # 0 THEN known ELSE IF q.game \in toSet THEN q.game ELSE 1
       IN IF q.mine = NoSet \/ (known # 0 /\ q.game # known)
          THEN Finish(r) /\ UNCHANGED keys
          ELSE /\ checkins' = in
               /\ rec' = IF q.who \in checkins THEN rec ELSE set
               /\ req' = [req EXCEPT ![r] = [@ EXCEPT !.at = "counted", !.game = now, !.arg = Cardinality(in), !.mine = set]]
               /\ UNCHANGED <<ptr, known, crashed, lock>>
    /\ UNCHANGED <<marks, matches, people, rated, faults>>

Counted(r) == At(r, "checkin", "counted")
IsCrash(r) == crashed \/ Crashed(req[r].game)

\* The other player's flag names this set, and they are not online.
Gone(r) == LET q == Other(req[r].who) IN flag[q] = "set" /\ ~online[q]

\* A crash drops the set for everyone, unrated.
CheckinCrashed(r) ==
    /\ Counted(r)
    /\ IsCrash(r)
    /\ Drop
    /\ flag' = NoFlags
    /\ Finish(r)
    /\ UNCHANGED <<counted, toSet, dedup, elo, crash, matches, people, rated, faults>>

\* The other player left: they concede.
CheckinAlone(r) ==
    /\ Counted(r)
    /\ ~IsCrash(r)
    /\ Gone(r)
    /\ LET q == Other(req[r].who) IN
       /\ flag' = [flag EXCEPT ![q] = "none"]
       /\ Settle(r, "disconnect_concede", Outcome(1, req[r].who, q))
    /\ UNCHANGED <<counted, toSet, dedup, crash, matches, people, rated, faults>>

\* Any other flag of theirs is stale.
Stays(r) ==
    /\ Counted(r)
    /\ ~IsCrash(r)
    /\ ~Gone(r)
    /\ flag' = [flag EXCEPT ![Other(req[r].who)] = "none"]

AllIn(r) == req[r].arg = 2 /\ req[r].mine.played \notin dedup

CheckinWaits(r) ==
    /\ Stays(r)
    /\ ~AllIn(r)
    /\ Finish(r)
    /\ UNCHANGED <<keys, counted, toSet, dedup, elo, crash, matches, people, rated, faults>>

\* Mutant of Leads: the team with fewer wins.
Trails(set) == IF set.score[0] < set.score[1] THEN 0 ELSE 1

\* The winner of a set on its score: team 1 when they are even.
Leads(set) == IF set.score[0] > set.score[1] THEN 0 ELSE 1
Won(set) == \E t \in Players : set.score[t] >= 2

\* set_match_dedup NX, then a set that is over is rated and dropped.
CheckinOver(r) ==
    /\ Stays(r)
    /\ AllIn(r)
    /\ LET set == req[r].mine IN
       /\ set.conceder # None \/ Won(set) \/ set.played >= 3
       /\ dedup' = dedup \cup {set.played}
       /\ Settle(r, "set_over", Outcome(1, Leads(set), set.conceder))
    /\ UNCHANGED <<counted, toSet, crash, matches, people, rated, faults>>

\* NextGameAsync, unless no rollback port was left.
CheckinNext(r) ==
    /\ Stays(r)
    /\ AllIn(r)
    /\ LET set == req[r].mine
           g == Current + 1
       IN /\ set.conceder = None /\ ~Won(set) /\ set.played < 3
          /\ dedup' = dedup \cup {set.played}
          /\ \/ /\ g \in Games
                /\ rec' = [set EXCEPT !.in = {}]
                /\ checkins' = {}
                /\ ptr' = [p \in Players |-> TRUE]
                /\ known' = g
                /\ toSet' = toSet \cup {g}
                /\ game' = [game EXCEPT ![g] = "made"]
                /\ UNCHANGED faults
             \/ May("port") /\ UNCHANGED <<rec, checkins, ptr, known, toSet, game>>
    /\ Finish(r)
    /\ UNCHANGED <<crashed, counted, elo, crash, reports, off, people, rated>>

-----------------------------------------------------------------------------
(* The other requests of the players. *)

\* match_set_concede, from the post-match screen.
Concede(r, p) ==
    /\ Free(r)
    /\ game[Current] = "ended"
    /\ Played(p, Current)
    /\ ptr[p]
    /\ ~away[p]
    /\ May("concede")
    /\ Begin(r, "concede", "lock", p, 0, None)
    /\ UNCHANGED <<keys, marks, matches, people, lock, rated>>

ConcedeSettles(r) ==
    /\ At(r, "concede", "held")
    /\ IF req[r].mine = NoSet
       THEN Finish(r) /\ UNCHANGED <<keys, elo>>
       ELSE Settle(r, "concede", Outcome(1, Other(req[r].who), req[r].who))
    /\ UNCHANGED <<counted, toSet, dedup, flag, crash, matches, people, rated, faults>>

\* faceoff_timeout: the opponent never loaded into the match.  It takes no lock.
Faceoff(r, p) ==
    /\ Free(r)
    /\ game[Current] = "made"
    /\ ptr[p] /\ rec # NoSet
    /\ ~away[p]
    /\ May("faceoff")
    /\ game' = [game EXCEPT ![Current] = "failed"]
    /\ Begin(r, "faceoff", "drop", p, 0, None)
    /\ UNCHANGED <<keys, marks, reports, off, people, lock, rated>>

FaceoffDrops(r) ==
    /\ At(r, "faceoff", "drop")
    /\ Drop
    /\ flag' = NoFlags
    /\ Finish(r)
    /\ UNCHANGED <<counted, toSet, dedup, elo, crash, matches, people, rated, faults>>

\* submit_end_of_match_stats: the report takes its place in the order (#order).
\* The two games simulated the same match, unless they came apart.
Report(r, p, g, w) ==
    /\ Free(r)
    /\ game[g] = "started"
    /\ ~away[p]
    /\ \A i \in DOMAIN reports[g] : reports[g][i].who # p
    /\ IF \A i \in DOMAIN reports[g] : reports[g][i].winner = w THEN UNCHANGED faults ELSE May("disagree")
    /\ reports' = [reports EXCEPT ![g] = Append(@, [who |-> p, winner |-> w, kept |-> FALSE])]
    /\ Begin(r, "report", "keep", p, g, None)
    /\ UNCHANGED <<keys, marks, game, off, people, lock, rated>>

\* MatchWinner.Resolve, with no spectator: the first of those kept.
Resolve(s) ==
    LET kept == {i \in DOMAIN s : s[i].kept} IN
    s[CHOOSE i \in kept : \A j \in kept : i <= j].winner

\* The report is kept, the winner decided from those kept so far; then
\* RecordWinnerAsync, for the set of a player that is in one.
KeepReport(r) ==
    /\ At(r, "report", "keep")
    /\ LET q == req[r]
           now == [i \in DOMAIN reports[q.game] |->
                      IF reports[q.game][i].who = q.who THEN [reports[q.game][i] EXCEPT !.kept = TRUE] ELSE reports[q.game][i]]
       IN /\ reports' = [reports EXCEPT ![q.game] = now]
          /\ IF \E p \in Players : ptr[p]
             THEN req' = [req EXCEPT ![r] = [@ EXCEPT !.at = "lock", !.arg = Resolve(now)]] /\ UNCHANGED lock
             ELSE Finish(r)
    /\ UNCHANGED <<keys, counted, toSet, dedup, elo, flag, crash, game, off, people, rated, faults>>

\* Mutant of CountWinner: the point stays where it was, too.
CountAgain(r) ==
    /\ At(r, "report", "held")
    /\ LET q == req[r]
           was == counted[q.game]
           points(t) == q.mine.score[t] + (IF t = q.arg THEN 1 ELSE 0)
       IN IF q.mine = NoSet \/ was = q.arg
          THEN UNCHANGED <<rec, counted>>
          ELSE /\ rec' = [q.mine EXCEPT !.score = [t \in Players |-> points(t)]]
               /\ counted' = [counted EXCEPT ![q.game] = q.arg]
    /\ Finish(r)
    /\ UNCHANGED <<ptr, checkins, known, crashed, toSet, dedup, elo, flag, crash, matches, people, rated, faults>>

\* A game's win counted once, or the point moved to the winner decided now.
CountWinner(r) ==
    /\ At(r, "report", "held")
    /\ LET q == req[r]
           was == counted[q.game]
           points(t) == q.mine.score[t] + (IF t = q.arg THEN 1 ELSE 0) - (IF t = was THEN 1 ELSE 0)
       IN IF q.mine = NoSet \/ was = q.arg
          THEN UNCHANGED <<rec, counted>>
          ELSE /\ rec' = [q.mine EXCEPT !.score = [t \in Players |-> points(t)]]
               /\ counted' = [counted EXCEPT ![q.game] = q.arg]
    /\ Finish(r)
    /\ UNCHANGED <<ptr, checkins, known, crashed, toSet, dedup, elo, flag, crash, matches, people, rated, faults>>

-----------------------------------------------------------------------------
(* A game's start and its end. *)

\* Loading a match takes longer than any request waits for the lock (12 s).
MatchStarted(g) ==
    /\ game[g] = "made"
    /\ g > 1 => game[g - 1] = "ended"
    /\ g \notin off \cup crash
    /\ \A p \in Players : ~away[p]
    /\ game' = [game EXCEPT ![g] = "started"]
    /\ UNCHANGED <<keys, marks, reports, off, people, lock, req, rated, faults>>

\* match_started:{game} is there from the start until MatchEnded, an event of its
\* own for which no end waits: a game that had reports was started.
StartedKept(g) == game[g] = "started" \/ (game[g] \in {"ending", "ended"} /\ reports[g] # <<>>)

\* TerminatingError, or AllPlayersDisconnected before any result.
ServerError(g) ==
    /\ StartedKept(g)
    /\ May("error")
    /\ crash' = crash \cup {g}
    /\ UNCHANGED <<keys, counted, toSet, dedup, elo, flag, matches, people, lock, req, rated>>

\* The rollback server ends the match once every player has left it, seconds
\* after their reports (or, "early", before one is answered): MatchEnd's once-key,
\* then GameEndedAsync as far as the lock.  The set is the first player's, else the
\* game's, given back to both.  By now set_match_dedup (30 s) has run out.
\* That a started game has a report or a crash by then is not GameEndedAsync's: it
\* is assumed of the rollback server, that its AllPlayersDisconnected, which makes
\* a crash of a game nobody reported (MatchStatusEvents.cs:209), is handled first.
EndMatch(r, g) ==
    /\ Free(r)
    /\ \/ game[g] = "started" /\ (reports[g] # <<>> \/ g \in crash)
       \/ game[g] = "made" /\ g \in off \cup crash
       \/ game[g] = "failed"
    /\ "early" \in Behaviours \/ \A q \in Requests : ~(req[q].op = "report" /\ req[q].game = g)
    /\ dedup' = {}
    /\ LET fallback == ~ptr[0] /\ g \in toSet IN
       IF g \in crash
       THEN /\ ptr' = [p \in Players |-> FALSE]
            /\ flag' = NoFlags
            /\ game' = [game EXCEPT ![g] = "ended"]
            /\ UNCHANGED req
       ELSE /\ ptr' = IF fallback THEN [p \in Players |-> TRUE] ELSE ptr
            /\ game' = [game EXCEPT ![g] = "ending"]
            /\ Begin(r, "end", "lock", None, g, IF ptr[0] \/ fallback THEN 1 ELSE None)
            /\ UNCHANGED flag
    /\ UNCHANGED <<rec, checkins, known, crashed, counted, toSet, elo, crash, reports, off, people, lock, rated, faults>>

Ending(r) ==
    /\ At(r, "end", "held")
    /\ game' = [game EXCEPT ![req[r].game] = "ended"]

\* The set is gone: an orphan.
EndOrphan(r) ==
    /\ Ending(r)
    /\ req[r].mine = NoSet
    /\ ptr' = [p \in Players |-> FALSE]
    /\ flag' = NoFlags
    /\ Finish(r)
    /\ UNCHANGED <<rec, checkins, known, crashed, counted, toSet, dedup, elo, crash, reports, off, people, rated, faults>>

EndResolved(r) ==
    /\ Ending(r)
    /\ req[r].mine # NoSet
    /\ elo[1] # "none"
    /\ Finish(r)
    /\ UNCHANGED <<keys, marks, reports, off, people, rated, faults>>

\* The set as the game's end leaves it; a player whose flag names it concedes.
After(r) ==
    LET dodgers == {p \in Players : flag[p] = "set"} IN
    [req[r].mine EXCEPT !.played = @ + 1, !.in = {},
        !.conceder = IF dodgers = {} THEN None ELSE IF 0 \in dodgers THEN 0 ELSE 1]

\* SetOverAsync.
EndOver(r) ==
    /\ Ending(r)
    /\ req[r].mine # NoSet
    /\ elo[1] = "none"
    /\ Won(After(r)) \/ After(r).played >= 3
    /\ Settle(r, "set_complete", Outcome(1, Leads(After(r)), None))
    /\ UNCHANGED <<counted, toSet, dedup, flag, crash, reports, off, people, rated, faults>>

EndContinues(r) ==
    /\ Ending(r)
    /\ req[r].mine # NoSet
    /\ elo[1] = "none"
    /\ ~Won(After(r)) /\ After(r).played < 3
    /\ rec' = After(r)
    /\ ptr' = [p \in Players |-> TRUE]
    /\ Finish(r)
    /\ UNCHANGED <<checkins, known, crashed, counted, toSet, dedup, elo, flag, crash, reports, off, people, rated, faults>>

-----------------------------------------------------------------------------
(* Players who leave: MatchStatusEvents, and the login. *)

\* A game's websocket closes, or is lost with its gateway node.
Drops(p) ==
    /\ online[p]
    /\ closing[p] = "none"
    /\ \/ May("drop") /\ closing' = [closing EXCEPT ![p] = "closed"]
       \/ May("gone") /\ closing' = [closing EXCEPT ![p] = "gone"]
    /\ online' = [online EXCEPT ![p] = FALSE]
    /\ UNCHANGED <<keys, marks, matches, away, sent, lock, req, rated>>

\* It is connected again.
Returns(p) ==
    /\ ~online[p]
    /\ online' = [online EXCEPT ![p] = TRUE]
    /\ UNCHANGED <<keys, marks, matches, closing, away, sent, lock, req, rated, faults>>

\* The game was started again: AccessService forgets the player's set.
Login(p) ==
    /\ ~online[p]
    /\ May("login")
    /\ online' = [online EXCEPT ![p] = TRUE]
    /\ away' = [away EXCEPT ![p] = TRUE]
    /\ ptr' = [ptr EXCEPT ![p] = FALSE]
    /\ flag' = IF ptr[p] THEN [flag EXCEPT ![p] = "none"] ELSE flag
    /\ UNCHANGED <<rec, checkins, known, crashed, counted, toSet, dedup, elo, crash, matches, closing, sent, lock, req, rated>>

\* MatchDisconnects: a close of a player who is back since is not handled.
CloseIgnored(p) ==
    /\ closing[p] # "none"
    /\ online[p]
    /\ closing' = [closing EXCEPT ![p] = "none"]
    /\ UNCHANGED <<keys, marks, matches, online, away, sent, lock, req, rated, faults>>

\* LeftAsync's early returns: the match is over, has a result, crashed, or was
\* called off.
Undecided == game[Current] \in {"made", "failed", "started"} /\ reports[Current] = <<>> /\ Current \notin crash \cup off

Closes(p, how) == closing[p] = how /\ ~online[p] /\ closing' = [closing EXCEPT ![p] = "none"] /\ UNCHANGED faults

\* GameClosedAsync with no match to leave: the set's next check-in concedes it,
\* or drops it when the player's node died.
CloseBetween(p) ==
    /\ ~Undecided
    /\ \/ Closes(p, "closed") /\ flag' = (IF ptr[p] THEN [flag EXCEPT ![p] = "set"] ELSE flag) /\ UNCHANGED crashed
       \/ Closes(p, "gone") /\ crashed' = (crashed \/ ptr[p]) /\ UNCHANGED flag
    /\ UNCHANGED <<rec, ptr, checkins, known, counted, toSet, dedup, elo, crash, matches, online, away, sent, lock, req, rated>>

\* RollbackCrashAsync: the server failed a player whose websocket is up, or the
\* node holding it died.
ServerFails(p) ==
    /\ Undecided
    /\ \/ Closes(p, "gone")
       \/ online[p] /\ May("lost") /\ UNCHANGED closing
    /\ crash' = crash \cup {Current}
    /\ toSet' = toSet \ {Current}
    /\ ptr' = [q \in Players |-> FALSE]
    /\ IF ptr[p] \/ Current = 1
       THEN rec' = NoSet /\ checkins' = {} /\ known' = 0
       ELSE UNCHANGED <<rec, checkins, known>>
    /\ UNCHANGED <<crashed, counted, dedup, elo, flag, matches, online, away, sent, lock, req, rated>>

\* A leave: the websocket's close, the game's own word (MatchLeaves), or the
\* rollback server's for a player who is offline.
Leaves(p) ==
    \/ Closes(p, "closed")
    \/ May("said") /\ UNCHANGED closing
    \/ ~online[p] /\ May("lost") /\ UNCHANGED closing

\* After the start: the flag names the player's set, else the match.
LeavesMidGame(p) ==
    /\ Undecided
    /\ game[Current] = "started"
    /\ Leaves(p)
    /\ flag' = [flag EXCEPT ![p] = IF ptr[p] \/ Current = 1 THEN "set" ELSE "other"]
    /\ UNCHANGED <<keys, counted, toSet, dedup, elo, crash, matches, online, away, sent, lock, req, rated>>

\* Before it, PregameDodgeAsync: once per set (or match, for a player with no
\* pointer), the match is called off.  It takes no lock.  What a leave looks at
\* (LeftAsync) and what it writes first are one step, here and in ServerFails.
Dodges(r, p) ==
    /\ Free(r)
    /\ Undecided
    /\ game[Current] # "started"
    /\ Leaves(p)
    /\ LET id == IF ptr[p] THEN 1 ELSE Current IN
       IF elo[id] # "none"
       THEN /\ flag' = IF ptr[p] /\ closing[p] = "closed" THEN [flag EXCEPT ![p] = "set"] ELSE flag
            /\ UNCHANGED <<elo, off, req>>
       ELSE /\ elo' = [elo EXCEPT ![id] = "pregame_dodge"]
            /\ off' = off \cup {Current}
            /\ Begin(r, "dodge", "settle", p, Current, id)
            /\ UNCHANGED flag
    /\ UNCHANGED <<keys, counted, toSet, dedup, crash, game, reports, online, away, sent, lock, rated>>

\* The other team wins, the pointers go, and the set when it is not named by
\* this match.
DodgeSettles(r) ==
    /\ At(r, "dodge", "settle")
    /\ LET q == req[r] IN
       /\ rated' = Append(rated, Outcome(q.arg, Other(q.who), q.who))
       /\ flag' = [flag EXCEPT ![q.who] = IF q.arg = 1 THEN "set" ELSE "other"]
       /\ ptr' = [p \in Players |-> FALSE]
       /\ IF q.arg # q.game
          THEN rec' = NoSet /\ checkins' = {} /\ known' = 0
          ELSE UNCHANGED <<rec, checkins, known>>
    /\ Finish(r)
    /\ UNCHANGED <<crashed, counted, toSet, dedup, elo, crash, matches, people, faults>>

-----------------------------------------------------------------------------
Handler(r) ==
    \/ TakeLock(r) \/ Rate(r)
    \/ CheckinCounts(r) \/ CheckinCrashed(r) \/ CheckinAlone(r) \/ CheckinWaits(r) \/ CheckinOver(r) \/ CheckinNext(r)
    \/ ConcedeSettles(r) \/ FaceoffDrops(r) \/ KeepReport(r) \/ CountWinner(r)
    \/ EndOrphan(r) \/ EndResolved(r) \/ EndOver(r) \/ EndContinues(r) \/ DodgeSettles(r)

Next ==
    \/ \E r \in Requests : Handler(r)
    \/ \E r \in Requests, p \in Players : Concede(r, p) \/ Faceoff(r, p) \/ Dodges(r, p)
    \/ \E r \in Requests, p \in Players, g \in Games : Checkin(r, p, g)
    \/ \E r \in Requests, p \in Players, g \in Games, w \in Players : Report(r, p, g, w)
    \/ \E r \in Requests, g \in Games : EndMatch(r, g)
    \/ \E g \in Games : MatchStarted(g) \/ ServerError(g)
    \/ \E p \in Players : Drops(p) \/ Returns(p) \/ Login(p) \/ CloseIgnored(p) \/ CloseBetween(p)
                          \/ ServerFails(p) \/ LeavesMidGame(p)

Spec == Init /\ [][Next]_vars

-----------------------------------------------------------------------------
SetType == [played : 0 .. 4, score : [Players -> 0 .. 4], in : SUBSET Players, conceder : Players \cup {None}] \cup {NoSet}

\* The types of the set's keys, of the match's marks and of the requests.
TypeOK ==
    /\ rec \in SetType
    /\ ptr \in [Players -> BOOLEAN]
    /\ checkins \subseteq Players
    /\ known \in {0} \cup Games
    /\ crashed \in BOOLEAN
    /\ counted \in [Games -> Players \cup {None}]
    /\ toSet \subseteq Games
    /\ dedup \subseteq 0 .. 3
    /\ flag \in [Players -> {"none", "set", "other"}]
    /\ crash \subseteq Games
    /\ off \subseteq Games
    /\ lock \in Requests \cup {None}
    /\ \A r \in Requests : req[r].mine \in SetType /\ (lock = r => req[r].at \in {"held", "counted", "rate"})
    /\ \A i \in DOMAIN rated : rated[i] \in [id : Games, winner : Players, conceder : Players \cup {None}]
    /\ faults \in 0 .. MaxFaults

\* One claim, one rating: of all the ends of a set that come together (the last
\* game's end, the check-ins, a concede, the concede of a player who left, a
\* dodge of its next game) one rates what an elo_processed_set key names.
RatedByKey == \A i, j \in DOMAIN rated : rated[i].id = rated[j].id => i = j

\* A check-in or a concede that finds its game crashed when it comes to rate does not,
\* a called-off game that a dodge is rated for has not crashed, and no end of a
\* crashed game is begun.  That is less than "never rated": the end that asked
\* (RankedSets.cs:443) before the crash came waits for the lock and rates without
\* asking again (SetOverAsync).  Nor does it speak of a crash between the look before
\* a rating (line 631) and the rating, or between a leave's looks and its claim
\* (MatchStatusEvents.cs:291, 427), which are one step each.
CrashUnrated ==
    [][/\ \A r \in Requests : rated' # rated /\ req'[r] # req[r] /\ req[r].game \in crash => req[r].op = "end"
       /\ \A g \in crash : game[g] # "ending" => game'[g] # "ending"]_vars

\* Between two requests the score is the points counted: each game's once, and
\* for the winner decided last.
ScoreCounts ==
    lock = None /\ rec # NoSet =>
        \A t \in Players : rec.score[t] = Cardinality({g \in Games : counted[g] = t})

\* A check-in counted for the game the set is at was sent for that game: a late
\* absent of the game before does not make the next one go on.
CheckinsCurrent == \A p \in checkins : sent[p][IF known = 0 THEN 1 ELSE known] > 0

\* ranked_set_match while the set is at the game the players were last sent to.
AtGame == IF Current = 1 THEN 0 ELSE Current

\* Two check-ins at the same moment do not each see one: while both are in for the
\* game last made, a request is under way that ends the set or makes the next.
NoStall == checkins = Players /\ known = AtGame => \E r \in Requests : ~Free(r)

\* A set rated on its score is won by a team that won two of its games, as long as
\* no game ends before its report is answered ("early"), no opponent fails to load
\* ("faceoff") and no player starts their game again ("login"): with two of the
\* first two, or a "login", a "drop" and a leave, a set is over on 1-1 or less.
WinnerWon ==
    \A i \in DOMAIN rated :
        rated[i].conceder = None => Cardinality({g \in Games : counted[g] = rated[i].winner}) >= 2

-----------------------------------------------------------------------------
(* What the code's comments say and its interleavings do not keep. *)

\* "rated once per set".
RatedOnce == Len(rated) <= 1
=============================================================================
