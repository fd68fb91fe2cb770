---------------------------- MODULE PartyProofs -----------------------------
(* Theorems about Party, for every set of players and of requests, and any number of rounds. *)
EXTENDS Party, FiniteSetTheorems, SequenceTheorems, TLAPS

-----------------------------------------------------------------------------
(* The records *)

\* A player's place among a lobby's is one.
LEMMA PlaceIsOne ==
  ASSUME NEW r \in Records, NEW p \in In(r)
  PROVE  Place(r, p) \in 1 .. Len(r.players) /\ r.players[Place(r, p)] = p
<1>1. r.players \in Seq(Players) /\ DOMAIN r.players = 1 .. Len(r.players)
  BY DEF Records
<1>2. \E i \in 1 .. Len(r.players) : r.players[i] = p
  BY <1>1 DEF In
<1>. QED
  BY <1>2 DEF Place

\* Without a player, a lobby's players are the others, each in their order.
LEMMA WithoutTyped ==
  ASSUME NEW r \in Records, NEW p
  PROVE  Without(r, p) \in Records /\ (Distinct(r) => Distinct(Without(r, p)))
<1>1. CASE p \notin In(r)
  BY <1>1 DEF Without
<1>2. CASE p \in In(r)
  <2> DEFINE s == r.players
             i == Place(r, p)
             u == SubSeq(s, 1, i - 1)
             v == SubSeq(s, i + 1, Len(s))
  <2>1. s \in Seq(Players) /\ Len(s) \in Nat /\ DOMAIN s = 1 .. Len(s) /\ \A k \in 1 .. Len(s) : s[k] \in Players
    BY DEF Records
  <2>2. i \in 1 .. Len(s)
    BY <1>2, PlaceIsOne
  <2>3. /\ u \in Seq(Players) /\ Len(u) = i - 1
        /\ \A k \in 1 .. i - 1 : u[k] = s[k]
    <3>1. \A k \in 1 .. i - 1 : s[k] \in Players
      BY <2>1, <2>2
    <3>. QED
      BY <2>1, <2>2, <3>1, SubSeqProperties
  <2>4. /\ v \in Seq(Players) /\ Len(v) = Len(s) - i
        /\ \A k \in 1 .. Len(s) - i : v[k] = s[i + k]
    <3>1. \A k \in i + 1 .. Len(s) : s[k] \in Players
      BY <2>1, <2>2
    <3>. QED
      BY <2>1, <2>2, <3>1, SubSeqProperties
  <2>5. /\ u \o v \in Seq(Players) /\ Len(u \o v) = Len(s) - 1
        /\ \A k \in 1 .. Len(s) - 1 : (u \o v)[k] = IF k < i THEN s[k] ELSE s[k + 1]
    <3> HIDE DEF u, v, i, s
    <3>1. u \o v \in Seq(Players) /\ Len(u \o v) = Len(u) + Len(v)
          /\ \A k \in 1 .. Len(u) + Len(v) : (u \o v)[k] = IF k <= Len(u) THEN u[k] ELSE v[k - Len(u)]
      BY <2>3, <2>4, ConcatProperties
    <3>2. ASSUME NEW k \in 1 .. Len(s) - 1 PROVE (u \o v)[k] = IF k < i THEN s[k] ELSE s[k + 1]
      <4>1. CASE k < i
        BY <4>1, <3>1, <2>1, <2>2, <2>3, <2>4
      <4>2. CASE ~(k < i)
        <5>1. k - (i - 1) \in 1 .. Len(s) - i /\ i + (k - (i - 1)) = k + 1
          BY <4>2, <2>1, <2>2
        <5>2. k \in 1 .. Len(u) + Len(v) /\ ~(k <= Len(u)) /\ k - Len(u) = k - (i - 1)
          BY <4>2, <2>1, <2>2, <2>3, <2>4
        <5>3. (u \o v)[k] = v[k - (i - 1)]
          BY <3>1, <5>2
        <5>. QED
          BY <4>2, <5>1, <5>3, <2>4
      <4>. QED
        BY <4>1, <4>2
    <3>. QED
      BY <3>1, <3>2, <2>1, <2>2, <2>3, <2>4
  <2>6. Without(r, p) = [r EXCEPT !.players = u \o v]
    BY <1>2, Zenon DEF Without, RemoveAt
  <2>7. Without(r, p) \in Records /\ Without(r, p).players = u \o v
    <3> HIDE DEF u, v, i, s
    <3>. QED
      BY <2>5, <2>6 DEF Records
  <2>8. ASSUME Distinct(r) PROVE Distinct(Without(r, p))
    <3> HIDE DEF u, v, i, s
    <3>1. \A k, l \in 1 .. Len(s) : s[k] = s[l] => k = l
      BY <2>8, <2>1 DEF Distinct, IsInjective, s
    <3>2. DOMAIN (u \o v) = 1 .. Len(s) - 1
      BY <2>1, <2>5, LenProperties
    <3>3. ASSUME NEW k \in 1 .. Len(s) - 1, NEW l \in 1 .. Len(s) - 1, (u \o v)[k] = (u \o v)[l] PROVE k = l
      <4> DEFINE from(m) == IF m < i THEN m ELSE m + 1
      <4>1. \A m \in 1 .. Len(s) - 1 : from(m) \in 1 .. Len(s) /\ (u \o v)[m] = s[from(m)]
        BY <2>1, <2>2, <2>5
      <4>2. from(k) = from(l)
        <5> HIDE DEF from
        <5>. QED
          BY <3>1, <3>3, <4>1
      <4>. QED
        BY <4>2, <2>1, <2>2
    <3>. QED
      BY <3>2, <3>3, <2>7 DEF Distinct, IsInjective
  <2>. QED
    BY <2>7, <2>8
<1>. QED
  BY <1>1, <1>2

\* A join adds a player who is not there.
LEMMA JoinTyped ==
  ASSUME NEW r \in Records, NEW p \in Players
  PROVE  /\ Join(r, p) \in Records
         /\ Distinct(r) /\ p \notin In(r) => Distinct(Join(r, p))
<1> DEFINE s == r.players
           t == Append(s, p)
<1>1. s \in Seq(Players) /\ Len(s) \in Nat /\ DOMAIN s = 1 .. Len(s)
  BY DEF Records
<1>2. /\ t \in Seq(Players) /\ DOMAIN t = 1 .. Len(s) + 1
      /\ t[Len(s) + 1] = p /\ \A k \in 1 .. Len(s) : t[k] = s[k]
  BY <1>1
<1>3. Join(r, p) \in Records /\ Join(r, p).players = t
  <2> DEFINE mode == IF Len(s) = 1 THEN DuoMode(r.mode) ELSE r.mode
  <2>1. r.mode \in LobbyModes /\ mode \in LobbyModes
    BY DEF Records, DuoMode, LobbyModes
  <2>2. Join(r, p) = [r EXCEPT !.players = t, !.mode = mode]
    BY Zenon DEF Join
  <2> HIDE DEF s, t, mode
  <2>. QED
    BY <1>2, <2>1, <2>2 DEF Records
<1>4. ASSUME Distinct(r), p \notin In(r) PROVE Distinct(Join(r, p))
  <2>1. \A k, l \in 1 .. Len(s) : s[k] = s[l] => k = l
    BY <1>4, <1>1 DEF Distinct, IsInjective
  <2>2. \A k \in 1 .. Len(s) : s[k] # p
    BY <1>4, <1>1 DEF In
  <2> HIDE DEF s, t
  <2>3. \A k, l \in 1 .. Len(s) + 1 : t[k] = t[l] => k = l
    BY <2>1, <2>2, <1>1, <1>2
  <2>. QED
    BY <2>3, <1>2, <1>3 DEF Distinct, IsInjective
<1>. QED
  BY <1>3, <1>4

LEMMA OneTyped ==
  ASSUME NEW p \in Players
  PROVE  <<p>> \in Seq(Players) /\ IsInjective(<<p>>)
BY DEF IsInjective

LEMMA SoloTyped ==
  ASSUME NEW p \in Players, NEW mode \in LobbyModes
  PROVE  Solo(p, mode) \in Records /\ Distinct(Solo(p, mode))
BY DEF Solo, Records, Distinct, IsInjective

\* What a change makes of a record is a record, or nothing when the last player goes.
LEMMA ChangedTyped ==
  ASSUME NEW r \in Records, NEW c \in Changes
  PROVE  /\ Changed(r, c) \in Records \cup {None}
         /\ c.what # "remove" => Changed(r, c) \in Records
         /\ Distinct(r) /\ ~Keeps(r, c) /\ Changed(r, c) # None => Distinct(Changed(r, c))
<1>1. c.who \in Players /\ c.what \in {"refresh", "join", "takeOver", "remove", "stepOut", "keepOwner", "mode"}
  BY DEF Changes
<1>2. CASE c.what = "refresh"
  BY <1>2 DEF Changed
<1>3. CASE c.what = "join"
  BY <1>1, <1>3, JoinTyped DEF Changed, Keeps
<1>4. CASE c.what = "takeOver"
  <2>1. Changed(r, c) = [r EXCEPT !.owner = c.who, !.players = <<c.who>>]
    BY <1>4 DEF Changed
  <2>. QED
    BY <1>1, <1>4, <2>1, OneTyped DEF Records, Distinct
<1>5. CASE c.what = "remove"
  BY <1>1, <1>5, WithoutTyped DEF Changed
<1>6. CASE c.what = "stepOut"
  BY <1>1, <1>6, WithoutTyped DEF Changed
<1>7. CASE c.what = "keepOwner"
  <2>1. Changed(r, c) = [r EXCEPT !.players = <<r.owner>>] /\ r.owner \in Players
    BY <1>7 DEF Changed, Records
  <2>. QED
    BY <1>1, <1>7, <2>1, OneTyped DEF Records, Distinct
<1>8. CASE c.what = "mode"
  BY <1>1, <1>8 DEF Changed, Changes, Records, LobbyModes, Distinct, IsInjective
<1>. QED
  BY <1>1, <1>2, <1>3, <1>4, <1>5, <1>6, <1>7, <1>8

-----------------------------------------------------------------------------
(* The inductive invariant *)

\* What a game may ask for.
Asked == {r \in Asks : (r.kind = "invite" => r.value \in Players) /\ (r.kind = "mode" => r.value \in Modes)}

\* What a step of a handler relies on having in hand.
Fits(do, id, record, chg, kind) ==
  /\ do \in {"look", "named", "online", "asked", "read", "write", "delete"} => id \in Ids
  /\ do \in {"read", "write"} => chg \in Changes
  /\ do \in {"read", "write"} /\ chg.what \notin {"remove", "stepOut", "mode"} => record \in Records
  /\ do \in {"online", "asked"} => record \in Records
  /\ do \in {"save", "rehome"} => kind = "create" \/ record \in Records

\* The steps a handler may still have before it; the transaction only ever comes next.
Ahead(id, record, chg, kind) ==
  {step \in [do : Steps \ {"write", "conflict"}, of : SUBSET Players] : Fits(step.do, id, record, chg, kind)}

\* The steps that fit what the request has in hand.
Onward(a) == Ahead(at[a], lobby[a], change[a], req[a].kind)

\* Between its changes, or about to read.
Going(a) ==
  /\ todo[a] \in Seq(Onward(a))
  /\ tries[a] <= landed[a]
  /\ IF At(a, "read") THEN tries[a] < Attempts ELSE tries[a] = 0

\* Its record read, and the change still to be made to it.
Writing(a) ==
  /\ At(a, "write")
  /\ Fits("write", at[a], lobby[a], change[a], req[a].kind)
  /\ Tail(todo[a]) \in Seq(Onward(a))
  /\ seen[a] \in Records /\ ~Keeps(seen[a], change[a])
  /\ tries[a] < Attempts /\ tries[a] <= landed[a]
  /\ rec[at[a]] # seen[a] => tries[a] < landed[a]

\* Given up.
Stuck(a) == At(a, "conflict") /\ tries[a] = Attempts /\ tries[a] <= landed[a]

Sound(a) ==
  /\ todo[a] # <<>> => req[a] \in Asked
  /\ Going(a) \/ Writing(a) \/ Stuck(a)

Inv == TypeOK /\ \A a \in Requests : Sound(a)

-----------------------------------------------------------------------------
(* Lists of steps *)

LEMMA StepTyped ==
  ASSUME NEW S, NEW do, NEW of, of # {} => [do |-> do, of |-> of] \in S
  PROVE  Step(do, of) \in Seq(S)
BY DEF Step

LEMMA ConcatTyped ==
  ASSUME NEW S, NEW u \in Seq(S), NEW v \in Seq(S)
  PROVE  u \o v \in Seq(S)
OBVIOUS

LEMMA SeqWithin ==
  ASSUME NEW S, NEW T, S \subseteq T
  PROVE  Seq(S) \subseteq Seq(T)
OBVIOUS

LEMMA PlainTyped ==
  ASSUME NEW id, NEW r, NEW c, NEW kind
  PROVE  Seq(Ahead(id, r, c, kind)) \subseteq Seq([do : Steps, of : SUBSET Players])
<1>1. Ahead(id, r, c, kind) \subseteq [do : Steps, of : SUBSET Players]
  BY DEF Ahead
<1>. QED
  BY <1>1, SeqWithin

\* A step in hand, neither of UpdateAsync's two, is as it should be.
LEMMA AtStep ==
  ASSUME TypeOK, NEW a \in Requests, Sound(a), NEW do \in Steps \ {"write", "conflict"}, At(a, do)
  PROVE  /\ req[a] \in Asked /\ Me(a) \in Players
         /\ Of(a) \subseteq Players
         /\ Fits(do, at[a], lobby[a], change[a], req[a].kind)
         /\ [do |-> do, of |-> Of(a)] \in Onward(a)
         /\ Tail(todo[a]) \in Seq(Onward(a))
         /\ Going(a) /\ tries[a] <= landed[a]
         /\ IF do = "read" THEN tries[a] < Attempts ELSE tries[a] = 0
<1>1. Going(a) /\ req[a] \in Asked
  BY DEF Sound, Writing, Stuck, At
<1>2. Head(todo[a]) \in Onward(a) /\ Tail(todo[a]) \in Seq(Onward(a))
  BY <1>1 DEF Going, At
<1>3. Head(todo[a]).do = do /\ Head(todo[a]) = [do |-> do, of |-> Of(a)] /\ Of(a) \subseteq Players /\ Fits(do, at[a], lobby[a], change[a], req[a].kind)
  BY <1>2 DEF Onward, Ahead, At, Of
<1>4. Me(a) \in Players
  BY <1>1 DEF Asked, Asks, Me
<1>5. IF do = "read" THEN tries[a] < Attempts ELSE tries[a] = 0
  BY <1>1, <1>3 DEF Going, At
<1>. QED
  BY <1>1, <1>2, <1>3, <1>4, <1>5 DEF Going

LEMMA FitsAhead ==
  ASSUME NEW id, NEW r, NEW c, NEW kind, NEW do \in Steps \ {"write", "conflict"}, NEW of,
         of \subseteq Players, Fits(do, id, r, c, kind)
  PROVE  Step(do, of) \in Seq(Ahead(id, r, c, kind))
<1>1. [do |-> do, of |-> of] \in Ahead(id, r, c, kind)
  BY DEF Ahead
<1>. QED
  BY <1>1, StepTyped

\* One player less to do the step for.
LEMMA RestTyped ==
  ASSUME TypeOK, NEW a \in Requests, Sound(a), NEW do \in Steps \ {"write", "conflict"}, At(a, do), NEW p \in Of(a)
  PROVE  Rest(a, p) \in Seq(Onward(a))
<1>1. Of(a) \ {p} \subseteq Players /\ Fits(do, at[a], lobby[a], change[a], req[a].kind) /\ Tail(todo[a]) \in Seq(Onward(a))
  BY AtStep
<1>2. Step(do, Of(a) \ {p}) \in Seq(Onward(a))
  BY <1>1, FitsAhead DEF Onward
<1>. QED
  BY <1>1, <1>2, ConcatTyped DEF Rest, At

-----------------------------------------------------------------------------
(* Steps *)

\* TypeOK, but for the handlers.
Kept ==
  /\ rec \in [Ids -> Records \cup {None}]
  /\ made \in Nat
  /\ pointer \in [Players -> Ids \cup {None}] /\ pending \in [Players -> Ids \cup {None}]
  /\ online \subseteq Players
  /\ req \in [Requests -> Asks \cup {None}]
  /\ at \in [Requests -> Ids \cup {None}]
  /\ lobby \in [Requests -> Records \cup {None}]
  /\ want \in [Requests -> Ids \cup {None}]
  /\ change \in [Requests -> Changes \cup {None}]
  /\ seen \in [Requests -> Records \cup {None}]
  /\ tries \in [Requests -> 0 .. Attempts]
  /\ landed \in [Requests -> Nat]

\* What the others have in hand is left alone, and who writes their record has them lose a round to it.
Local(a) ==
  \A b \in Requests \ {a} :
    /\ todo'[b] = todo[b] /\ req'[b] = req[b]
    /\ at'[b] = at[b] /\ lobby'[b] = lobby[b]
    /\ change'[b] = change[b] /\ seen'[b] = seen[b] /\ tries'[b] = tries[b]
    /\ \/ landed'[b] = landed[b] + 1
       \/ landed'[b] = landed[b] /\ (At(b, "write") => rec'[at[b]] = rec[at[b]])

LEMMA OthersSound ==
  ASSUME Inv, NEW a \in Requests, Local(a), NEW b \in Requests \ {a}
  PROVE  Sound(b)'
<1>1. /\ todo'[b] = todo[b] /\ req'[b] = req[b]
      /\ at'[b] = at[b] /\ lobby'[b] = lobby[b]
      /\ change'[b] = change[b] /\ seen'[b] = seen[b] /\ tries'[b] = tries[b]
      /\ \/ landed'[b] = landed[b] + 1
         \/ landed'[b] = landed[b] /\ (At(b, "write") => rec'[at[b]] = rec[at[b]])
  BY DEF Local
<1>2. Sound(b) /\ tries[b] \in Nat /\ landed[b] \in Nat /\ landed'[b] \in Nat /\ landed'[b] >= landed[b]
  BY <1>1, PartyAssumption DEF Inv, TypeOK
<1>3. Onward(b)' = Onward(b)
  BY <1>1 DEF Onward
<1>4. \A do \in Steps : At(b, do)' <=> At(b, do)
  BY <1>1 DEF At
<1>5. ASSUME Going(b) PROVE Going(b)'
  BY <1>1, <1>2, <1>3, <1>4, <1>5 DEF Going, Steps
<1>6. ASSUME Writing(b) PROVE Writing(b)'
  <2>1. Tail(todo'[b]) \in Seq(Onward(b)')
    BY <1>1, <1>3, <1>6 DEF Writing
  <2>2. rec'[at'[b]] # seen'[b] => tries'[b] < landed'[b]
    BY <1>1, <1>2, <1>6 DEF Writing
  <2>3. seen'[b] \in Records /\ ~Keeps(seen'[b], change'[b]) /\ Fits("write", at'[b], lobby'[b], change'[b], req'[b].kind)
    BY <1>1, <1>6 DEF Writing
  <2>4. At(b, "write")' /\ tries'[b] < Attempts /\ tries'[b] <= landed'[b]
    BY <1>1, <1>2, <1>4, <1>6 DEF Writing, Steps
  <2>. QED
    BY <2>1, <2>2, <2>3, <2>4 DEF Writing
<1>7. ASSUME Stuck(b) PROVE Stuck(b)'
  BY <1>1, <1>2, <1>4, <1>7 DEF Stuck, Steps
<1>. QED
  BY <1>1, <1>2, <1>5, <1>6, <1>7 DEF Sound

\* A request that goes on, between two changes: what it has left to do fits what it now has in hand.
LEMMA GoesOn ==
  ASSUME Inv, NEW a \in Requests, Kept', Local(a),
         NEW q \in Seq(Ahead(at'[a], lobby'[a], change'[a], req'[a].kind)),
         todo' = [todo EXCEPT ![a] = q], tries'[a] = 0,
         q # <<>> => req'[a] \in Asked
  PROVE  Inv'
<1>1. q \in Seq([do : Steps, of : SUBSET Players])
  BY PlainTyped
<1>2. todo'[a] = q /\ todo' \in [Requests -> Seq([do : Steps, of : SUBSET Players])]
  BY <1>1 DEF Inv, TypeOK
<1>3. TypeOK'
  BY <1>2 DEF Kept, TypeOK
<1>4. Sound(a)'
  <2>1. landed'[a] \in Nat /\ tries'[a] <= landed'[a] /\ tries'[a] < Attempts
    BY PartyAssumption DEF Kept
  <2>2. todo'[a] \in Seq(Onward(a)')
    BY <1>2 DEF Onward
  <2>. QED
    BY <1>2, <2>1, <2>2 DEF Sound, Going
<1>. QED
  BY <1>3, <1>4, OthersSound DEF Inv

LEMMA KeptByInv ==
  ASSUME Inv
  PROVE  Kept
BY DEF Inv, TypeOK, Kept

-----------------------------------------------------------------------------
(* Single commands *)

\* A step that changes the keys alone.
LEMMA KeysOnly ==
  ASSUME Inv, NEW a \in Requests, UNCHANGED <<store, hand, round, given>>,
         pointer' \in [Players -> Ids \cup {None}], pending' \in [Players -> Ids \cup {None}],
         NEW q \in Seq(Onward(a)), todo' = [todo EXCEPT ![a] = q],
         tries[a] = 0, req[a] \in Asked
  PROVE  Inv'
<1>1. /\ rec' = rec /\ made' = made /\ landed' = landed /\ at' = at /\ lobby' = lobby /\ want' = want
      /\ change' = change /\ seen' = seen /\ tries' = tries /\ online' = online /\ req' = req
  BY DEF store, hand, round, given
<1>2. q \in Seq(Ahead(at'[a], lobby'[a], change'[a], req'[a].kind))
  BY <1>1, Zenon DEF Onward
<1>3. Kept'
  BY <1>1, KeptByInv DEF Kept
<1>4. Local(a)
  BY <1>1 DEF Local, Inv, TypeOK
<1>. QED
  BY <1>1, <1>2, <1>3, <1>4, GoesOn

LEMMA PointKeeps ==
  ASSUME Inv, NEW a \in Requests, Point(a)
  PROVE  Inv'
<1>1. PICK p \in Of(a) : pointer' = [pointer EXCEPT ![p] = at[a]] /\ UNCHANGED pending /\ todo' = [todo EXCEPT ![a] = Rest(a, p)]
  BY DEF Point, SetPointer, Do
<1>2. TypeOK /\ Sound(a) /\ At(a, "point") /\ UNCHANGED <<store, hand, round, given>>
  BY DEF Point, Inv
<1>. "point" \in Steps \ {"write", "conflict"} /\ "point" # "read"
  BY DEF Steps
<1>3. p \in Players /\ tries[a] = 0 /\ req[a] \in Asked /\ Rest(a, p) \in Seq(Onward(a))
  <2>1. Of(a) \subseteq Players /\ tries[a] = 0 /\ req[a] \in Asked
    BY <1>2, AtStep
  <2>2. Rest(a, p) \in Seq(Onward(a))
    BY <1>1, <1>2, RestTyped
  <2>. QED
    BY <1>1, <2>1, <2>2
<1>4. pointer' \in [Players -> Ids \cup {None}] /\ pending' \in [Players -> Ids \cup {None}]
  BY <1>1, <1>2, <1>3 DEF TypeOK
<1>. QED
  BY <1>1, <1>2, <1>3, <1>4, KeysOnly

LEMMA ClearKeeps ==
  ASSUME Inv, NEW a \in Requests, Clear(a)
  PROVE  Inv'
<1>1. PICK p \in Of(a) : pointer' = [pointer EXCEPT ![p] = None] /\ UNCHANGED pending /\ todo' = [todo EXCEPT ![a] = Rest(a, p)]
  BY DEF Clear, SetPointer, Do
<1>2. TypeOK /\ Sound(a) /\ At(a, "clear") /\ UNCHANGED <<store, hand, round, given>>
  BY DEF Clear, Inv
<1>. "clear" \in Steps \ {"write", "conflict"} /\ "clear" # "read"
  BY DEF Steps
<1>3. p \in Players /\ tries[a] = 0 /\ req[a] \in Asked /\ Rest(a, p) \in Seq(Onward(a))
  <2>1. Of(a) \subseteq Players /\ tries[a] = 0 /\ req[a] \in Asked
    BY <1>2, AtStep
  <2>2. Rest(a, p) \in Seq(Onward(a))
    BY <1>1, <1>2, RestTyped
  <2>. QED
    BY <1>1, <2>1, <2>2
<1>4. pointer' \in [Players -> Ids \cup {None}] /\ pending' \in [Players -> Ids \cup {None}]
  BY <1>1, <1>2, <1>3 DEF TypeOK
<1>. QED
  BY <1>1, <1>2, <1>3, <1>4, KeysOnly

LEMMA PendKeeps ==
  ASSUME Inv, NEW a \in Requests, Pend(a)
  PROVE  Inv'
<1>1. PICK p \in Of(a) : pending' = [pending EXCEPT ![p] = at[a]] /\ UNCHANGED pointer /\ todo' = [todo EXCEPT ![a] = Rest(a, p)]
  BY DEF Pend, SetPending, Do
<1>2. TypeOK /\ Sound(a) /\ At(a, "pend") /\ UNCHANGED <<store, hand, round, given>>
  BY DEF Pend, Inv
<1>. "pend" \in Steps \ {"write", "conflict"} /\ "pend" # "read"
  BY DEF Steps
<1>3. p \in Players /\ tries[a] = 0 /\ req[a] \in Asked /\ Rest(a, p) \in Seq(Onward(a))
  <2>1. Of(a) \subseteq Players /\ tries[a] = 0 /\ req[a] \in Asked
    BY <1>2, AtStep
  <2>2. Rest(a, p) \in Seq(Onward(a))
    BY <1>1, <1>2, RestTyped
  <2>. QED
    BY <1>1, <2>1, <2>2
<1>4. pointer' \in [Players -> Ids \cup {None}] /\ pending' \in [Players -> Ids \cup {None}]
  BY <1>1, <1>2, <1>3 DEF TypeOK
<1>. QED
  BY <1>1, <1>2, <1>3, <1>4, KeysOnly

LEMMA UnpendKeeps ==
  ASSUME Inv, NEW a \in Requests, Unpend(a)
  PROVE  Inv'
<1>1. PICK p \in Of(a) : pending' = [pending EXCEPT ![p] = None] /\ UNCHANGED pointer /\ todo' = [todo EXCEPT ![a] = Rest(a, p)]
  BY DEF Unpend, SetPending, Do
<1>2. TypeOK /\ Sound(a) /\ At(a, "unpend") /\ UNCHANGED <<store, hand, round, given>>
  BY DEF Unpend, Inv
<1>. "unpend" \in Steps \ {"write", "conflict"} /\ "unpend" # "read"
  BY DEF Steps
<1>3. p \in Players /\ tries[a] = 0 /\ req[a] \in Asked /\ Rest(a, p) \in Seq(Onward(a))
  <2>1. Of(a) \subseteq Players /\ tries[a] = 0 /\ req[a] \in Asked
    BY <1>2, AtStep
  <2>2. Rest(a, p) \in Seq(Onward(a))
    BY <1>1, <1>2, RestTyped
  <2>. QED
    BY <1>1, <2>1, <2>2
<1>4. pointer' \in [Players -> Ids \cup {None}] /\ pending' \in [Players -> Ids \cup {None}]
  BY <1>1, <1>2, <1>3 DEF TypeOK
<1>. QED
  BY <1>1, <1>2, <1>3, <1>4, KeysOnly

LEMMA LaterKeeps ==
  ASSUME Inv, NEW a \in Requests, Later(a)
  PROVE  Inv'
<1>1. PICK p \in Of(a) :
        pending' = [pending EXCEPT ![p] = at[a]] /\ UNCHANGED pointer /\ todo' = [todo EXCEPT ![a] = Step("point", {p}) \o Rest(a, p)]
  BY DEF Later, SetPending, Do
<1>2. TypeOK /\ Sound(a) /\ At(a, "later") /\ UNCHANGED <<store, hand, round, given>>
  BY DEF Later, Inv
<1>. "later" \in Steps \ {"write", "conflict"} /\ "later" # "read"
  BY DEF Steps
<1>3. p \in Players /\ tries[a] = 0 /\ req[a] \in Asked /\ Rest(a, p) \in Seq(Onward(a))
  <2>1. Of(a) \subseteq Players /\ tries[a] = 0 /\ req[a] \in Asked
    BY <1>2, AtStep
  <2>2. Rest(a, p) \in Seq(Onward(a))
    BY <1>1, <1>2, RestTyped
  <2>. QED
    BY <1>1, <2>1, <2>2
<1>4. Step("point", {p}) \in Seq(Onward(a))
  BY <1>3, FitsAhead DEF Steps, Fits, Onward
<1>5. pointer' \in [Players -> Ids \cup {None}] /\ pending' \in [Players -> Ids \cup {None}]
  BY <1>1, <1>2, <1>3 DEF TypeOK
<1>. QED
  BY <1>1, <1>2, <1>3, <1>4, <1>5, ConcatTyped, KeysOnly

-----------------------------------------------------------------------------
(* Records made and deleted *)

LEMMA DeleteKeeps ==
  ASSUME Inv, NEW a \in Requests, Delete(a)
  PROVE  Inv'
<1>1. /\ rec' = [rec EXCEPT ![at[a]] = None] /\ UNCHANGED <<made, keys, hand, round, given>>
      /\ todo' = [todo EXCEPT ![a] = Tail(todo[a])]
  BY DEF Delete, Write, Then, Do
<1>2. TypeOK /\ Sound(a) /\ At(a, "delete") /\ Kept
  BY KeptByInv DEF Delete, Inv
<1>. "delete" \in Steps \ {"write", "conflict"} /\ "delete" # "read"
  BY DEF Steps
<1>3. at[a] \in Ids /\ tries[a] = 0 /\ req[a] \in Asked /\ Tail(todo[a]) \in Seq(Onward(a))
  <2>1. Fits("delete", at[a], lobby[a], change[a], req[a].kind) /\ tries[a] = 0 /\ req[a] \in Asked /\ Tail(todo[a]) \in Seq(Onward(a))
    BY <1>2, AtStep
  <2>. QED
    BY <2>1 DEF Fits
<1>4. \A b \in Requests : landed'[b] = IF b = a THEN 0 ELSE IF At(b, "write") /\ at[b] = at[a] THEN landed[b] + 1 ELSE landed[b]
  BY DEF Delete, Write
<1>5. landed' \in [Requests -> Nat]
  BY <1>2, <1>4 DEF Delete, Write, TypeOK
<1>6. Kept'
  BY <1>1, <1>2, <1>3, <1>5 DEF Kept, keys, hand, round, given
<1>7. Local(a)
  BY <1>1, <1>2, <1>3, <1>4 DEF Local, hand, round, given, TypeOK
<1>8. Tail(todo[a]) \in Seq(Ahead(at'[a], lobby'[a], change'[a], req'[a].kind))
  BY <1>1, <1>3, Zenon DEF Onward, hand, round, given
<1>. QED
  BY <1>1, <1>3, <1>6, <1>7, <1>8, GoesOn DEF round, given

\* A record of one player, under an id of its own.
LEMMA MakeKeeps ==
  ASSUME Inv, NEW a \in Requests, NEW p \in Players, Make(a, p), UNCHANGED <<keys, lobby, want, round, given>>,
         tries[a] = 0, req[a] \in Asked, Fits("save", at[a], lobby[a], change[a], req[a].kind),
         NEW q \in Seq(Ahead(made', lobby[a], change[a], req[a].kind)), todo' = [todo EXCEPT ![a] = q]
  PROVE  Inv'
<1> DEFINE record == Solo(p, IF req[a].kind = "create" THEN "2v2" ELSE lobby[a].mode)
<1>1. made' = made + 1 /\ made' \in Ids /\ at' = [at EXCEPT ![a] = made'] /\ rec' = [rec EXCEPT ![made'] = record]
  BY DEF Make, Write, Ids
<1>2. Kept /\ TypeOK
  BY KeptByInv DEF Inv
<1>3. record \in Records
  <2>1. (IF req[a].kind = "create" THEN "2v2" ELSE lobby[a].mode) \in LobbyModes
    BY DEF Fits, Records, LobbyModes
  <2>. QED
    BY <2>1, SoloTyped
<1>4. \A b \in Requests : landed'[b] = IF b = a THEN 0 ELSE IF At(b, "write") /\ at[b] = made' THEN landed[b] + 1 ELSE landed[b]
  BY DEF Make, Write
<1>5. landed' \in [Requests -> Nat]
  BY <1>2, <1>4 DEF Make, Write, TypeOK
<1> HIDE DEF record
<1>6. Kept'
  BY <1>1, <1>2, <1>3, <1>5 DEF Kept, keys, round, given
<1>7. Local(a)
  BY <1>1, <1>2, <1>4 DEF Local, round, given, TypeOK
<1>8. q \in Seq(Ahead(at'[a], lobby'[a], change'[a], req'[a].kind))
  <2>1. at'[a] = made' /\ lobby' = lobby /\ change' = change /\ req' = req
    BY <1>1, <1>2 DEF round, given, TypeOK
  <2>. QED
    BY <2>1, Zenon
<1>. QED
  BY <1>6, <1>7, <1>8, GoesOn DEF round, given

\* What a handler has before it still fits, with another lobby in hand.
LEMMA AnotherId ==
  ASSUME NEW a \in Requests, NEW id \in Ids
  PROVE  Seq(Onward(a)) \subseteq Seq(Ahead(id, lobby[a], change[a], req[a].kind))
<1>1. Onward(a) \subseteq Ahead(id, lobby[a], change[a], req[a].kind)
  BY DEF Onward, Ahead, Fits
<1>. QED
  BY <1>1, SeqWithin

LEMMA SaveKeeps ==
  ASSUME Inv, NEW a \in Requests, Save(a)
  PROVE  Inv'
<1>1. PICK p \in Of(a) : Make(a, p) /\ todo' = [todo EXCEPT ![a] = Rest(a, p)]
  BY DEF Save, Do
<1>2. TypeOK /\ Sound(a) /\ At(a, "save") /\ UNCHANGED <<keys, lobby, want, round, given>>
  BY DEF Save, Inv
<1>. "save" \in Steps \ {"write", "conflict"} /\ "save" # "read"
  BY DEF Steps
<1>3. Of(a) \subseteq Players /\ tries[a] = 0 /\ req[a] \in Asked /\ Fits("save", at[a], lobby[a], change[a], req[a].kind)
  BY <1>2, AtStep
<1>4. Rest(a, p) \in Seq(Onward(a)) /\ made' \in Ids
  BY <1>1, <1>2, RestTyped DEF Make, Ids
<1>5. Rest(a, p) \in Seq(Ahead(made', lobby[a], change[a], req[a].kind))
  BY <1>4, AnotherId
<1>. QED
  BY <1>1, <1>2, <1>3, <1>5, MakeKeeps

LEMMA RehomeKeeps ==
  ASSUME Inv, NEW a \in Requests, Rehome(a)
  PROVE  Inv'
<1> DEFINE S == Ahead(made', lobby[a], change[a], req[a].kind)
<1>1. PICK p \in Of(a) : Make(a, p) /\ todo' = [todo EXCEPT ![a] = Step("point", {p}) \o Step("pend", {p}) \o Rest(a, p)]
  BY DEF Rehome, Do
<1>2. TypeOK /\ Sound(a) /\ At(a, "rehome") /\ UNCHANGED <<keys, lobby, want, round, given>>
  BY DEF Rehome, Inv
<1>. "rehome" \in Steps \ {"write", "conflict"} /\ "rehome" # "read"
  BY DEF Steps
<1>3. Of(a) \subseteq Players /\ tries[a] = 0 /\ req[a] \in Asked /\ Fits("save", at[a], lobby[a], change[a], req[a].kind)
  <2>1. Of(a) \subseteq Players /\ tries[a] = 0 /\ req[a] \in Asked /\ Fits("rehome", at[a], lobby[a], change[a], req[a].kind)
    BY <1>2, AtStep
  <2>. QED
    BY <2>1 DEF Fits
<1>4. Rest(a, p) \in Seq(Onward(a)) /\ made' \in Ids
  BY <1>1, <1>2, RestTyped DEF Make, Ids
<1>5. Rest(a, p) \in Seq(S)
  BY <1>4, AnotherId
<1>6. Step("point", {p}) \in Seq(S) /\ Step("pend", {p}) \in Seq(S)
  BY <1>1, <1>3, FitsAhead DEF Steps, Fits
<1> HIDE DEF S
<1>7. Step("point", {p}) \o Step("pend", {p}) \o Rest(a, p) \in Seq(S)
  BY <1>5, <1>6, ConcatTyped
<1>. QED
  BY <1>1, <1>2, <1>3, <1>7, MakeKeeps DEF S

-----------------------------------------------------------------------------
(* Handlers *)

\* A handler that only reads, and goes on with what it read.
LEMMA Decides ==
  ASSUME Inv, NEW a \in Requests, UNCHANGED <<store, keys, given, seen, tries>>,
         NEW i \in Ids \cup {None}, at' = [at EXCEPT ![a] = i],
         NEW r \in Records \cup {None}, lobby' = [lobby EXCEPT ![a] = r],
         NEW w \in Ids \cup {None}, want' = [want EXCEPT ![a] = w],
         NEW c \in Changes \cup {None}, change' = [change EXCEPT ![a] = c],
         NEW q \in Seq(Ahead(i, r, c, req[a].kind)), todo' = [todo EXCEPT ![a] = q],
         tries[a] = 0, req[a] \in Asked
  PROVE  Inv'
<1>1. Kept /\ TypeOK
  BY KeptByInv DEF Inv
<1>2. Kept'
  BY <1>1 DEF Kept, store, keys, given
<1>3. Local(a)
  BY <1>1 DEF Local, TypeOK, store, keys, given
<1>4. at'[a] = i /\ lobby'[a] = r /\ change'[a] = c /\ req' = req
  BY <1>1 DEF TypeOK, given
<1>5. q \in Seq(Ahead(at'[a], lobby'[a], change'[a], req'[a].kind))
  BY <1>4, Zenon
<1>. QED
  BY <1>2, <1>3, <1>4, <1>5, GoesOn

\* What is in hand, left as it is.
LEMMA SameHand ==
  ASSUME TypeOK, NEW a \in Requests
  PROVE  /\ at[a] \in Ids \cup {None} /\ at = [at EXCEPT ![a] = at[a]]
         /\ lobby[a] \in Records \cup {None} /\ lobby = [lobby EXCEPT ![a] = lobby[a]]
         /\ want[a] \in Ids \cup {None} /\ want = [want EXCEPT ![a] = want[a]]
         /\ change[a] \in Changes \cup {None} /\ change = [change EXCEPT ![a] = change[a]]
BY DEF TypeOK

LEMMA MineTyped ==
  ASSUME NEW a \in Requests, Me(a) \in Players,
         NEW id, NEW r, NEW c, NEW kind, NEW do \in Steps \ {"write", "conflict"}, Fits(do, id, r, c, kind)
  PROVE  Mine(a, do) \in Seq(Ahead(id, r, c, kind))
BY FitsAhead DEF Mine

\* The steps that rely on nothing.
Free == {"back", "pointer", "invited", "forget", "point", "clear", "pend", "unpend", "later"}

LEMMA FreeFits ==
  ASSUME NEW do \in Free, NEW id, NEW r, NEW c, NEW kind
  PROVE  do \in Steps \ {"write", "conflict"} /\ Fits(do, id, r, c, kind)
BY DEF Free, Steps, Fits

LEMMA NewLobbyTyped ==
  ASSUME NEW a \in Requests, Me(a) \in Players, NEW id, NEW r, NEW c, NEW kind, kind = "create" \/ r \in Records
  PROVE  NewLobby(a) \in Seq(Ahead(id, r, c, kind))
<1>1. "save" \in Steps \ {"write", "conflict"} /\ Fits("save", id, r, c, kind) /\ "point" \in Free
  BY DEF Steps, Fits, Free
<1>2. Mine(a, "save") \in Seq(Ahead(id, r, c, kind)) /\ Mine(a, "point") \in Seq(Ahead(id, r, c, kind))
  BY <1>1, MineTyped, FreeFits
<1>. QED
  BY <1>2, ConcatTyped DEF NewLobby

LEMMA BackKeeps ==
  ASSUME Inv, NEW a \in Requests, Back(a)
  PROVE  Inv'
<1>. "back" \in Steps \ {"write", "conflict"} /\ "back" # "read" /\ "pointer" \in Free
  BY DEF Steps, Free
<1>1. TypeOK /\ Sound(a) /\ At(a, "back") /\ UNCHANGED <<store, keys, hand, round, given>>
  BY DEF Back, Inv
<1>2. tries[a] = 0 /\ req[a] \in Asked /\ Me(a) \in Players
  BY <1>1, AtStep
<1>3. PICK q \in Seq(Onward(a)) : todo' = [todo EXCEPT ![a] = q]
  <2>1. Mine(a, "pointer") \in Seq(Onward(a)) /\ <<>> \in Seq(Onward(a))
    BY <1>2, MineTyped, FreeFits DEF Onward
  <2>. QED
    BY <2>1 DEF Back, End, Do
<1>. QED
  BY <1>1, <1>2, <1>3, KeysOnly DEF keys, TypeOK

LEMMA InvitedKeeps ==
  ASSUME Inv, NEW a \in Requests, Invited(a)
  PROVE  Inv'
<1>. "invited" \in Steps \ {"write", "conflict"} /\ "invited" # "read" /\ "pointer" \in Free
  BY DEF Steps, Free
<1>1. TypeOK /\ Sound(a) /\ At(a, "invited") /\ UNCHANGED <<store, keys, at, lobby, round, given>>
  BY DEF Invited, Inv
<1>2. tries[a] = 0 /\ req[a] \in Asked /\ Me(a) \in Players
  BY <1>1, AtStep
<1>3. Mine(a, "pointer") \in Seq(Ahead(at[a], lobby[a], change[a], req[a].kind))
  BY <1>2, MineTyped, FreeFits
<1>4. pending[Me(a)] \in Ids \cup {None} /\ want' = [want EXCEPT ![a] = pending[Me(a)]] /\ todo' = [todo EXCEPT ![a] = Mine(a, "pointer")]
  BY <1>1, <1>2 DEF TypeOK, Invited, Do
<1>. QED
  BY <1>1, <1>2, <1>3, <1>4, SameHand, Decides DEF round

LEMMA PointerKeeps ==
  ASSUME Inv, NEW a \in Requests, Pointer(a)
  PROVE  Inv'
<1> DEFINE S == Ahead(Target(a), lobby[a], change[a], req[a].kind)
<1>. "pointer" \in Steps \ {"write", "conflict"} /\ "pointer" # "read" /\ "forget" \in Free
  BY DEF Steps, Free
<1>1. TypeOK /\ Sound(a) /\ At(a, "pointer") /\ UNCHANGED <<store, keys, lobby, want, round, given>> /\ at' = [at EXCEPT ![a] = Target(a)]
  BY DEF Pointer, Inv
<1>2. tries[a] = 0 /\ req[a] \in Asked /\ Me(a) \in Players
  BY <1>1, AtStep
<1>3. Target(a) \in Ids \cup {None}
  BY <1>1, <1>2 DEF TypeOK, Target, Asked, Asks
<1>4. ASSUME Target(a) # None PROVE Mine(a, "look") \in Seq(S)
  <2>1. "look" \in Steps \ {"write", "conflict"} /\ Fits("look", Target(a), lobby[a], change[a], req[a].kind)
    BY <1>3, <1>4 DEF Steps, Fits
  <2>. QED
    BY <1>2, <2>1, MineTyped
<1>5. ASSUME req[a].kind = "create" PROVE NewLobby(a) \in Seq(S)
  BY <1>2, <1>5, NewLobbyTyped
<1>6. Mine(a, "forget") \in Seq(S) /\ <<>> \in Seq(S)
  BY <1>2, MineTyped, FreeFits
<1> HIDE DEF S
<1>7. PICK q \in Seq(S) : todo' = [todo EXCEPT ![a] = q]
  BY <1>4, <1>5, <1>6 DEF Pointer, Do
<1>. QED
  BY <1>1, <1>2, <1>3, <1>7, SameHand, Decides DEF round, S

LEMMA UpdateTyped ==
  ASSUME NEW a \in Requests, Me(a) \in Players, NEW what \in {"refresh", "join", "takeOver", "remove", "stepOut", "keepOwner"}
  PROVE  [what |-> what, who |-> Me(a), value |-> None] \in Changes
BY DEF Changes

LEMMA ReadTyped ==
  ASSUME NEW a \in Requests, Me(a) \in Players, NEW id \in Ids, NEW r, NEW c \in Changes, NEW kind,
         c.what \notin {"remove", "stepOut", "mode"} => r \in Records
  PROVE  Mine(a, "read") \in Seq(Ahead(id, r, c, kind))
<1>1. "read" \in Steps \ {"write", "conflict"} /\ Fits("read", id, r, c, kind)
  BY DEF Steps, Fits
<1>. QED
  BY <1>1, MineTyped

LEMMA CreateLooksKeeps ==
  ASSUME Inv, NEW a \in Requests, CreateLooks(a)
  PROVE  Inv'
<1>. "look" \in Steps \ {"write", "conflict"} /\ "look" # "read"
  BY DEF Steps, Free
<1>1. TypeOK /\ Sound(a) /\ At(a, "look") /\ UNCHANGED <<store, keys, at, want, round, given>>
  BY DEF CreateLooks, Inv
<1>2. tries[a] = 0 /\ req[a] \in Asked /\ Me(a) \in Players /\ Fits("look", at[a], lobby[a], change[a], req[a].kind)
  BY <1>1, AtStep
<1>3. at[a] \in Ids /\ rec[at[a]] \in Records \cup {None} /\ req[a].kind = "create" /\ lobby' = [lobby EXCEPT ![a] = rec[at[a]]]
  BY <1>1, <1>2 DEF Fits, TypeOK, CreateLooks, Fetch
<1> DEFINE S == Ahead(at[a], rec[at[a]], change[a], req[a].kind)
<1>4. ASSUME rec[at[a]] # None PROVE Mine(a, "online") \in Seq(S)
  <2>1. "online" \in Steps \ {"write", "conflict"} /\ Fits("online", at[a], rec[at[a]], change[a], req[a].kind)
    BY <1>3, <1>4 DEF Steps, Fits
  <2>. QED
    BY <1>2, <2>1, MineTyped
<1>5. NewLobby(a) \in Seq(S)
  BY <1>2, <1>3, NewLobbyTyped
<1> HIDE DEF S
<1>6. PICK q \in Seq(S) : todo' = [todo EXCEPT ![a] = q]
  BY <1>4, <1>5 DEF CreateLooks, Do
<1>. QED
  BY <1>1, <1>2, <1>3, <1>6, SameHand, Decides DEF round, S

LEMMA RejoinKeeps ==
  ASSUME Inv, NEW a \in Requests, Rejoin(a)
  PROVE  Inv'
<1>. "online" \in Steps \ {"write", "conflict"} /\ "online" # "read" /\ "clear" \in Free
  BY DEF Steps, Free
<1>1. TypeOK /\ Sound(a) /\ At(a, "online") /\ UNCHANGED <<store, keys, hand, given>>
  BY DEF Rejoin, Inv
<1>2. tries[a] = 0 /\ req[a] \in Asked /\ Me(a) \in Players /\ Fits("online", at[a], lobby[a], change[a], req[a].kind)
  BY <1>1, AtStep
<1>3. at[a] \in Ids /\ lobby[a] \in Records
  BY <1>2 DEF Fits
<1>. PICK what \in {"refresh", "remove"} : \E q :
        /\ change' = [change EXCEPT ![a] = [what |-> what, who |-> Me(a), value |-> None]]
        /\ todo' = [todo EXCEPT ![a] = q] /\ UNCHANGED <<seen, tries>>
        /\ q = Mine(a, "read") \/ q = Mine(a, "read") \o Mine(a, "clear") \o NewLobby(a)
  BY DEF Rejoin, Update, Do
<1>4. PICK q :
        /\ change' = [change EXCEPT ![a] = [what |-> what, who |-> Me(a), value |-> None]]
        /\ todo' = [todo EXCEPT ![a] = q] /\ UNCHANGED <<seen, tries>>
        /\ q = Mine(a, "read") \/ q = Mine(a, "read") \o Mine(a, "clear") \o NewLobby(a)
  OBVIOUS
<1> DEFINE c == [what |-> what, who |-> Me(a), value |-> None]
<1> DEFINE S == Ahead(at[a], lobby[a], c, req[a].kind)
<1>5. c \in Changes
  BY <1>2, UpdateTyped
<1> HIDE DEF c
<1>6. Mine(a, "read") \in Seq(S) /\ Mine(a, "clear") \in Seq(S) /\ NewLobby(a) \in Seq(S)
  BY <1>2, <1>3, <1>5, ReadTyped, MineTyped, FreeFits, NewLobbyTyped
<1> HIDE DEF S
<1>7. q \in Seq(S)
  <2>1. Mine(a, "read") \o Mine(a, "clear") \o NewLobby(a) \in Seq(S)
    BY <1>6, ConcatTyped
  <2>. QED
    BY <1>4, <1>6, <2>1, Zenon
<1>. QED
  BY <1>1, <1>2, <1>4, <1>5, <1>7, SameHand, Decides DEF hand, S, c

LEMMA InviteLooksKeeps ==
  ASSUME Inv, NEW a \in Requests, InviteLooks(a)
  PROVE  Inv'
<1>. "look" \in Steps \ {"write", "conflict"} /\ "look" # "read" /\ "pend" \in Free
  BY DEF Steps, Free
<1>1. TypeOK /\ Sound(a) /\ At(a, "look") /\ UNCHANGED <<store, keys, hand, round, given>>
  BY DEF InviteLooks, Inv
<1>2. tries[a] = 0 /\ req[a] \in Asked /\ Me(a) \in Players /\ Fits("look", at[a], lobby[a], change[a], req[a].kind)
  BY <1>1, AtStep
<1>3. req[a].kind = "invite" /\ req[a].value \in Players
  BY <1>2 DEF InviteLooks, Asked
<1>4. PICK q \in Seq(Onward(a)) : todo' = [todo EXCEPT ![a] = q]
  <2>1. "pend" \in Steps \ {"write", "conflict"} /\ Fits("pend", at[a], lobby[a], change[a], req[a].kind) /\ {req[a].value} \subseteq Players
    BY <1>3, FreeFits
  <2>2. Step("pend", {req[a].value}) \in Seq(Onward(a)) /\ <<>> \in Seq(Onward(a))
    BY <2>1, FitsAhead DEF Onward
  <2>. QED
    BY <2>2 DEF InviteLooks, Do
<1>. QED
  BY <1>1, <1>2, <1>4, KeysOnly DEF keys, TypeOK

LEMMA JoinLooksKeeps ==
  ASSUME Inv, NEW a \in Requests, JoinLooks(a)
  PROVE  Inv'
<1>. "look" \in Steps \ {"write", "conflict"} /\ "look" # "read"
  BY DEF Steps, Free
<1>1. TypeOK /\ Sound(a) /\ At(a, "look") /\ UNCHANGED <<store, keys, at, want, given>>
  BY DEF JoinLooks, Inv
<1>2. tries[a] = 0 /\ req[a] \in Asked /\ Me(a) \in Players /\ Fits("look", at[a], lobby[a], change[a], req[a].kind)
  BY <1>1, AtStep
<1>3. at[a] \in Ids /\ rec[at[a]] \in Records \cup {None} /\ lobby' = [lobby EXCEPT ![a] = rec[at[a]]]
  BY <1>1, <1>2 DEF Fits, TypeOK, JoinLooks, Fetch
<1>4. CASE rec[at[a]] = None
  <2>1. todo' = [todo EXCEPT ![a] = <<>>] /\ UNCHANGED round
    BY <1>4 DEF JoinLooks, End, Do
  <2>2. <<>> \in Seq(Ahead(at[a], rec[at[a]], change[a], req[a].kind))
    OBVIOUS
  <2>. QED
    BY <1>1, <1>2, <1>3, <2>1, <2>2, SameHand, Decides DEF round
<1>5. CASE rec[at[a]] # None
  <2>1. PICK what \in {"join", "takeOver"} :
          /\ change' = [change EXCEPT ![a] = [what |-> what, who |-> Me(a), value |-> None]]
          /\ todo' = [todo EXCEPT ![a] = Mine(a, "read")] /\ UNCHANGED <<seen, tries>>
    BY <1>5 DEF JoinLooks, Update, Do
  <2> DEFINE c == [what |-> what, who |-> Me(a), value |-> None]
  <2>2. c \in Changes
    BY <1>2, UpdateTyped
  <2> HIDE DEF c
  <2>3. Mine(a, "read") \in Seq(Ahead(at[a], rec[at[a]], c, req[a].kind))
    BY <1>2, <1>3, <1>5, <2>2, ReadTyped
  <2>. QED
    BY <1>1, <1>2, <1>3, <2>1, <2>2, <2>3, SameHand, Decides DEF c
<1>. QED
  BY <1>4, <1>5

LEMMA ModeLooksKeeps ==
  ASSUME Inv, NEW a \in Requests, ModeLooks(a)
  PROVE  Inv'
<1>. "look" \in Steps \ {"write", "conflict"} /\ "look" # "read"
  BY DEF Steps, Free
<1>1. TypeOK /\ Sound(a) /\ At(a, "look") /\ UNCHANGED <<store, keys, hand, given>>
  BY DEF ModeLooks, Inv
<1>2. tries[a] = 0 /\ req[a] \in Asked /\ Me(a) \in Players /\ Fits("look", at[a], lobby[a], change[a], req[a].kind)
  BY <1>1, AtStep
<1>3. at[a] \in Ids /\ req[a].kind = "mode" /\ req[a].value \in Modes
  BY <1>2 DEF Fits, ModeLooks, Asked
<1>4. CASE ~(rec[at[a]] # None /\ rec[at[a]].owner = Me(a))
  <2>1. todo' = [todo EXCEPT ![a] = <<>>] /\ UNCHANGED round
    BY <1>4 DEF ModeLooks, End, Do
  <2>2. <<>> \in Seq(Ahead(at[a], lobby[a], change[a], req[a].kind))
    OBVIOUS
  <2>. QED
    BY <1>1, <1>2, <2>1, <2>2, SameHand, Decides DEF round, hand
<1>5. CASE rec[at[a]] # None /\ rec[at[a]].owner = Me(a)
  <2> DEFINE c == [what |-> "mode", who |-> Me(a), value |-> req[a].value]
  <2>1. /\ change' = [change EXCEPT ![a] = c]
        /\ todo' = [todo EXCEPT ![a] = Mine(a, "read")] /\ UNCHANGED <<seen, tries>>
    BY <1>5 DEF ModeLooks, Update, Do
  <2>2. c \in Changes /\ c.what = "mode"
    BY <1>2, <1>3 DEF Changes
  <2> HIDE DEF c
  <2>3. Mine(a, "read") \in Seq(Ahead(at[a], lobby[a], c, req[a].kind))
    BY <1>2, <1>3, <2>2, ReadTyped
  <2>. QED
    BY <1>1, <1>2, <1>3, <2>1, <2>2, <2>3, SameHand, Decides DEF hand
<1>. QED
  BY <1>4, <1>5

LEMMA LeaveNamedKeeps ==
  ASSUME Inv, NEW a \in Requests, LeaveNamed(a)
  PROVE  Inv'
<1>. "named" \in Steps \ {"write", "conflict"} /\ "named" # "read" /\ "pointer" \in Free /\ "clear" \in Free
  BY DEF Steps, Free
<1>1. TypeOK /\ Sound(a) /\ At(a, "named") /\ UNCHANGED <<store, keys, at, want, given>>
  BY DEF LeaveNamed, Inv
<1>2. tries[a] = 0 /\ req[a] \in Asked /\ Me(a) \in Players /\ Fits("named", at[a], lobby[a], change[a], req[a].kind)
  BY <1>1, AtStep
<1>3. at[a] \in Ids /\ rec[at[a]] \in Records \cup {None}
  BY <1>1, <1>2 DEF Fits, TypeOK
<1>4. CASE rec[at[a]] # None /\ Me(a) \in In(rec[at[a]])
  <2> DEFINE c == [what |-> "remove", who |-> Me(a), value |-> None]
             S == Ahead(at[a], rec[at[a]], c, req[a].kind)
             q == Mine(a, "read") \o Mine(a, "clear") \o NewLobby(a)
  <2>1. /\ change' = [change EXCEPT ![a] = c] /\ UNCHANGED <<seen, tries>>
        /\ lobby' = [lobby EXCEPT ![a] = rec[at[a]]] /\ todo' = [todo EXCEPT ![a] = q]
    BY <1>4 DEF LeaveNamed, Fetch, Update, Do
  <2>2. c \in Changes /\ c.what = "remove"
    BY <1>2, UpdateTyped
  <2> HIDE DEF c
  <2>3. Mine(a, "read") \in Seq(S) /\ Mine(a, "clear") \in Seq(S) /\ NewLobby(a) \in Seq(S)
    BY <1>2, <1>3, <1>4, <2>2, ReadTyped, MineTyped, FreeFits, NewLobbyTyped
  <2> HIDE DEF S
  <2>4. q \in Seq(S)
    BY <2>3, ConcatTyped
  <2>. QED
    BY <1>1, <1>2, <1>3, <2>1, <2>2, <2>4, SameHand, Decides DEF S
<1>5. CASE ~(rec[at[a]] # None /\ Me(a) \in In(rec[at[a]]))
  <2>1. todo' = [todo EXCEPT ![a] = Mine(a, "pointer")] /\ UNCHANGED <<lobby, round>>
    BY <1>5 DEF LeaveNamed, Do
  <2>2. Mine(a, "pointer") \in Seq(Onward(a))
    BY <1>2, MineTyped, FreeFits DEF Onward
  <2>. QED
    BY <1>1, <1>2, <2>1, <2>2, KeysOnly DEF keys, hand, TypeOK
<1>. QED
  BY <1>4, <1>5

LEMMA LeaveLooksKeeps ==
  ASSUME Inv, NEW a \in Requests, LeaveLooks(a)
  PROVE  Inv'
<1>. "look" \in Steps \ {"write", "conflict"} /\ "look" # "read" /\ "clear" \in Free
  BY DEF Steps, Free
<1>1. TypeOK /\ Sound(a) /\ At(a, "look") /\ UNCHANGED <<store, keys, at, want, round, given>>
  BY DEF LeaveLooks, Inv
<1>2. tries[a] = 0 /\ req[a] \in Asked /\ Me(a) \in Players /\ Fits("look", at[a], lobby[a], change[a], req[a].kind)
  BY <1>1, AtStep
<1>3. at[a] \in Ids /\ rec[at[a]] \in Records \cup {None} /\ lobby' = [lobby EXCEPT ![a] = rec[at[a]]]
  BY <1>1, <1>2 DEF Fits, TypeOK, LeaveLooks, Fetch
<1> DEFINE S == Ahead(at[a], rec[at[a]], change[a], req[a].kind)
<1>4. Mine(a, "clear") \in Seq(S)
  BY <1>2, MineTyped, FreeFits
<1>5. ASSUME rec[at[a]] # None PROVE Mine(a, "asked") \in Seq(S)
  <2>1. "asked" \in Steps \ {"write", "conflict"} /\ Fits("asked", at[a], rec[at[a]], change[a], req[a].kind)
    BY <1>3, <1>5 DEF Steps, Fits
  <2>. QED
    BY <1>2, <2>1, MineTyped
<1> HIDE DEF S
<1>6. PICK q \in Seq(S) : todo' = [todo EXCEPT ![a] = q]
  BY <1>4, <1>5 DEF LeaveLooks, Do
<1>. QED
  BY <1>1, <1>2, <1>3, <1>6, SameHand, Decides DEF round, S

LEMMA LeaveAskedKeeps ==
  ASSUME Inv, NEW a \in Requests, LeaveAsked(a)
  PROVE  Inv'
<1>. "asked" \in Steps \ {"write", "conflict"} /\ "asked" # "read" /\ "clear" \in Free
  BY DEF Steps, Free
<1>1. TypeOK /\ Sound(a) /\ At(a, "asked") /\ UNCHANGED <<store, keys, hand, given>>
  BY DEF LeaveAsked, Inv
<1>2. tries[a] = 0 /\ req[a] \in Asked /\ Me(a) \in Players /\ Fits("asked", at[a], lobby[a], change[a], req[a].kind)
  BY <1>1, AtStep
<1>3. at[a] \in Ids /\ lobby[a] \in Records
  BY <1>2 DEF Fits
<1>4. CASE pending[Me(a)] = None /\ Len(lobby[a].players) <= 1
  <2>1. todo' = [todo EXCEPT ![a] = Mine(a, "clear") \o Mine(a, "delete")] /\ UNCHANGED round
    BY <1>4 DEF LeaveAsked, Do
  <2>2. "delete" \in Steps \ {"write", "conflict"} /\ Fits("delete", at[a], lobby[a], change[a], req[a].kind)
    BY <1>3 DEF Steps, Fits
  <2>3. Mine(a, "clear") \in Seq(Onward(a)) /\ Mine(a, "delete") \in Seq(Onward(a))
    BY <1>2, <2>2, MineTyped, FreeFits DEF Onward
  <2>4. Mine(a, "clear") \o Mine(a, "delete") \in Seq(Onward(a))
    BY <2>3, ConcatTyped
  <2>. QED
    BY <1>1, <1>2, <2>1, <2>4, KeysOnly DEF keys, TypeOK
<1>5. CASE ~(pending[Me(a)] = None /\ Len(lobby[a].players) <= 1)
  <2>. PICK what \in {"stepOut", "remove", "keepOwner"} : \E q :
          /\ change' = [change EXCEPT ![a] = [what |-> what, who |-> Me(a), value |-> None]] /\ UNCHANGED <<seen, tries>>
          /\ todo' = [todo EXCEPT ![a] = q]
          /\ q = Mine(a, "read") \/ q = Mine(a, "clear") \o Mine(a, "read")
    BY <1>5 DEF LeaveAsked, Update, Do
  <2>1. PICK q :
          /\ change' = [change EXCEPT ![a] = [what |-> what, who |-> Me(a), value |-> None]] /\ UNCHANGED <<seen, tries>>
          /\ todo' = [todo EXCEPT ![a] = q]
          /\ q = Mine(a, "read") \/ q = Mine(a, "clear") \o Mine(a, "read")
    OBVIOUS
  <2> DEFINE c == [what |-> what, who |-> Me(a), value |-> None]
             S == Ahead(at[a], lobby[a], c, req[a].kind)
  <2>2. c \in Changes
    BY <1>2, UpdateTyped
  <2> HIDE DEF c
  <2>3. Mine(a, "read") \in Seq(S) /\ Mine(a, "clear") \in Seq(S)
    BY <1>2, <1>3, <2>2, ReadTyped, MineTyped, FreeFits
  <2> HIDE DEF S
  <2>4. q \in Seq(S)
    <3>1. Mine(a, "clear") \o Mine(a, "read") \in Seq(S)
      BY <2>3, ConcatTyped
    <3>. QED
      BY <2>1, <2>3, <3>1, Zenon
  <2>. QED
    BY <1>1, <1>2, <2>1, <2>2, <2>4, SameHand, Decides DEF hand, S, c
<1>. QED
  BY <1>4, <1>5

LEMMA ForgetKeeps ==
  ASSUME Inv, NEW a \in Requests, Forget(a)
  PROVE  Inv'
<1>. "forget" \in Steps \ {"write", "conflict"} /\ "forget" # "read" /\ "clear" \in Free
  BY DEF Steps, Free
<1>1. TypeOK /\ Sound(a) /\ At(a, "forget") /\ UNCHANGED <<store, keys, lobby, want, given>>
  BY DEF Forget, Inv
<1>2. tries[a] = 0 /\ req[a] \in Asked /\ Me(a) \in Players /\ Fits("forget", at[a], lobby[a], change[a], req[a].kind)
  BY <1>1, AtStep
<1>3. pointer[Me(a)] \in Ids \cup {None} /\ at' = [at EXCEPT ![a] = pointer[Me(a)]]
  BY <1>1, <1>2 DEF TypeOK, Forget
<1>4. CASE pointer[Me(a)] = None
  <2>1. todo' = [todo EXCEPT ![a] = <<>>] /\ UNCHANGED round
    BY <1>4 DEF Forget, End, Do
  <2>2. <<>> \in Seq(Ahead(pointer[Me(a)], lobby[a], change[a], req[a].kind))
    OBVIOUS
  <2>. QED
    BY <1>1, <1>2, <1>3, <2>1, <2>2, SameHand, Decides DEF round
<1>5. CASE pointer[Me(a)] # None
  <2> DEFINE c == [what |-> "remove", who |-> Me(a), value |-> None]
             S == Ahead(pointer[Me(a)], lobby[a], c, req[a].kind)
             q == Mine(a, "clear") \o Mine(a, "read")
  <2>1. /\ change' = [change EXCEPT ![a] = c] /\ UNCHANGED <<seen, tries>>
        /\ todo' = [todo EXCEPT ![a] = q]
    BY <1>5 DEF Forget, Update, Do
  <2>2. c \in Changes /\ c.what = "remove"
    BY <1>2, UpdateTyped
  <2> HIDE DEF c
  <2>3. Mine(a, "read") \in Seq(S) /\ Mine(a, "clear") \in Seq(S)
    BY <1>2, <1>3, <1>5, <2>2, ReadTyped, MineTyped, FreeFits
  <2> HIDE DEF S
  <2>4. q \in Seq(S)
    BY <2>3, ConcatTyped
  <2>. QED
    BY <1>1, <1>2, <1>3, <2>1, <2>2, <2>4, SameHand, Decides DEF S
<1>. QED
  BY <1>4, <1>5

LEMMA InTyped ==
  ASSUME NEW r \in Records
  PROVE  In(r) \subseteq Players /\ r.owner \in Players
BY DEF Records, In

LEMMA DisconnectLooksKeeps ==
  ASSUME Inv, NEW a \in Requests, DisconnectLooks(a)
  PROVE  Inv'
<1>. "look" \in Steps \ {"write", "conflict"} /\ "look" # "read" /\ "clear" \in Free /\ "pend" \in Free /\ "forget" \in Free
  BY DEF Steps, Free
<1>1. TypeOK /\ Sound(a) /\ At(a, "look") /\ UNCHANGED <<store, keys, at, want, given>>
  BY DEF DisconnectLooks, Inv
<1>2. tries[a] = 0 /\ req[a] \in Asked /\ Me(a) \in Players /\ Fits("look", at[a], lobby[a], change[a], req[a].kind)
  BY <1>1, AtStep
<1> DEFINE record == rec[at[a]]
           alone == record = None \/ (record # None /\ (Len(record.players) <= 1 \/ Others(record, Me(a)) = {}))
<1>3. at[a] \in Ids /\ record \in Records \cup {None} /\ lobby' = [lobby EXCEPT ![a] = record]
  BY <1>1, <1>2 DEF Fits, TypeOK, DisconnectLooks, Fetch
<1>4. \A c \in Changes \cup {None} : \A do \in {"clear", "forget"} : Mine(a, do) \in Seq(Ahead(at[a], record, c, req[a].kind))
  BY <1>2, MineTyped, FreeFits
<1>5. CASE alone
  <2>1. todo' = [todo EXCEPT ![a] = Mine(a, "forget")] /\ UNCHANGED round
    BY <1>5 DEF DisconnectLooks, Do
  <2>2. Mine(a, "forget") \in Seq(Ahead(at[a], record, change[a], req[a].kind))
    BY <1>1, <1>4, SameHand
  <2>. QED
    BY <1>1, <1>2, <1>3, <2>1, <2>2, SameHand, Decides DEF round
<1>6. CASE ~alone /\ Me(a) = record.owner
  <2> DEFINE S == Ahead(at[a], record, change[a], req[a].kind)
             q == Mine(a, "delete") \o Mine(a, "clear") \o Step("rehome", Others(record, Me(a))) \o Mine(a, "forget")
  <2>1. todo' = [todo EXCEPT ![a] = q] /\ UNCHANGED round
    BY <1>6 DEF DisconnectLooks, Do
  <2>2. record \in Records /\ Others(record, Me(a)) \subseteq Players
    BY <1>3, <1>6, InTyped DEF Others
  <2>3. /\ {"delete", "rehome"} \subseteq Steps \ {"write", "conflict"}
        /\ Fits("delete", at[a], record, change[a], req[a].kind) /\ Fits("rehome", at[a], record, change[a], req[a].kind)
    BY <1>3, <2>2 DEF Steps, Fits
  <2>4. Mine(a, "delete") \in Seq(S)
    BY <1>2, <2>3, MineTyped
  <2>5. Step("rehome", Others(record, Me(a))) \in Seq(S)
    BY <2>2, <2>3, FitsAhead
  <2>6. Mine(a, "clear") \in Seq(S) /\ Mine(a, "forget") \in Seq(S)
    BY <1>1, <1>4, SameHand
  <2> HIDE DEF S
  <2>7. q \in Seq(S)
    BY <2>4, <2>5, <2>6, ConcatTyped
  <2>. QED
    BY <1>1, <1>2, <1>3, <2>1, <2>7, SameHand, Decides DEF round, S
<1>7. CASE ~alone /\ Me(a) # record.owner
  <2> DEFINE c == [what |-> "keepOwner", who |-> Me(a), value |-> None]
             S == Ahead(at[a], record, c, req[a].kind)
             q == Mine(a, "read") \o Mine(a, "clear") \o Step("pend", {record.owner}) \o Mine(a, "forget")
  <2>1. change' = [change EXCEPT ![a] = c] /\ UNCHANGED <<seen, tries>> /\ todo' = [todo EXCEPT ![a] = q]
    BY <1>7 DEF DisconnectLooks, Update, Do
  <2>2. c \in Changes
    BY <1>2, UpdateTyped
  <2> HIDE DEF c
  <2>3. record \in Records /\ {record.owner} \subseteq Players
    BY <1>3, <1>7, InTyped
  <2>4. Mine(a, "read") \in Seq(S)
    BY <1>2, <1>3, <2>2, <2>3, ReadTyped
  <2>5. "pend" \in Steps \ {"write", "conflict"} /\ Fits("pend", at[a], record, c, req[a].kind)
    BY FreeFits
  <2>6. Step("pend", {record.owner}) \in Seq(S)
    BY <2>3, <2>5, FitsAhead
  <2>7. Mine(a, "clear") \in Seq(S) /\ Mine(a, "forget") \in Seq(S)
    BY <1>4, <2>2
  <2> HIDE DEF S
  <2>8. q \in Seq(S)
    BY <2>4, <2>6, <2>7, ConcatTyped
  <2>. QED
    BY <1>1, <1>2, <1>3, <2>1, <2>2, <2>8, SameHand, Decides DEF S
<1>. QED
  BY <1>5, <1>6, <1>7

LEMMA AskKeeps ==
  ASSUME Inv, NEW a \in Requests, Ask(a)
  PROVE  Inv'
<1>1. req[a] = None /\ TypeOK /\ Kept /\ Sound(a) /\ UNCHANGED <<store, keys, lobby, want, round>>
  BY KeptByInv DEF Ask, Inv
<1>2. PICK kind \in AllKinds, p \in Players : \E id \in Named(kind, p), value \in Given(kind, p) :
        /\ req' = [req EXCEPT ![a] = [kind |-> kind, me |-> p, lobby |-> id, value |-> value]]
        /\ at' = [at EXCEPT ![a] = id]
        /\ todo' = [todo EXCEPT ![a] = Step(First(kind, id), {p})]
        /\ online' = CASE kind = "create" -> online \cup {p}
                       [] kind = "disconnect" -> online \ {p}
                       [] OTHER -> online
  BY PartyAssumption DEF Ask, Do
<1>3. PICK id \in Named(kind, p), value \in Given(kind, p) :
        /\ req' = [req EXCEPT ![a] = [kind |-> kind, me |-> p, lobby |-> id, value |-> value]]
        /\ at' = [at EXCEPT ![a] = id]
        /\ todo' = [todo EXCEPT ![a] = Step(First(kind, id), {p})]
  BY <1>2
<1> DEFINE r == [kind |-> kind, me |-> p, lobby |-> id, value |-> value]
<1>4. id \in Ids \cup {None} /\ (kind = "invite" => id \in Ids)
  BY <1>1 DEF Named, Shown, TypeOK, AllKinds
<1>5. r \in Asked
  <2>1. value \in Players \cup Modes \cup {None} /\ (kind = "invite" => value \in Players) /\ (kind = "mode" => value \in Modes)
    BY DEF Given
  <2>. QED
    BY <1>4, <2>1 DEF Asked, Asks
<1>6. online' \subseteq Players
  BY <1>1, <1>2 DEF TypeOK
<1>7. Step(First(kind, id), {p}) \in Seq(Ahead(id, lobby[a], change[a], kind))
  <2>1. First(kind, id) \in Steps \ {"write", "conflict"} /\ Fits(First(kind, id), id, lobby[a], change[a], kind)
    BY <1>4 DEF First, AllKinds, Steps, Fits
  <2>. QED
    BY <2>1, FitsAhead
<1>8. tries[a] = 0
  <2>1. None \notin Asked
    BY PartyAssumption DEF Asked
  <2>2. todo[a] = <<>>
    BY <1>1, <2>1 DEF Sound
  <2>3. Going(a)
    BY <1>1, <2>2 DEF Sound, Writing, Stuck, At
  <2>. QED
    BY <2>2, <2>3 DEF Going, At
<1>9. at'[a] = id /\ req'[a] = r /\ req'[a].kind = kind
  BY <1>1, <1>3 DEF TypeOK
<1> HIDE DEF r
<1>10. Kept'
  BY <1>1, <1>3, <1>4, <1>5, <1>6 DEF Kept, store, keys, round, Asked, r
<1>11. Local(a)
  BY <1>1, <1>3 DEF Local, TypeOK, store, round
<1>12. Step(First(kind, id), {p}) \in Seq(Ahead(at'[a], lobby'[a], change'[a], req'[a].kind))
  <2>1. lobby' = lobby /\ change' = change
    BY <1>1 DEF round
  <2>. QED
    BY <1>7, <1>9, <2>1, Zenon
<1>. QED
  BY <1>1, <1>3, <1>5, <1>8, <1>9, <1>10, <1>11, <1>12, GoesOn DEF round

-----------------------------------------------------------------------------
(* UpdateAsync *)

\* A request that is to write has what it needs for it.
LEMMA AtWrite ==
  ASSUME TypeOK, NEW a \in Requests, Sound(a), At(a, "write")
  PROVE  /\ Writing(a) /\ req[a] \in Asked /\ Me(a) \in Players
         /\ at[a] \in Ids /\ change[a] \in Changes
         /\ change[a].what \notin {"remove", "stepOut", "mode"} => lobby[a] \in Records
<1>1. ~Going(a)
  <2>1. SUFFICES ASSUME Going(a) PROVE FALSE
    OBVIOUS
  <2>2. Head(todo[a]) \in Onward(a)
    BY <2>1 DEF Going, At
  <2>. QED
    BY <2>2 DEF Onward, Ahead, At
<1>2. Writing(a) /\ req[a] \in Asked
  BY <1>1 DEF Sound, Stuck, At
<1>. QED
  BY <1>2 DEF Writing, Fits, Asked, Asks, Me

\* What follows a change fits what it leaves in hand.
LEMMA AfterTyped ==
  ASSUME TypeOK, NEW a \in Requests, Me(a) \in Players, change[a] \in Changes,
         change[a].what \notin {"remove", "stepOut", "mode"} => lobby[a] \in Records,
         Tail(todo[a]) \in Seq(Onward(a)),
         NEW before, change[a].what = "keepOwner" => before \in Records,
         NEW after, change[a].what \in {"refresh", "join", "takeOver"} => after \in Records,
         After(a, before, after)
  PROVE  \E r \in Records \cup {None} : \E q \in Seq(Ahead(at[a], r, change[a], req[a].kind)) :
            lobby' = [lobby EXCEPT ![a] = r] /\ todo' = [todo EXCEPT ![a] = q]
<1> DEFINE S(r) == Ahead(at[a], r, change[a], req[a].kind)
<1>. \A r, do, of : do \in Free /\ of \subseteq Players => Step(do, of) \in Seq(S(r))
  BY FreeFits, FitsAhead
<1>. {"point", "pend", "unpend", "later"} \subseteq Free
  BY DEF Free
<1>1. CASE change[a].what = "refresh"
  <2>1. In(after) \subseteq Players
    BY <1>1, InTyped
  <2>2. lobby' = lobby /\ todo' = [todo EXCEPT ![a] = Step("point", In(after))]
    BY <1>1 DEF After, Do
  <2>3. Step("point", In(after)) \in Seq(S(lobby[a]))
    BY <2>1
  <2>. QED
    BY <2>2, <2>3, SameHand
<1>2. CASE change[a].what \in {"join", "takeOver"}
  <2> DEFINE told == IF change[a].what = "takeOver" \/ Me(a) = after.owner THEN <<>>
                     ELSE Step("later", Others(after, Me(a)))
             done == IF want[a] = None THEN <<>> ELSE Mine(a, "unpend")
  <2>1. after \in Records /\ Others(after, Me(a)) \subseteq Players
    BY <1>2, InTyped DEF Others
  <2>2. lobby' = [lobby EXCEPT ![a] = after] /\ todo' = [todo EXCEPT ![a] = Mine(a, "point") \o done \o told]
    <3>1. Joined(a, after)
      BY <1>2 DEF After
    <3>. QED
      BY <3>1, Zenon DEF Joined, Do
  <2>3. Mine(a, "point") \in Seq(S(after)) /\ done \in Seq(S(after)) /\ told \in Seq(S(after))
    <3>1. Mine(a, "point") \in Seq(S(after)) /\ Mine(a, "unpend") \in Seq(S(after)) /\ <<>> \in Seq(S(after))
      BY DEF Mine
    <3>2. Step("later", Others(after, Me(a))) \in Seq(S(after))
      BY <2>1
    <3> HIDE DEF S
    <3>. QED
      BY <3>1, <3>2
  <2> HIDE DEF done, told, S
  <2>4. Mine(a, "point") \o done \o told \in Seq(S(after))
    BY <2>3, ConcatTyped
  <2>. QED
    BY <2>1, <2>2, <2>4 DEF S
<1>3. CASE change[a].what = "keepOwner" /\ req[a].kind = "leave"
  <2> DEFINE q == Rehomed(before)
  <2>1. before.owner \in Players /\ Others(before, before.owner) \subseteq Players
    BY <1>3, InTyped DEF Others
  <2>2. lobby' = lobby /\ todo' = [todo EXCEPT ![a] = q]
    BY <1>3 DEF After, Do
  <2>3. "rehome" \in Steps \ {"write", "conflict"} /\ Fits("rehome", at[a], lobby[a], change[a], req[a].kind)
    BY <1>3 DEF Steps, Fits
  <2>4. Step("rehome", Others(before, before.owner)) \in Seq(S(lobby[a]))
    BY <2>1, <2>3, FitsAhead
  <2>5. Step("pend", {before.owner}) \in Seq(S(lobby[a]))
    BY <2>1
  <2> HIDE DEF S
  <2>6. q \in Seq(S(lobby[a]))
    BY <2>4, <2>5, ConcatTyped DEF Rehomed
  <2> HIDE DEF q
  <2>. QED
    BY <2>2, <2>6, SameHand DEF S
<1>4. CASE ~(\/ change[a].what \in {"refresh", "join", "takeOver"}
             \/ change[a].what = "keepOwner" /\ req[a].kind = "leave")
  <2>1. lobby' = lobby /\ todo' = [todo EXCEPT ![a] = Tail(todo[a])]
    BY <1>4 DEF After, Then, Do
  <2>2. Tail(todo[a]) \in Seq(S(lobby[a]))
    BY DEF Onward
  <2>. QED
    BY <2>1, <2>2, SameHand
<1>. QED
  BY <1>1, <1>2, <1>3, <1>4

\* A change that is over, made or not.
LEMMA Settles ==
  ASSUME Inv, NEW a \in Requests, StartOver(a), UNCHANGED <<made, keys, at, want, change, given>>,
         rec' \in [Ids -> Records \cup {None}], landed' \in [Requests -> Nat],
         \A b \in Requests \ {a} :
            \/ landed'[b] = landed[b] + 1
            \/ landed'[b] = landed[b] /\ (At(b, "write") => rec'[at[b]] = rec[at[b]]),
         req[a] \in Asked,
         \E r \in Records \cup {None} : \E q \in Seq(Ahead(at[a], r, change[a], req[a].kind)) :
            lobby' = [lobby EXCEPT ![a] = r] /\ todo' = [todo EXCEPT ![a] = q]
  PROVE  Inv'
<1>0. PICK r \in Records \cup {None} : \E q \in Seq(Ahead(at[a], r, change[a], req[a].kind)) :
        lobby' = [lobby EXCEPT ![a] = r] /\ todo' = [todo EXCEPT ![a] = q]
  OBVIOUS
<1>1. PICK q \in Seq(Ahead(at[a], r, change[a], req[a].kind)) :
        lobby' = [lobby EXCEPT ![a] = r] /\ todo' = [todo EXCEPT ![a] = q]
  BY <1>0
<1>2. TypeOK /\ Kept
  BY KeptByInv DEF Inv
<1>3. tries' = [tries EXCEPT ![a] = 0] /\ seen' = [seen EXCEPT ![a] = None]
  BY DEF StartOver
<1>4. Kept'
  BY <1>1, <1>2, <1>3, PartyAssumption DEF Kept, keys, given
<1>5. Local(a)
  BY <1>1, <1>2, <1>3 DEF Local, TypeOK, given
<1>6. lobby'[a] = r /\ at' = at /\ change' = change /\ req' = req /\ tries'[a] = 0
  BY <1>1, <1>2, <1>3 DEF TypeOK, given
<1>7. q \in Seq(Ahead(at'[a], lobby'[a], change'[a], req'[a].kind))
  BY <1>1, <1>6, Zenon
<1>. QED
  BY <1>1, <1>4, <1>5, <1>6, <1>7, GoesOn

LEMMA NothingKeeps ==
  ASSUME Inv, NEW a \in Requests, Nothing(a)
  PROVE  Inv'
<1>. "read" \in Steps \ {"write", "conflict"}
  BY DEF Steps
<1>1. /\ TypeOK /\ Sound(a) /\ At(a, "read") /\ StartOver(a) /\ UNCHANGED <<rec, made, keys, at, want, change, given>>
      /\ landed' = [landed EXCEPT ![a] = 0]
  BY DEF Nothing, Inv
<1>2. /\ req[a] \in Asked /\ Me(a) \in Players /\ Tail(todo[a]) \in Seq(Onward(a))
      /\ Fits("read", at[a], lobby[a], change[a], req[a].kind)
  BY <1>1, AtStep
<1>3. /\ at[a] \in Ids /\ change[a] \in Changes /\ rec[at[a]] \in Records \cup {None}
      /\ change[a].what \notin {"remove", "stepOut", "mode"} => lobby[a] \in Records
  BY <1>1, <1>2 DEF Fits, TypeOK
<1>4. PICK before, after :
        /\ change[a].what = "keepOwner" => before \in Records
        /\ change[a].what \in {"refresh", "join", "takeOver"} => after \in Records
        /\ After(a, before, after)
  <2>1. CASE rec[at[a]] = None /\ After(a, LastSeen(a), lobby[a])
    BY <1>1, <1>3, <2>1 DEF LastSeen, TypeOK
  <2>2. CASE rec[at[a]] # None /\ After(a, rec[at[a]], rec[at[a]])
    BY <1>3, <2>2
  <2>. QED
    BY <2>1, <2>2 DEF Nothing
<1>5. \E r \in Records \cup {None} : \E q \in Seq(Ahead(at[a], r, change[a], req[a].kind)) :
        lobby' = [lobby EXCEPT ![a] = r] /\ todo' = [todo EXCEPT ![a] = q]
  BY <1>1, <1>2, <1>3, <1>4, AfterTyped
<1>6. rec' \in [Ids -> Records \cup {None}] /\ landed' \in [Requests -> Nat]
      /\ \A b \in Requests \ {a} : landed'[b] = landed[b] /\ rec' = rec
  BY <1>1 DEF TypeOK
<1>. QED
  BY <1>1, <1>2, <1>5, <1>6, Settles

LEMMA LandKeeps ==
  ASSUME Inv, NEW a \in Requests, Land(a)
  PROVE  Inv'
<1> DEFINE record == Changed(seen[a], change[a])
<1>1. /\ TypeOK /\ Sound(a) /\ At(a, "write") /\ StartOver(a) /\ UNCHANGED <<made, keys, at, want, change, given>>
      /\ rec' = [rec EXCEPT ![at[a]] = record] /\ After(a, seen[a], record)
  BY DEF Land, Write, Inv
<1>2. /\ Writing(a) /\ req[a] \in Asked /\ Me(a) \in Players /\ at[a] \in Ids /\ change[a] \in Changes
      /\ change[a].what \notin {"remove", "stepOut", "mode"} => lobby[a] \in Records
  BY <1>1, AtWrite
<1>3. seen[a] \in Records /\ Tail(todo[a]) \in Seq(Onward(a))
  BY <1>2 DEF Writing
<1>4. record \in Records \cup {None} /\ (change[a].what # "remove" => record \in Records)
  BY <1>2, <1>3, ChangedTyped
<1> HIDE DEF record
<1>5. \E r \in Records \cup {None} : \E q \in Seq(Ahead(at[a], r, change[a], req[a].kind)) :
        lobby' = [lobby EXCEPT ![a] = r] /\ todo' = [todo EXCEPT ![a] = q]
  BY <1>1, <1>2, <1>3, <1>4, AfterTyped
<1>6. \A b \in Requests : landed'[b] = IF b = a THEN 0 ELSE IF At(b, "write") /\ at[b] = at[a] THEN landed[b] + 1 ELSE landed[b]
  BY DEF Land, Write
<1>7. rec' \in [Ids -> Records \cup {None}] /\ landed' \in [Requests -> Nat]
  <2>1. landed' = [b \in Requests |-> landed'[b]]
    BY DEF Land, Write
  <2>2. \A b \in Requests : landed'[b] \in Nat
    <3>1. landed \in [Requests -> Nat]
      BY <1>1 DEF TypeOK
    <3>. QED
      BY <1>6, <3>1
  <2>3. rec' \in [Ids -> Records \cup {None}]
    BY <1>1, <1>4 DEF TypeOK
  <2>. QED
    BY <2>1, <2>2, <2>3
<1>8. \A b \in Requests \ {a} :
        \/ landed'[b] = landed[b] + 1
        \/ landed'[b] = landed[b] /\ (At(b, "write") => rec'[at[b]] = rec[at[b]])
  BY <1>1, <1>2, <1>6 DEF TypeOK
<1>. QED
  BY <1>1, <1>2, <1>5, <1>7, <1>8, Settles

LEMMA ReadKeeps ==
  ASSUME Inv, NEW a \in Requests, Read(a)
  PROVE  Inv'
<1> DEFINE q == Mine(a, "write") \o Tail(todo[a])
<1>. "read" \in Steps \ {"write", "conflict"}
  BY DEF Steps
<1>1. /\ TypeOK /\ Sound(a) /\ At(a, "read") /\ UNCHANGED <<store, keys, hand, change, tries, given>>
      /\ rec[at[a]] # None /\ ~Keeps(rec[at[a]], change[a])
      /\ seen' = [seen EXCEPT ![a] = rec[at[a]]] /\ todo' = [todo EXCEPT ![a] = q]
  BY DEF Read, Do, Inv
<1>2. /\ req[a] \in Asked /\ Me(a) \in Players /\ Tail(todo[a]) \in Seq(Onward(a))
      /\ Fits("read", at[a], lobby[a], change[a], req[a].kind)
      /\ tries[a] < Attempts /\ tries[a] <= landed[a]
  BY <1>1, AtStep
<1>3. rec[at[a]] \in Records
  BY <1>1, <1>2 DEF Fits, TypeOK
<1>4. q = <<[do |-> "write", of |-> {Me(a)}]>> \o Tail(todo[a])
  BY DEF Mine, Step
<1>5. Tail(todo[a]) \in Seq([do : Steps, of : SUBSET Players]) /\ [do |-> "write", of |-> {Me(a)}] \in [do : Steps, of : SUBSET Players]
  BY <1>2, PlainTyped DEF Onward, Steps
<1>6. q \in Seq([do : Steps, of : SUBSET Players]) /\ q # <<>> /\ Head(q).do = "write" /\ Tail(q) = Tail(todo[a])
  <2> HIDE DEF q
  <2>. QED
    BY <1>4, <1>5
<1> HIDE DEF q
<1>7. todo'[a] = q /\ seen'[a] = rec[at[a]]
  BY <1>1 DEF TypeOK
<1>8. TypeOK'
  BY <1>1, <1>3, <1>6 DEF TypeOK, store, keys, hand, given
<1>9. Local(a)
  BY <1>1 DEF Local, TypeOK, store, keys, hand, given
<1>10. Sound(a)'
  <2>1. Onward(a)' = Onward(a)
    BY <1>1 DEF Onward, hand, given
  <2>2. At(a, "write")' /\ Tail(todo'[a]) \in Seq(Onward(a)')
    BY <1>2, <1>6, <1>7, <2>1 DEF At
  <2>3. Fits("write", at'[a], lobby'[a], change'[a], req'[a].kind)
    BY <1>1, <1>2 DEF Fits, hand, given
  <2>4. rec'[at'[a]] = seen'[a] /\ seen'[a] \in Records /\ ~Keeps(seen'[a], change'[a]) /\ tries'[a] < Attempts /\ tries'[a] <= landed'[a]
    BY <1>1, <1>2, <1>3, <1>7 DEF store, hand, given
  <2>5. req'[a] \in Asked
    BY <1>1, <1>2 DEF given
  <2>. QED
    BY <2>2, <2>3, <2>4, <2>5 DEF Sound, Writing
<1>. QED
  BY <1>8, <1>9, <1>10, OthersSound DEF Inv

LEMMA LoseKeeps ==
  ASSUME Inv, NEW a \in Requests, Lose(a)
  PROVE  Inv'
<1> DEFINE q == IF tries[a] + 1 < Attempts THEN Mine(a, "read") \o Tail(todo[a]) ELSE Mine(a, "conflict")
<1>1. /\ TypeOK /\ Sound(a) /\ At(a, "write") /\ UNCHANGED <<store, keys, hand, change, seen, given>>
      /\ rec[at[a]] # seen[a]
      /\ tries' = [tries EXCEPT ![a] = @ + 1] /\ todo' = [todo EXCEPT ![a] = q]
  BY DEF Lose, Do, Inv
<1>2. /\ Writing(a) /\ req[a] \in Asked /\ Me(a) \in Players /\ at[a] \in Ids /\ change[a] \in Changes
      /\ change[a].what \notin {"remove", "stepOut", "mode"} => lobby[a] \in Records
  BY <1>1, AtWrite
<1>3. Tail(todo[a]) \in Seq(Onward(a)) /\ tries[a] < Attempts /\ tries[a] < landed[a]
  BY <1>1, <1>2 DEF Writing
<1>4. tries[a] \in Nat /\ landed[a] \in Nat /\ Attempts \in Nat /\ tries'[a] = tries[a] + 1 /\ tries'[a] \in 0 .. Attempts /\ tries'[a] <= landed[a]
  BY <1>1, <1>3, PartyAssumption DEF TypeOK
<1>5. Onward(a)' = Onward(a)
  BY <1>1 DEF Onward, hand, given
<1>6. q \in Seq([do : Steps, of : SUBSET Players]) /\ (Going(a)' \/ Stuck(a)')
  <2>1. CASE tries[a] + 1 < Attempts
    <3>1. q = <<[do |-> "read", of |-> {Me(a)}]>> \o Tail(todo[a])
      BY <2>1 DEF Mine, Step
    <3>2. Mine(a, "read") \in Seq(Onward(a))
      BY <1>2, ReadTyped DEF Onward
    <3>3. q \in Seq(Onward(a)) /\ q \in Seq([do : Steps, of : SUBSET Players])
      <4>1. q \in Seq(Onward(a))
        BY <1>3, <2>1, <3>2, ConcatTyped
      <4>. QED
        BY <4>1, PlainTyped DEF Onward
    <3>4. q # <<>> /\ Head(q).do = "read"
      <4> HIDE DEF q
      <4>. QED
        BY <1>3, <3>1
    <3> HIDE DEF q
    <3>5. todo'[a] = q
      BY <1>1 DEF TypeOK
    <3>6. At(a, "read")'
      BY <3>4, <3>5 DEF At
    <3>7. landed' = landed
      BY <1>1 DEF store
    <3>. QED
      BY <1>4, <1>5, <2>1, <3>3, <3>5, <3>6, <3>7 DEF Going
  <2>2. CASE ~(tries[a] + 1 < Attempts)
    <3>1. q = <<[do |-> "conflict", of |-> {Me(a)}]>>
      BY <2>2 DEF Mine, Step
    <3>2. [do |-> "conflict", of |-> {Me(a)}] \in [do : Steps, of : SUBSET Players]
      BY <1>2 DEF Steps
    <3> HIDE DEF q
    <3>3. q \in Seq([do : Steps, of : SUBSET Players]) /\ q # <<>> /\ Head(q).do = "conflict"
      BY <3>1, <3>2
    <3>4. todo'[a] = q
      BY <1>1 DEF TypeOK
    <3>5. At(a, "conflict")'
      BY <3>3, <3>4 DEF At
    <3>6. tries'[a] = Attempts /\ landed' = landed
      BY <1>1, <1>3, <1>4, <2>2 DEF store
    <3>. QED
      BY <1>4, <3>3, <3>5, <3>6 DEF Stuck
  <2>. QED
    BY <2>1, <2>2
<1> HIDE DEF q
<1>7. TypeOK'
  BY <1>1, <1>4, <1>6 DEF TypeOK, store, keys, hand, given
<1>8. Local(a)
  BY <1>1 DEF Local, TypeOK, store, keys, hand, given
<1>9. req'[a] \in Asked
  BY <1>1, <1>2 DEF given
<1>. QED
  BY <1>6, <1>7, <1>8, <1>9, OthersSound DEF Inv, Sound

-----------------------------------------------------------------------------
(* The first state *)

LEMMA SetToSeqTyped ==
  ASSUME NEW S \in SUBSET Players
  PROVE  SetToSeq(S) \in Seq(S) /\ IsInjective(SetToSeq(S))
<1>1. IsFiniteSet(S)
  BY PartyAssumption, FS_Subset
<1>2. Cardinality(S) \in Nat /\ \E f \in [1 .. Cardinality(S) -> S] : IsInjective(f)
  BY <1>1, FS_CardinalityType DEF ExistsBijection, Bijection, Injection
<1>3. SetToSeq(S) \in [1 .. Cardinality(S) -> S] /\ IsInjective(SetToSeq(S))
  BY <1>2, Zenon DEF SetToSeq
<1>. QED
  BY <1>2, <1>3

\* A player at home, and those who have joined.
LEMMA HomeTyped ==
  ASSUME NEW p \in Players, NEW S \in SUBSET (Players \ {p})
  PROVE  LET r == [Solo(p, "2v2") EXCEPT !.players = @ \o SetToSeq(S)] IN r \in Records /\ Distinct(r)
<1> DEFINE t == SetToSeq(S)
           u == <<p>> \o t
           r == [Solo(p, "2v2") EXCEPT !.players = @ \o SetToSeq(S)]
<1>1. t \in Seq(S) /\ IsInjective(t)
  BY SetToSeqTyped
<1> HIDE DEF t
<1>2. t \in Seq(Players) /\ Len(t) \in Nat /\ DOMAIN t = 1 .. Len(t) /\ \A k \in 1 .. Len(t) : t[k] \in S
  BY <1>1
<1>3. u \in Seq(Players) /\ DOMAIN u = 1 .. Len(t) + 1 /\ u[1] = p /\ \A k \in 2 .. Len(t) + 1 : u[k] = t[k - 1]
  BY <1>2
<1> HIDE DEF u
<1>4. \A k, l \in DOMAIN t : t[k] = t[l] => k = l
  BY <1>1 DEF IsInjective
<1>5. ASSUME NEW k \in 1 .. Len(t) + 1, NEW l \in 1 .. Len(t) + 1, u[k] = u[l] PROVE k = l
  <2>1. \A m \in 2 .. Len(t) + 1 : m - 1 \in DOMAIN t /\ u[m] = t[m - 1] /\ u[m] # p
    BY <1>2, <1>3
  <2>2. CASE k = 1 \/ l = 1
    BY <1>2, <1>3, <1>5, <2>1, <2>2
  <2>3. CASE k # 1 /\ l # 1
    BY <1>2, <1>4, <1>5, <2>1, <2>3
  <2>. QED
    BY <2>2, <2>3
<1>6. r = [Solo(p, "2v2") EXCEPT !.players = u] /\ Solo(p, "2v2") \in Records
  <2>1. "2v2" \in LobbyModes
    BY DEF LobbyModes
  <2>. QED
    BY <2>1, SoloTyped DEF Solo, u, t
<1>7. r \in Records /\ r.players = u
  BY <1>3, <1>6 DEF Records
<1>8. Distinct(r)
  BY <1>3, <1>5, <1>7 DEF Distinct, IsInjective
<1>. QED
  BY <1>7, <1>8

LEMMA InitRecords ==
  ASSUME Init
  PROVE  /\ rec \in [Ids -> Records \cup {None}]
         /\ \A id \in Ids : rec[id] # None => id \in Players /\ Distinct(rec[id])
         /\ pointer \in [Players -> Ids \cup {None}] /\ pending \in [Players -> Ids \cup {None}]
<1> DEFINE room(start, id) == [Solo(id, "2v2") EXCEPT !.players = @ \o SetToSeq({p \in Players \ {id} : start.home[p] = id})]
<1>1. PICK start \in Starts :
        /\ rec = [id \in Ids |-> IF id \in Players /\ start.home[id] = id THEN room(start, id) ELSE None]
        /\ pointer = start.home
        /\ pending = start.invite
  BY DEF Init
<1>2. \A id \in Players : room(start, id) \in Records /\ Distinct(room(start, id))
  BY HomeTyped
<1>3. start.home \in [Players -> Players] /\ start.invite \in [Players -> Players \cup {None}] /\ Players \subseteq Ids
  BY PartyAssumption DEF Ids
<1> HIDE DEF room
<1>4. rec \in [Ids -> Records \cup {None}] /\ \A id \in Ids : rec[id] # None => id \in Players /\ Distinct(rec[id])
  BY <1>1, <1>2
<1>. QED
  BY <1>1, <1>3, <1>4

LEMMA InitInv ==
  ASSUME Init
  PROVE  Inv
<1>1. /\ made = 0 /\ online = Players
      /\ todo = [a \in Requests |-> <<>>]
      /\ req = [a \in Requests |-> None]
      /\ at = req /\ lobby = req /\ want = req /\ change = req /\ seen = req
      /\ tries = [a \in Requests |-> 0] /\ landed = tries
  BY DEF Init
<1>2. TypeOK
  BY <1>1, InitRecords, PartyAssumption DEF TypeOK
<1>3. ASSUME NEW a \in Requests PROVE Sound(a)
  BY <1>1 DEF Sound, Going, At
<1>. QED
  BY <1>2, <1>3 DEF Inv

LEMMA NextInv ==
  ASSUME Inv, [Next]_vars
  PROVE  Inv'
<1>1. ASSUME NEW a \in Requests, Ask(a) PROVE Inv'
  BY <1>1, AskKeeps
<1>2. ASSUME NEW a \in Requests, Nothing(a) \/ Read(a) \/ Land(a) \/ Lose(a) PROVE Inv'
  BY <1>2, NothingKeeps, ReadKeeps, LandKeeps, LoseKeeps
<1>3. ASSUME NEW a \in Requests, Back(a) \/ Invited(a) \/ Pointer(a) \/ Forget(a) PROVE Inv'
  BY <1>3, BackKeeps, InvitedKeeps, PointerKeeps, ForgetKeeps
<1>4. ASSUME NEW a \in Requests, CreateLooks(a) \/ Rejoin(a) \/ InviteLooks(a) \/ JoinLooks(a) \/ ModeLooks(a) PROVE Inv'
  BY <1>4, CreateLooksKeeps, RejoinKeeps, InviteLooksKeeps, JoinLooksKeeps, ModeLooksKeeps
<1>5. ASSUME NEW a \in Requests, LeaveNamed(a) \/ LeaveLooks(a) \/ LeaveAsked(a) \/ DisconnectLooks(a) PROVE Inv'
  BY <1>5, LeaveNamedKeeps, LeaveLooksKeeps, LeaveAskedKeeps, DisconnectLooksKeeps
<1>6. ASSUME NEW a \in Requests, Point(a) \/ Clear(a) \/ Pend(a) \/ Unpend(a) \/ Later(a) PROVE Inv'
  BY <1>6, PointKeeps, ClearKeeps, PendKeeps, UnpendKeeps, LaterKeeps
<1>7. ASSUME NEW a \in Requests, Save(a) \/ Rehome(a) \/ Delete(a) PROVE Inv'
  BY <1>7, SaveKeeps, RehomeKeeps, DeleteKeeps
<1>8. ASSUME UNCHANGED vars PROVE Inv'
  BY <1>8 DEF vars, store, keys, hand, round, given, Inv, TypeOK, Sound, Going, Writing, Stuck, Onward, At
<1>. QED
  BY <1>1, <1>2, <1>3, <1>4, <1>5, <1>6, <1>7, <1>8 DEF Next

\* Every state of the handlers and of the store is one the types name.
THEOREM SpecTypeOK == Spec => []TypeOK
<1>1. Init => Inv
  BY InitInv
<1>2. Inv /\ [Next]_vars => Inv'
  BY NextInv
<1>3. Inv => TypeOK
  BY DEF Inv
<1>. QED
  BY <1>1, <1>2, <1>3, PTL DEF Spec

\* A change is given up only when other requests' changes came between in each of its Attempts rounds (UpdateAsync).
THEOREM SpecBeatenOnly == Spec => []BeatenOnly
<1>1. Init => Inv
  BY InitInv
<1>2. Inv /\ [Next]_vars => Inv'
  BY NextInv
<1>3. Inv => BeatenOnly
  <2>1. ASSUME Inv, NEW a \in Requests PROVE tries[a] <= landed[a] /\ (At(a, "conflict") => tries[a] = Attempts)
    <3>1. Sound(a)
      BY <2>1 DEF Inv
    <3>2. At(a, "conflict") => ~Going(a) /\ ~Writing(a)
      <4>1. ASSUME At(a, "conflict"), Going(a) PROVE FALSE
        <5>1. Head(todo[a]) \in Onward(a)
          BY <4>1 DEF Going, At
        <5>. QED
          BY <4>1, <5>1 DEF Onward, Ahead, At
      <4>. QED
        BY <4>1 DEF Writing, At
    <3>. QED
      BY <3>1, <3>2 DEF Sound, Going, Writing, Stuck
  <2>. QED
    BY <2>1 DEF BeatenOnly
<1>. QED
  BY <1>1, <1>2, <1>3, PTL DEF Spec

-----------------------------------------------------------------------------
(* The records, as Rooms has them *)

\* Rooms speaks of a lobby as Party does.
LEMMA SameLobby ==
  /\ Promise!Records = Records /\ Promise!LobbyModes = LobbyModes /\ Promise!Changes = Changes
  /\ \A r : Promise!Distinct(r) = Distinct(r)
  /\ \A p, mode : Promise!Solo(p, mode) = Solo(p, mode)
  /\ \A r, c : Promise!Keeps(r, c) = Keeps(r, c)
  /\ \A r, c : Promise!Changed(r, c) = Changed(r, c)
<1>1. Promise!Records = Records /\ Promise!LobbyModes = LobbyModes /\ Promise!Changes = Changes
  BY DEF Promise!Records, Promise!LobbyModes, Promise!Changes, Records, LobbyModes, Changes
<1>2. ASSUME NEW r PROVE Promise!Distinct(r) = Distinct(r)
  BY Zenon DEF Promise!Distinct, Promise!IsInjective, Distinct, IsInjective
<1>3. ASSUME NEW p, NEW mode PROVE Promise!Solo(p, mode) = Solo(p, mode)
  BY Zenon DEF Promise!Solo, Solo
<1>4. ASSUME NEW r, NEW c PROVE Promise!Keeps(r, c) = Keeps(r, c)
  BY Zenon DEF Promise!Keeps, Promise!In, Keeps, In
<1>5. ASSUME NEW r, NEW p PROVE Promise!Without(r, p) = Without(r, p) /\ Promise!Join(r, p) = Join(r, p)
  <2>1. Promise!In(r) = In(r) /\ Promise!Place(r, p) = Place(r, p)
    BY Zenon DEF Promise!In, In, Promise!Place, Place
  <2>2. \A s, i : Promise!RemoveAt(s, i) = RemoveAt(s, i)
    BY Zenon DEF Promise!RemoveAt, RemoveAt
  <2>3. Promise!Without(r, p) = Without(r, p)
    BY <2>1, <2>2, Zenon DEF Promise!Without, Without
  <2>4. Promise!Join(r, p) = Join(r, p)
    BY Zenon DEF Promise!Join, Promise!DuoMode, Join, DuoMode
  <2>. QED
    BY <2>3, <2>4
<1>6. ASSUME NEW r, NEW c PROVE Promise!Changed(r, c) = Changed(r, c)
  BY <1>5, Zenon DEF Promise!Changed, Changed
<1>. QED
  BY <1>1, <1>2, <1>3, <1>4, <1>6

\* A step does to the records what Rooms lets it: one change, to the record as it is, or none.
LEMMA StepIsRooms ==
  ASSUME Inv, Next
  PROVE  Promise!Next \/ UNCHANGED <<rec, made>>
<1>1. ASSUME NEW a \in Requests, Land(a) PROVE Promise!Next
  <2>1. TypeOK /\ Sound(a) /\ At(a, "write") /\ rec[at[a]] = seen[a] /\ made' = made
        /\ rec' = [rec EXCEPT ![at[a]] = Changed(seen[a], change[a])]
    BY <1>1 DEF Land, Write, Inv
  <2>2. Writing(a) /\ at[a] \in Ids /\ change[a] \in Changes
    BY <2>1, AtWrite
  <2>3. seen[a] # None /\ ~Keeps(seen[a], change[a])
    BY <2>2, PartyAssumption DEF Writing
  <2>4. Promise!Change(at[a], change[a])
    BY <2>1, <2>3, SameLobby DEF Promise!Change
  <2>. QED
    BY <2>2, <2>4, SameLobby DEF Promise!Next
<1>2. ASSUME NEW a \in Requests, Delete(a) PROVE Promise!Next
  <2>1. TypeOK /\ Sound(a) /\ At(a, "delete") /\ made' = made /\ rec' = [rec EXCEPT ![at[a]] = None]
    BY <1>2 DEF Delete, Write, Inv
  <2>. "delete" \in Steps \ {"write", "conflict"}
    BY DEF Steps
  <2>2. at[a] \in Ids
    <3>1. Fits("delete", at[a], lobby[a], change[a], req[a].kind)
      BY <2>1, AtStep
    <3>. QED
      BY <3>1 DEF Fits
  <2>. QED
    BY <2>1, <2>2 DEF Promise!Next, Promise!Delete
<1>3. ASSUME NEW a \in Requests, NEW p \in Players, Make(a, p), req[a].kind = "create" \/ lobby[a] \in Records PROVE Promise!Next
  <2> DEFINE mode == IF req[a].kind = "create" THEN "2v2" ELSE lobby[a].mode
  <2>1. made' = made + 1 /\ made' \in NewIds /\ made \in Nat /\ rec' = [rec EXCEPT ![made'] = Solo(p, mode)]
    BY <1>3 DEF Make, Write, Inv, TypeOK
  <2>2. mode \in LobbyModes
    BY <1>3 DEF Records, LobbyModes
  <2> HIDE DEF mode
  <2>3. made' \notin Players \cup 1 .. made /\ 1 .. made' = 1 .. made \cup {made'}
    BY <2>1, PartyAssumption
  <2>4. Promise!Make(made', p, mode)
    BY <2>1, <2>3, SameLobby DEF Promise!Make
  <2>5. made' \in Ids
    BY <2>1 DEF Ids
  <2>. QED
    BY <2>2, <2>4, <2>5, SameLobby DEF Promise!Next
<1>4. ASSUME NEW a \in Requests, Save(a) \/ Rehome(a) PROVE Promise!Next
  <2>. {"save", "rehome"} \subseteq Steps \ {"write", "conflict"}
    BY DEF Steps
  <2>1. TypeOK /\ Sound(a) /\ (At(a, "save") \/ At(a, "rehome")) /\ \E p \in Of(a) : Make(a, p)
    BY <1>4 DEF Save, Rehome, Inv
  <2>2. Of(a) \subseteq Players /\ (req[a].kind = "create" \/ lobby[a] \in Records)
    BY <2>1, AtStep DEF Fits
  <2>. QED
    BY <1>3, <2>1, <2>2
<1>5. ASSUME NEW a \in Requests, Ask(a) \/ Nothing(a) \/ Read(a) \/ Lose(a) \/ Back(a) \/ Invited(a) \/ Pointer(a) \/ Forget(a)
      PROVE UNCHANGED <<rec, made>>
  BY <1>5 DEF Ask, Nothing, Read, Lose, Back, Invited, Pointer, Forget, store
<1>6. ASSUME NEW a \in Requests, CreateLooks(a) \/ Rejoin(a) \/ InviteLooks(a) \/ JoinLooks(a) \/ ModeLooks(a)
      PROVE UNCHANGED <<rec, made>>
  BY <1>6 DEF CreateLooks, Rejoin, InviteLooks, JoinLooks, ModeLooks, store
<1>7. ASSUME NEW a \in Requests, LeaveNamed(a) \/ LeaveLooks(a) \/ LeaveAsked(a) \/ DisconnectLooks(a)
      PROVE UNCHANGED <<rec, made>>
  BY <1>7 DEF LeaveNamed, LeaveLooks, LeaveAsked, DisconnectLooks, store
<1>8. ASSUME NEW a \in Requests, Point(a) \/ Clear(a) \/ Pend(a) \/ Unpend(a) \/ Later(a)
      PROVE UNCHANGED <<rec, made>>
  BY <1>8 DEF Point, Clear, Pend, Unpend, Later, store
<1>. QED
  BY <1>1, <1>2, <1>4, <1>5, <1>6, <1>7, <1>8 DEF Next

\* Of however many requests at once, each change is made at one moment to the record there is: Party implements Rooms.
THEOREM SpecRooms == Spec => RoomsSpec
<1>1. Init => Inv /\ Promise!Init
  <2>1. ASSUME Init PROVE Promise!Init
    <3>1. made = 0
      BY <2>1 DEF Init
    <3>. QED
      BY <2>1, <3>1, InitRecords, SameLobby DEF Promise!Init, Ids
  <2>. QED
    BY <2>1, InitInv
<1>2. Inv /\ [Next]_vars => Inv'
  BY NextInv
<1>3. Inv /\ [Next]_vars => [Promise!Next]_(Promise!vars)
  <2>1. ASSUME UNCHANGED <<rec, made>> PROVE UNCHANGED Promise!vars
    BY <2>1 DEF Promise!vars
  <2>2. ASSUME UNCHANGED vars PROVE UNCHANGED <<rec, made>>
    BY <2>2 DEF vars, store
  <2>. QED
    BY <2>1, <2>2, StepIsRooms
<1>. QED
  BY <1>1, <1>2, <1>3, PTL DEF Spec, RoomsSpec, Promise!Spec

\* No change of Rooms has a player in a lobby twice.
LEMMA RoomsNoTwice ==
  ASSUME Inv, Inv', NoTwice, Promise!Next
  PROVE  NoTwice'
<1>1. rec \in [Ids -> Records \cup {None}]
  BY DEF Inv, TypeOK
<1>2. PICK id, r : id \in Ids /\ rec' = [rec EXCEPT ![id] = r] /\ (r # None => Distinct(r))
  <2>1. CASE \E id \in Ids, p \in Players, mode \in LobbyModes : Promise!Make(id, p, mode)
    BY <2>1, SoloTyped, SameLobby DEF Promise!Make
  <2>2. CASE \E id \in Ids, c \in Changes : Promise!Change(id, c)
    <3>1. PICK id \in Ids, c \in Changes : rec[id] # None /\ ~Keeps(rec[id], c) /\ rec' = [rec EXCEPT ![id] = Changed(rec[id], c)]
      BY <2>2, SameLobby DEF Promise!Change
    <3>2. rec[id] \in Records /\ Distinct(rec[id])
      BY <1>1, <3>1 DEF NoTwice
    <3>. QED
      BY <3>1, <3>2, ChangedTyped
  <2>3. CASE \E id \in Ids : Promise!Delete(id)
    BY <2>3 DEF Promise!Delete
  <2>. QED
    BY <2>1, <2>2, <2>3, SameLobby DEF Promise!Next
<1>. QED
  BY <1>1, <1>2 DEF NoTwice

\* A player is in a lobby once, though two of their joins run at once.
THEOREM SpecNoTwice == Spec => []NoTwice
<1>1. Init => Inv /\ NoTwice
  BY InitInv, InitRecords DEF NoTwice
<1>2. Inv /\ NoTwice /\ [Next]_vars => Inv' /\ NoTwice'
  <2>1. ASSUME NoTwice, UNCHANGED <<rec, made>> PROVE NoTwice'
    BY <2>1 DEF NoTwice
  <2>2. ASSUME UNCHANGED vars PROVE UNCHANGED <<rec, made>>
    BY <2>2 DEF vars, store
  <2>. QED
    BY <2>1, <2>2, NextInv, StepIsRooms, RoomsNoTwice
<1>. QED
  BY <1>1, <1>2, PTL DEF Spec

-----------------------------------------------------------------------------
(* Joins *)

\* A change is about the player whose request it is.
Whose == \A a \in Requests : change[a] # None => req[a] # None /\ change[a].who = Me(a)

\* The request whose step it is: the others have what they had before them, and UpdateAsync's two commands come when they are next.
LEMMA OneMoves ==
  ASSUME Inv, Next
  PROVE  \E a \in Requests :
            /\ \E q : todo' = [todo EXCEPT ![a] = q]
            /\ At(a, "read") => Nothing(a) \/ Read(a)
            /\ At(a, "write") => Land(a) \/ Lose(a)
<1>1. ASSUME NEW a \in Requests, Ask(a) PROVE (\E q : todo' = [todo EXCEPT ![a] = q]) /\ ~At(a, "read") /\ ~At(a, "write")
  <2>1. req[a] = None /\ Sound(a)
    BY <1>1 DEF Ask, Inv
  <2>2. todo[a] = <<>>
    BY <2>1, PartyAssumption DEF Sound, Asked
  <2>. QED
    BY <1>1, <2>2 DEF Ask, Do, At
<1>2. ASSUME NEW a \in Requests, Nothing(a) \/ Read(a) PROVE (\E q : todo' = [todo EXCEPT ![a] = q]) /\ At(a, "read")
  <2>1. CASE Read(a)
    BY <2>1 DEF Read, Do
  <2>2. CASE Nothing(a)
    <3>1. \E before, after : After(a, before, after)
      BY <2>2 DEF Nothing
    <3>. QED
      BY <2>2, <3>1 DEF Nothing, After, Joined, Then, Do
  <2>. QED
    BY <1>2, <2>1, <2>2
<1>3. ASSUME NEW a \in Requests, Land(a) \/ Lose(a) PROVE (\E q : todo' = [todo EXCEPT ![a] = q]) /\ At(a, "write")
  BY <1>3 DEF Land, Lose, After, Joined, Then, Do
<1>4. ASSUME NEW a \in Requests, Back(a) \/ Invited(a) \/ Pointer(a) \/ Forget(a)
      PROVE (\E q : todo' = [todo EXCEPT ![a] = q]) /\ ~At(a, "read") /\ ~At(a, "write")
  BY <1>4 DEF Back, Invited, Pointer, Forget, At, Do, End, Update
<1>5. ASSUME NEW a \in Requests, CreateLooks(a) \/ Rejoin(a) \/ InviteLooks(a) \/ JoinLooks(a) \/ ModeLooks(a)
      PROVE (\E q : todo' = [todo EXCEPT ![a] = q]) /\ ~At(a, "read") /\ ~At(a, "write")
  BY <1>5 DEF CreateLooks, Rejoin, InviteLooks, JoinLooks, ModeLooks, At, Do, End, Update
<1>6. ASSUME NEW a \in Requests, LeaveNamed(a) \/ LeaveLooks(a) \/ LeaveAsked(a) \/ DisconnectLooks(a)
      PROVE (\E q : todo' = [todo EXCEPT ![a] = q]) /\ ~At(a, "read") /\ ~At(a, "write")
  BY <1>6 DEF LeaveNamed, LeaveLooks, LeaveAsked, DisconnectLooks, At, Do, End, Update
<1>7. ASSUME NEW a \in Requests, Point(a) \/ Clear(a) \/ Pend(a) \/ Unpend(a) \/ Later(a)
      PROVE (\E q : todo' = [todo EXCEPT ![a] = q]) /\ ~At(a, "read") /\ ~At(a, "write")
  BY <1>7 DEF Point, Clear, Pend, Unpend, Later, At, Do
<1>8. ASSUME NEW a \in Requests, Save(a) \/ Rehome(a) \/ Delete(a)
      PROVE (\E q : todo' = [todo EXCEPT ![a] = q]) /\ ~At(a, "read") /\ ~At(a, "write")
  BY <1>8 DEF Save, Rehome, Delete, At, Do, Then
<1>9. \A a \in Requests : At(a, "read") => ~At(a, "write")
  BY DEF At
<1>. QED
  BY <1>1, <1>2, <1>3, <1>4, <1>5, <1>6, <1>7, <1>8, <1>9 DEF Next

LEMMA NextWhose ==
  ASSUME Inv, Whose, Next
  PROVE  Whose'
<1>1. TypeOK /\ \A a \in Requests : todo[a] # <<>> => req[a] # None
  BY PartyAssumption DEF Inv, Sound, Asked
<1>2. ASSUME UNCHANGED <<change, req>> PROVE Whose'
  BY <1>2 DEF Whose, Me
<1>3. ASSUME NEW a \in Requests, Ask(a) PROVE Whose'
  <2>1. req[a] = None /\ change' = change /\ \A b \in Requests \ {a} : req'[b] = req[b]
    BY <1>1, <1>3 DEF Ask, round, TypeOK
  <2>. QED
    BY <2>1 DEF Whose, Me
<1>4. ASSUME NEW a \in Requests, todo[a] # <<>>, req' = req,
             NEW what, NEW value, change' = [change EXCEPT ![a] = [what |-> what, who |-> Me(a), value |-> value]]
      PROVE  Whose'
  <2>1. \A b \in Requests : change'[b] = IF b = a THEN [what |-> what, who |-> Me(a), value |-> value] ELSE change[b]
    BY <1>1, <1>4 DEF TypeOK
  <2>. QED
    BY <1>1, <1>4, <2>1 DEF Whose, Me
<1>5. ASSUME NEW a \in Requests, todo[a] # <<>>, req' = req, NEW what, NEW value, NEW steps, Update(a, what, value, steps) PROVE Whose'
  BY <1>4, <1>5 DEF Update
<1>6. ASSUME NEW a \in Requests, Nothing(a) \/ Read(a) \/ Land(a) \/ Lose(a) \/ Back(a) \/ Invited(a) \/ Pointer(a) PROVE UNCHANGED <<change, req>>
  BY <1>6 DEF Nothing, Read, Land, Lose, Back, Invited, Pointer, round, given
<1>7. ASSUME NEW a \in Requests, CreateLooks(a) \/ InviteLooks(a) \/ LeaveLooks(a) PROVE UNCHANGED <<change, req>>
  BY <1>7 DEF CreateLooks, InviteLooks, LeaveLooks, round, given
<1>8. ASSUME NEW a \in Requests, Point(a) \/ Clear(a) \/ Pend(a) \/ Unpend(a) \/ Later(a) \/ Save(a) \/ Rehome(a) \/ Delete(a)
      PROVE UNCHANGED <<change, req>>
  BY <1>8 DEF Point, Clear, Pend, Unpend, Later, Save, Rehome, Delete, round, given
<1>9. ASSUME NEW a \in Requests, Forget(a) PROVE Whose'
  BY <1>2, <1>5, <1>9 DEF Forget, At, round, given
<1>10. ASSUME NEW a \in Requests, Rejoin(a) PROVE Whose'
  BY <1>2, <1>5, <1>10 DEF Rejoin, At, round, given
<1>11. ASSUME NEW a \in Requests, JoinLooks(a) PROVE Whose'
  BY <1>2, <1>5, <1>11 DEF JoinLooks, At, round, given
<1>12. ASSUME NEW a \in Requests, ModeLooks(a) PROVE Whose'
  BY <1>2, <1>5, <1>12 DEF ModeLooks, At, round, given
<1>13. ASSUME NEW a \in Requests, LeaveNamed(a) PROVE Whose'
  BY <1>2, <1>5, <1>13 DEF LeaveNamed, At, round, given
<1>14. ASSUME NEW a \in Requests, LeaveAsked(a) PROVE Whose'
  BY <1>2, <1>5, <1>14 DEF LeaveAsked, At, round, given
<1>15. ASSUME NEW a \in Requests, DisconnectLooks(a) PROVE Whose'
  BY <1>2, <1>5, <1>15 DEF DisconnectLooks, At, round, given
<1>. QED
  BY <1>2, <1>3, <1>6, <1>7, <1>8, <1>9, <1>10, <1>11, <1>12, <1>13, <1>14, <1>15 DEF Next

LEMMA JoinedIsIn ==
  ASSUME NEW r \in Records, NEW p \in Players
  PROVE  p \in In(Join(r, p))
<1>1. r.players \in Seq(Players) /\ Join(r, p).players = Append(r.players, p)
  <2>1. r = [owner |-> r.owner, players |-> r.players, mode |-> r.mode] /\ r.players \in Seq(Players)
    BY DEF Records
  <2>. QED
    BY <2>1 DEF Join
<1>2. Len(r.players) + 1 \in DOMAIN Append(r.players, p) /\ Append(r.players, p)[Len(r.players) + 1] = p
  BY <1>1
<1>. QED
  BY <1>1, <1>2 DEF In

\* A join that is answered has the player in the lobby, however many others change it meanwhile, unless it is gone.
THEOREM SpecJoinLands == Spec => JoinLands
<1>1. Init => Inv /\ Whose
  BY InitInv DEF Init, Whose
<1>2. Inv /\ Whose /\ [Next]_vars => Inv' /\ Whose'
  <2>1. ASSUME Whose, UNCHANGED vars PROVE Whose'
    BY <2>1 DEF Whose, Me, vars, round, given
  <2>. QED
    BY <2>1, NextInv, NextWhose
<1>3. ASSUME Inv, Whose, Next, NEW a \in Requests,
             change[a] # None, change[a].what = "join", At(a, "read") \/ At(a, "write"), At(a, "point")'
      PROVE  rec'[at[a]] = None \/ Me(a) \in In(rec'[at[a]])
  <2>1. TypeOK /\ Sound(a) /\ change[a].who = Me(a)
    BY <1>3 DEF Inv, Whose
  <2>2. PICK b \in Requests :
          /\ \E q : todo' = [todo EXCEPT ![b] = q]
          /\ At(b, "read") => Nothing(b) \/ Read(b)
          /\ At(b, "write") => Land(b) \/ Lose(b)
    BY <1>3, OneMoves
  <2>3. b = a
    <3>1. ASSUME b # a PROVE todo'[a] = todo[a]
      BY <2>1, <2>2, <3>1 DEF TypeOK
    <3>. QED
      BY <1>3, <3>1 DEF At
  <2>4. CASE Nothing(a)
    BY <1>3, <2>1, <2>4 DEF Nothing, Keeps
  <2>5. CASE Land(a)
    <3>1. At(a, "write") /\ rec' = [rec EXCEPT ![at[a]] = Changed(seen[a], change[a])]
      BY <2>5 DEF Land, Write
    <3>2. Writing(a) /\ Me(a) \in Players /\ at[a] \in Ids
      BY <2>1, <3>1, AtWrite
    <3>3. seen[a] \in Records /\ Changed(seen[a], change[a]) = Join(seen[a], Me(a))
      BY <1>3, <2>1, <3>2 DEF Writing, Changed
    <3>4. rec'[at[a]] = Join(seen[a], Me(a))
      BY <2>1, <3>1, <3>2, <3>3 DEF TypeOK
    <3>. QED
      BY <3>2, <3>3, <3>4, JoinedIsIn
  <2>6. CASE Read(a) \/ Lose(a)
    <3>. "read" \in Steps \ {"write", "conflict"}
      BY DEF Steps
    <3>1. Tail(todo[a]) \in Seq(Onward(a))
      <4>1. At(a, "read") \/ At(a, "write")
        BY <2>6 DEF Read, Lose
      <4>2. CASE At(a, "read")
        BY <2>1, <4>2, AtStep
      <4>3. CASE At(a, "write")
        BY <2>1, <4>3, AtWrite DEF Writing
      <4>. QED
        BY <4>1, <4>2, <4>3
    <3>2. PICK do \in {"read", "write", "conflict"} : \E q :
            todo' = [todo EXCEPT ![a] = q] /\ (q = Mine(a, do) \o Tail(todo[a]) \/ q = Mine(a, do))
      BY <2>6 DEF Read, Lose, Do
    <3>. PICK q :
            todo' = [todo EXCEPT ![a] = q] /\ (q = Mine(a, do) \o Tail(todo[a]) \/ q = Mine(a, do))
      BY <3>2
    <3>3. Head(q).do = do
      <4>1. Mine(a, do) = <<[do |-> do, of |-> {Me(a)}]>>
        BY DEF Mine, Step
      <4>2. q = <<[do |-> do, of |-> {Me(a)}]>> \o Tail(todo[a]) \/ q = <<[do |-> do, of |-> {Me(a)}]>>
        BY <3>2, <4>1
      <4>. QED
        BY <3>1, <4>2
    <3>4. todo'[a] = q
      BY <2>1, <3>2 DEF TypeOK
    <3>. QED
      BY <1>3, <3>2, <3>3, <3>4 DEF At
  <2>. QED
    BY <1>3, <2>2, <2>3, <2>4, <2>5, <2>6
<1>4. Inv /\ Whose /\ [Next]_vars =>
        [\A a \in Requests :
            change[a] # None /\ change[a].what = "join" /\ (At(a, "read") \/ At(a, "write")) /\ At(a, "point")'
              => rec'[at[a]] = None \/ Me(a) \in In(rec'[at[a]])]_vars
  BY <1>3
<1>. QED
  BY <1>1, <1>2, <1>4, PTL DEF Spec, JoinLands
=============================================================================
