-------------------------- MODULE GameTimersProofs --------------------------
(***************************************************************************)
(* Proofs about GameTimers, for any numbers of people, AI players, rounds  *)
(* and missions and any number of timers and handlers at a time.  Every    *)
(* step is one of the rules' steps or leaves the game alone, so that what  *)
(* is proved of the rules (WhoIsAIProofs) holds here too.  What remains is *)
(* that whoever is in charge of a stage moves it, or leaves somebody else  *)
(* in charge, and that the team a timer nominates is never refused.        *)
(***************************************************************************)
EXTENDS GameTimers, WhoIsAIProofs

-----------------------------------------------------------------------------
(* Bags *)

LEMMA OneOfEach ==
  ASSUME NEW S
  PROVE  IsABag(SetToBag(S)) /\ BagToSet(SetToBag(S)) = S
BY DEF IsABag, SetToBag, BagToSet

LEMMA Adding ==
  ASSUME NEW B, IsABag(B), NEW S
  PROVE  IsABag(B (+) SetToBag(S)) /\ BagToSet(B (+) SetToBag(S)) = BagToSet(B) \cup S
BY DEF IsABag, SetToBag, BagToSet, (+)

LEMMA Removing ==
  ASSUME NEW B, IsABag(B), NEW e
  PROVE  /\ IsABag(B (-) SetToBag({e}))
         /\ BagToSet(B (-) SetToBag({e})) \subseteq BagToSet(B)
         /\ BagToSet(B) \ {e} \subseteq BagToSet(B (-) SetToBag({e}))
BY DEF IsABag, SetToBag, BagToSet, (-)

-----------------------------------------------------------------------------
(* Counting *)

\* Those who are ranked by different numbers have different ranks.
LEMMA RanksDiffer ==
  ASSUME NEW S, IsFiniteSet(S), NEW f, \A p \in S : f[p] \in Int,
         \A p, q \in S : f[p] = f[q] => p = q
  PROVE  /\ \A p \in S : Cardinality({q \in S : f[q] < f[p]}) \in 0 .. Cardinality(S) - 1
         /\ \A p, q \in S : Cardinality({r \in S : f[r] < f[p]})
                            = Cardinality({r \in S : f[r] < f[q]}) => p = q
<1> DEFINE n == Cardinality(S)
           Before(p) == {q \in S : f[q] < f[p]}
<1>1. n \in Nat
  BY FS_CardinalityType
<1>2. ASSUME NEW p \in S
      PROVE  IsFiniteSet(Before(p)) /\ Cardinality(Before(p)) \in 0 .. n - 1
  <2>1. Before(p) \in SUBSET S /\ Before(p) # S
    OBVIOUS
  <2>2. IsFiniteSet(Before(p)) /\ Cardinality(Before(p)) \in Nat
    BY <2>1, FS_Subset, FS_CardinalityType
  <2>3. Cardinality(Before(p)) < n
    BY <2>1, FewerInSubset
  <2> HIDE DEF Before, n
  <2> QED
    BY <1>1, <2>2, <2>3
<1>3. ASSUME NEW p \in S, NEW q \in S, f[p] < f[q]
      PROVE  Cardinality(Before(p)) < Cardinality(Before(q))
  <2>1. Before(p) \in SUBSET Before(q) /\ p \in Before(q) /\ p \notin Before(p)
    BY <1>3
  <2>2. Before(p) # Before(q)
    BY <2>1
  <2> HIDE DEF Before
  <2> QED
    BY <1>2, <2>1, <2>2, FewerInSubset
<1>4. ASSUME NEW p \in S, NEW q \in S, Cardinality(Before(p)) = Cardinality(Before(q)) PROVE p = q
  <2> SUFFICES ASSUME p # q PROVE FALSE
    OBVIOUS
  <2>1. f[p] < f[q] \/ f[q] < f[p]
    OBVIOUS
  <2>2. Cardinality(Before(p)) < Cardinality(Before(q)) \/ Cardinality(Before(q)) < Cardinality(Before(p))
    BY <1>3, <2>1
  <2>3. Cardinality(Before(p)) \in 0 .. n - 1 /\ Cardinality(Before(q)) \in 0 .. n - 1
    BY <1>2
  <2> HIDE DEF Before, n
  <2> QED
    BY <1>1, <1>4, <2>2, <2>3
<1> QED
  BY <1>2, <1>4

\* Of k places in a row the first k go to k members of a set, or to all of them
\* if there are fewer.
LEMMA FirstOnesCount ==
  ASSUME NEW S, IsFiniteSet(S), NEW f, \A p \in S : f[p] \in Int,
         \A p, q \in S : f[p] = f[q] => p = q, NEW k \in Nat
  PROVE  Cardinality({p \in S : Cardinality({q \in S : f[q] < f[p]}) < k})
           = IF k <= Cardinality(S) THEN k ELSE Cardinality(S)
<1> DEFINE n == Cardinality(S)
           Before(p) == {q \in S : f[q] < f[p]}
           rank == [p \in S |-> Cardinality(Before(p))]
           V == {p \in S : Cardinality(Before(p)) < k}
           m == IF k <= n THEN k ELSE n
           g == [p \in V |-> rank[p]]
<1>1. n \in Nat /\ m \in Nat
  BY FS_CardinalityType
<1>2. ASSUME NEW p \in S PROVE Cardinality(Before(p)) \in 0 .. n - 1
  BY <1>1, RanksDiffer
<1>4. rank \in [S -> 0 .. n - 1]
  BY <1>2
<1>5. ASSUME NEW p \in S, NEW q \in S, rank[p] = rank[q] PROVE p = q
  BY <1>5, RanksDiffer
<1>6. IsFiniteSet(0 .. n - 1) /\ Cardinality(0 .. n - 1) = n
  <2>1. n - 1 \in Int /\ 0 \in Int
    BY <1>1
  <2>2. IsFiniteSet(0 .. n - 1) /\ Cardinality(0 .. n - 1) = IF 0 > n - 1 THEN 0 ELSE n - 1 - 0 + 1
    BY <2>1, FS_Interval
  <2> HIDE DEF n
  <2> QED
    BY <2>2, <1>1
<1>7. rank \in Surjection(S, 0 .. n - 1)
  <2> HIDE DEF rank, n
  <2>1. rank \in Injection(S, 0 .. n - 1)
    BY <1>4, <1>5 DEF Injection, IsInjective
  <2> QED
    BY <2>1, <1>6, FS_Injection DEF n
<1>8. \A i \in 0 .. n - 1 : \E p \in S : rank[p] = i
  BY <1>7 DEF Surjection
<1>9. g \in Bijection(V, 0 .. m - 1)
  <2>1. \A p \in S : rank[p] = Cardinality(Before(p)) /\ rank[p] \in 0 .. n - 1
    BY <1>2
  <2> HIDE DEF rank, n, Before
  <2>2. g \in [V -> 0 .. m - 1]
    BY <1>1, <2>1
  <2>3. \A p, q \in V : g[p] = g[q] => p = q
    BY <1>5
  <2>4. \A i \in 0 .. m - 1 : \E p \in V : g[p] = i
    <3> TAKE i \in 0 .. m - 1
    <3>1. PICK p \in S : rank[p] = i
      BY <1>1, <1>8
    <3>2. p \in V
      BY <1>1, <2>1, <3>1
    <3> QED
      BY <3>1, <3>2
  <2> HIDE DEF g, V, m
  <2> QED
    BY <2>2, <2>3, <2>4 DEF Bijection, Injection, Surjection, IsInjective
<1>10. Cardinality(0 .. m - 1) = Cardinality(V)
  <2>1. IsFiniteSet(V)
    BY FS_Subset
  <2> HIDE DEF V, m, g
  <2>2. ExistsBijection(V, 0 .. m - 1)
    BY <1>9 DEF ExistsBijection
  <2> QED
    BY <2>1, <2>2, FS_Bijection
<1>11. Cardinality(0 .. m - 1) = m
  <2> HIDE DEF m
  <2> QED
    BY <1>1, FS_Interval
<1> QED
  BY <1>10, <1>11

-----------------------------------------------------------------------------
(* The seats at the table *)

\* No two players have the same place.
PlacesDiffer == \A p, q \in players : position[p] = position[q] => p = q

\* A game that is on has a number of players that the rules are made for.
TableFits == /\ mode = "normal"
             /\ Cardinality(players) <= MaxPlayers
             /\ Playing => MinPlayers <= Cardinality(players)

SeatsInv == LifeInv /\ PlacesDiffer /\ TableFits

\* AI players are made in the order of their numbers, as many as are asked for.
LEMMA BotsAreCounted ==
  ASSUME TypeOK, NEW n \in Nat
  PROVE  /\ NextBots(n) \in SUBSET (Everyone \ players) /\ NextBots(n) \in SUBSET Bots
         /\ Cardinality(NextBots(n)) \in Nat /\ Cardinality(NextBots(n)) <= n
         /\ Cardinality(players \cup NextBots(n)) \in Nat
         /\ Cardinality(players \cup NextBots(n)) <= Cardinality(players) + n
<1> DEFINE S == Bots \ players
           f == [b \in S |-> b]
<1>1. IsFiniteSet(S) /\ \A b \in S : f[b] \in Int /\ f[b] = b
  BY PlayersAreFinite, FS_Subset
<1>2. NextBots(n) = {b \in S : Cardinality({c \in S : f[c] < f[b]}) < n}
  <2>1. ASSUME NEW b \in S PROVE {c \in S : f[c] < f[b]} = {c \in S : c < b}
    BY <1>1
  <2> HIDE DEF f
  <2> QED
    BY <2>1 DEF NextBots
<1>3. Cardinality(NextBots(n)) = IF n <= Cardinality(S) THEN n ELSE Cardinality(S)
  <2>1. \A p, q \in S : f[p] = f[q] => p = q
    BY <1>1
  <2> HIDE DEF f, S
  <2> QED
    BY <1>1, <1>2, <2>1, FirstOnesCount
<1>4. Cardinality(S) \in Nat
  BY <1>1, FS_CardinalityType
<1>5. NextBots(n) \in SUBSET (Everyone \ players) /\ NextBots(n) \in SUBSET Bots
  BY DEF NextBots, Everyone
<1>6. /\ IsFiniteSet(players) /\ IsFiniteSet(NextBots(n))
      /\ Cardinality(players) \in Nat /\ Cardinality(NextBots(n)) \in Nat
  BY <1>5, FiniteGroups DEF TypeOK
<1>7. /\ Cardinality(players \cup NextBots(n))
           = Cardinality(players) + Cardinality(NextBots(n)) - Cardinality(players \cap NextBots(n))
      /\ Cardinality(players \cap NextBots(n)) = 0
  <2>1. players \cap NextBots(n) = {}
    BY <1>5
  <2> QED
    BY <1>6, <2>1, FS_Union, FS_EmptySet
<1>8. Cardinality(players \cup NextBots(n)) = Cardinality(players) + Cardinality(NextBots(n))
  BY <1>6, <1>7
<1>9. Cardinality(NextBots(n)) <= n
  <2> HIDE DEF S
  <2> QED
    BY <1>3, <1>4
<1> HIDE DEF S, f
<1>10. /\ Cardinality(players \cup NextBots(n)) \in Nat
       /\ Cardinality(players \cup NextBots(n)) <= Cardinality(players) + n
  BY <1>6, <1>8, <1>9
<1> QED
  BY <1>5, <1>6, <1>9, <1>10

\* Newcomers find places that nobody has.
LEMMA SeatingKeepsPlacesDifferent ==
  ASSUME SeatsInv, NEW newcomers \in SUBSET (Everyone \ players),
         newcomers \subseteq Bots \/ \E p : newcomers = {p},
         position' = Seating(newcomers)
  PROVE  PlacesDiffer'
<1> DEFINE n == Cardinality(players)
           Before(p) == {q \in newcomers \cap Bots : q < p}
           place(p) == Seating(newcomers)[p]
<1>1. TypeOK /\ PlacesAreFew /\ PlacesDiffer
  BY DEF SeatsInv, LifeInv
<1>2. players \in SUBSET Everyone /\ \A p \in players : position[p] \in Nat
  BY <1>1 DEF TypeOK, players
<1>3. n \in Nat /\ players' = players \cup newcomers
  BY <1>1, <1>2, FiniteGroups, SeatingType DEF players
<1>4. ASSUME NEW p \in players PROVE place(p) = position[p] /\ place(p) < n
  BY <1>1, <1>4 DEF Seating, PlacesAreFew
<1>5. ASSUME NEW p \in newcomers
      PROVE  /\ place(p) = n + Cardinality(Before(p))
             /\ IsFiniteSet(Before(p)) /\ Cardinality(Before(p)) \in Nat
  <2>1. Before(p) \in SUBSET Everyone
    BY <1>2 DEF Everyone
  <2> QED
    BY <1>1, <1>5, <2>1, FiniteGroups DEF Seating
<1>6. ASSUME NEW p \in newcomers, NEW q \in newcomers, place(p) = place(q) PROVE p = q
  <2> SUFFICES ASSUME newcomers \subseteq Bots, p # q PROVE FALSE
    BY <1>6
  <2>1. ASSUME NEW a \in newcomers, NEW b \in newcomers, a < b
        PROVE  Cardinality(Before(a)) < Cardinality(Before(b))
    <3>1. newcomers \subseteq Nat
      BY PlayersAreFinite
    <3>2. Before(a) \in SUBSET Before(b) /\ a \in Before(b) /\ a \notin Before(a)
      <4>1. a \in Bots /\ ~(a < a)
        BY <3>1
      <4>2. \A c \in newcomers : c < a => c < b
        BY <2>1, <3>1
      <4> QED
        BY <2>1, <4>1, <4>2
    <3>3. Before(a) # Before(b)
      BY <3>2
    <3> HIDE DEF Before
    <3> QED
      BY <1>5, <3>2, <3>3, FewerInSubset
  <2>2. p < q \/ q < p
    BY PlayersAreFinite
  <2>3. Cardinality(Before(p)) = Cardinality(Before(q))
    <3> HIDE DEF Before, place, n
    <3> QED
      BY <1>3, <1>5, <1>6
  <2> HIDE DEF Before
  <2> QED
    BY <1>5, <2>1, <2>2, <2>3
<1>7. ASSUME NEW p \in players, NEW q \in newcomers PROVE place(p) # place(q)
  <2>1. place(p) < n /\ place(q) = n + Cardinality(Before(q)) /\ Cardinality(Before(q)) \in Nat
        /\ place(p) \in Nat
    BY <1>2, <1>4, <1>5
  <2> HIDE DEF place, Before, n
  <2> QED
    BY <1>3, <2>1
<1> HIDE DEF n
<1> QED
  BY <1>1, <1>3, <1>4, <1>6, <1>7 DEF PlacesDiffer

\* How a step may change the seats.
LEMMA SeatsChange ==
  ASSUME TypeOK, [Next]_vars
  PROVE  \/ UNCHANGED position
         \/ Empty
         \/ \E kept \in SUBSET players : position' = Reseated(kept)
         \/ /\ \E n \in Nat : /\ position' = Seating(NextBots(n))
                              /\ Cardinality(players) + n <= MaxPlayers
            /\ UNCHANGED status
         \/ /\ \E p \in Humans \ players : position' = Seating({p})
            /\ Cardinality(players) < MaxPlayers /\ status = "waiting" /\ UNCHANGED status
<1> DEFINE Kept == \E kept \in SUBSET players : position' = Reseated(kept)
           BotsCome == /\ \E n \in Nat : /\ position' = Seating(NextBots(n))
                                         /\ Cardinality(players) + n <= MaxPlayers
                       /\ UNCHANGED status
           OneComes == /\ \E p \in Humans \ players : position' = Seating({p})
                       /\ Cardinality(players) < MaxPlayers /\ status = "waiting" /\ UNCHANGED status
<1>1. Cardinality(players) \in Nat /\ MinPlayers \in Nat /\ MaxPlayers \in Nat /\ MinPlayers <= MaxPlayers
  BY FiniteGroups, RulesAreSound DEF TypeOK
<1>2. ASSUME NEW p \in Humans, Rejoin(p) \/ SetPlayerDisconnected(p) PROVE UNCHANGED position
  BY <1>2 DEF Rejoin, SetPlayerDisconnected
<1>3. ASSUME NEW p \in Humans, NEW m \in Modes, JoinPlayer(p, m) PROVE OneComes
  BY <1>3 DEF JoinPlayer
<1>4. ASSUME NEW p, LeavePlayer(p) \/ ResetRoomByHost(p) \/ PrepareRematchByHost(p)
      PROVE  Empty \/ Kept
  BY <1>4 DEF LeavePlayer, ResetRoomByHost, PrepareRematchByHost, people
<1>5. ASSUME NEW p, FillWithAIByHost(p) PROVE BotsCome
  <2>1. MinPlayers - Cardinality(players) \in Nat
    BY <1>1, <1>5 DEF FillWithAIByHost
  <2> QED
    BY <1>1, <1>5, <2>1 DEF FillWithAIByHost
<1>6. ASSUME AddAIPlayer PROVE BotsCome
  BY <1>1, <1>6 DEF AddAIPlayer
<1>7. ASSUME NEW p \in Humans, Seat(p) PROVE UNCHANGED position \/ Empty \/ Kept \/ BotsCome \/ OneComes
  <2> HIDE DEF Kept, BotsCome, OneComes
  <2> QED
    BY <1>2, <1>3, <1>4, <1>7 DEF Seat
<1>8. ASSUME NEW p \in Everyone, Play(p) PROVE UNCHANGED position \/ Kept
  <2>1. RefusedStart(p) \/ StartGame(p) => Kept
    BY DEF RefusedStart, StartGame
  <2>2. ~RefusedStart(p) /\ ~StartGame(p) => UNCHANGED position
    BY <1>8 DEF Play, ProposeMission, TeamVote, MissionVote, SetDebugMissionResult, seatVars
  <2> QED
    BY <2>1, <2>2
<1>9. CreateRoom => Empty
  BY DEF CreateRoom
<1>10. StartTeamVote \/ StartMissionVote \/ UNCHANGED vars => UNCHANGED position
  BY DEF StartTeamVote, StartMissionVote, vars, seatVars
<1> HIDE DEF Kept, BotsCome, OneComes
<1>11. UNCHANGED position \/ Empty \/ Kept \/ BotsCome \/ OneComes
  BY <1>4, <1>5, <1>6, <1>7, <1>8, <1>9, <1>10 DEF Next, Gather
<1> QED
  BY <1>11 DEF Kept, BotsCome, OneComes

\* Nobody sits in another's place, and no table is too full for the rules.
LEMMA SeatsStep ==
  ASSUME SeatsInv, [Next]_vars
  PROVE  PlacesDiffer' /\ Cardinality(players') <= MaxPlayers
<1>1. /\ TypeOK /\ TypeOK' /\ PlacesDiffer /\ players \in SUBSET Everyone
      /\ \A p \in players : position[p] \in Nat
  BY TypeStep DEF SeatsInv, LifeInv, TypeOK, players
<1>2. /\ Cardinality(players) \in Nat /\ Cardinality(players) <= MaxPlayers /\ MaxPlayers \in Nat
      /\ IsFiniteSet(players)
  BY <1>1, FiniteGroups, RulesAreSound DEF SeatsInv, TableFits
<1>3. CASE UNCHANGED position
  BY <1>1, <1>2, <1>3 DEF PlacesDiffer, players
<1>4. CASE Empty
  BY <1>2, <1>4, FS_EmptySet DEF Empty, PlacesDiffer, players
<1>5. ASSUME NEW kept \in SUBSET players, position' = Reseated(kept)
      PROVE  PlacesDiffer' /\ Cardinality(players') <= MaxPlayers
  <2>1. players' = kept
    BY <1>1, <1>5, ReseatedType DEF players
  <2>2. Cardinality(kept) <= Cardinality(players) /\ Cardinality(kept) \in Nat
    BY <1>1, <1>2, FS_Subset, FiniteGroups
  <2>3. ASSUME NEW p \in kept, NEW q \in kept, Reseated(kept)[p] = Reseated(kept)[q] PROVE p = q
    <3>1. Reseated(kept)[p] \in Nat
      BY <1>1, ReseatedType
    <3>2. ~(position[p] < position[q]) /\ ~(position[q] < position[p])
      BY <1>1, <2>3, <3>1, ReseatedKeepsOrder
    <3>3. position[p] = position[q]
      BY <1>1, <3>2
    <3> QED
      BY <1>1, <3>3 DEF PlacesDiffer
  <2> QED
    BY <1>2, <1>5, <2>1, <2>2, <2>3 DEF PlacesDiffer
<1>6. ASSUME NEW n \in Nat, position' = Seating(NextBots(n)), Cardinality(players) + n <= MaxPlayers
      PROVE  PlacesDiffer' /\ Cardinality(players') <= MaxPlayers
  <2>1. PlacesDiffer'
    BY <1>1, <1>6, BotsAreCounted, SeatingKeepsPlacesDifferent
  <2>2. players' = players \cup NextBots(n)
    BY <1>1, <1>6, BotsAreCounted, SeatingType DEF players
  <2>3. /\ Cardinality(players \cup NextBots(n)) \in Nat
        /\ Cardinality(players \cup NextBots(n)) <= Cardinality(players) + n
    BY <1>1, BotsAreCounted
  <2> QED
    BY <1>2, <1>6, <2>1, <2>2, <2>3
<1>7. ASSUME NEW p \in Humans \ players, position' = Seating({p}), Cardinality(players) < MaxPlayers
      PROVE  PlacesDiffer' /\ Cardinality(players') <= MaxPlayers
  <2>1. {p} \in SUBSET (Everyone \ players)
    BY DEF Everyone
  <2>2. PlacesDiffer'
    BY <1>7, <2>1, SeatingKeepsPlacesDifferent
  <2>3. players' = players \cup {p}
    BY <1>1, <1>7, <2>1, SeatingType DEF players
  <2>4. Cardinality(players \cup {p}) = Cardinality(players) + 1
    BY <1>2, FS_AddElement
  <2> QED
    BY <1>2, <1>7, <2>2, <2>3, <2>4
<1> QED
  BY <1>1, <1>3, <1>4, <1>5, <1>6, <1>7, SeatsChange

\* A game begins with enough players, and keeps them while it is on.
LEMMA GameStaysFull ==
  ASSUME SeatsInv, [Next]_vars
  PROVE  mode' = "normal" /\ (Playing' => MinPlayers <= Cardinality(players'))
<1>1. mode = "normal" /\ (Playing => MinPlayers <= Cardinality(players)) /\ Modes = {"normal"}
  BY TimersAreBounded DEF SeatsInv, TableFits
<1>2. ASSUME mode' = mode, status' = "playing" => status = "playing" /\ UNCHANGED position
      PROVE  mode' = "normal" /\ (Playing' => MinPlayers <= Cardinality(players'))
  BY <1>1, <1>2 DEF Playing, players
<1>3. ASSUME mode' = "normal", status' # "playing"
      PROVE  mode' = "normal" /\ (Playing' => MinPlayers <= Cardinality(players'))
  BY <1>3 DEF Playing
<1>4. ASSUME NEW p \in Humans, Seat(p)
      PROVE  mode' = "normal" /\ (Playing' => MinPlayers <= Cardinality(players'))
  <2>1. Rejoin(p) \/ SetPlayerDisconnected(p) => mode' = mode /\ UNCHANGED <<status, position>>
    BY DEF Rejoin, SetPlayerDisconnected
  <2>2. ASSUME NEW m \in Modes, JoinPlayer(p, m) PROVE mode' = "normal" /\ status' # "playing"
    BY <1>1, <2>2 DEF JoinPlayer
  <2>3. LeavePlayer(p) => mode' = "normal" /\ status' # "playing"
    BY <1>1 DEF LeavePlayer, Empty
  <2>4. ResetRoomByHost(p) => mode' = "normal" /\ status' # "playing"
    BY <1>1 DEF ResetRoomByHost, Empty
  <2> QED
    BY <1>2, <1>3, <1>4, <2>1, <2>2, <2>3, <2>4 DEF Seat
<1>5. ASSUME NEW p \in Everyone, Play(p)
      PROVE  mode' = "normal" /\ (Playing' => MinPlayers <= Cardinality(players'))
  <2>1. RefusedStart(p) => mode' = "normal" /\ status' # "playing"
    BY <1>1 DEF RefusedStart, MayStart
  <2>2. CASE StartGame(p)
    <3>1. players' = players \ offline /\ mode' = mode
      BY ReseatedType, <2>2 DEF StartGame, players, SeatsInv, LifeInv
    <3>2. Cardinality(players \ offline) >= MinPlayers
      BY <1>1, <2>2 DEF StartGame, EnoughPlayers, Scripted
    <3>3. Cardinality(players \ offline) \in Nat /\ MinPlayers \in Nat
      BY FiniteGroups, RulesAreSound DEF SeatsInv, LifeInv, TypeOK
    <3> QED
      BY <1>1, <3>1, <3>2, <3>3
  <2>3. ASSUME NEW outcome, SetDebugMissionResult(p, outcome) PROVE FALSE
    BY <1>1, <2>3 DEF SetDebugMissionResult
  <2>4. ASSUME NEW nominees, ProposeMission(p, nominees)
        PROVE  mode' = mode /\ UNCHANGED <<status, position>>
    BY <2>4 DEF ProposeMission, seatVars
  <2>5. ASSUME NEW vote, TeamVote(p, vote)
        PROVE  mode' = mode /\ UNCHANGED position /\ (status' = status \/ status' = "finished")
    BY <2>5 DEF TeamVote, VoteGoesOn, TeamApproved, TeamRejected, seatVars
  <2>6. ASSUME NEW deed, MissionVote(p, deed)
        PROVE  mode' = mode /\ UNCHANGED position /\ (status' = status \/ status' = "finished")
    BY <2>6 DEF MissionVote, MissionGoesOn, MissionResolved, seatVars
  <2> QED
    BY <1>2, <1>3, <1>5, <2>1, <2>2, <2>3, <2>4, <2>5, <2>6 DEF Play
<1>6. CASE CreateRoom
  BY <1>3, <1>6 DEF CreateRoom, Empty
<1>7. ~AddAIPlayer
  BY <1>1 DEF AddAIPlayer
<1>8. CASE StartTeamVote \/ StartMissionVote \/ UNCHANGED vars
  BY <1>2, <1>8 DEF StartTeamVote, StartMissionVote, vars, seatVars
<1>9. ASSUME NEW p, Gather(p) PROVE mode' = "normal" /\ status' # "playing"
  BY <1>1, <1>9 DEF Gather, PrepareRematchByHost, FillWithAIByHost
<1> QED
  BY <1>3, <1>4, <1>5, <1>6, <1>7, <1>8, <1>9 DEF Next

-----------------------------------------------------------------------------
(* Every step is a step of the rules *)

\* What is known of a job by what it does next.
LEMMA JobKinds ==
  ASSUME NEW j \in Jobs
  PROVE  /\ j.do = "schedule" => j.stage \in Stages /\ j.round \in Nat
         /\ j.do = "propose" => j.leader \in Humans /\ j.team \in SUBSET Everyone
         /\ j.do \in {"vote", "act"} => j.left \in (SUBSET Everyone) \ {{}}
         /\ j.do = "bot" => j.who \in Bots
BY DEF Jobs

\* Whoever moves, people or handlers, makes a call that the rules know.
LEMMA RulesStep ==
  ASSUME TimersTypeOK, [TimersNext]_allVars
  PROVE  [Next]_vars
<1>1. ASSUME NEW p \in Everyone, Play(p) PROVE Next
  BY <1>1 DEF Next
<1>2. ASSUME NEW p \in Humans, Seat(p) PROVE Next
  BY <1>2 DEF Next
<1>3. ASSUME NEW p \in Everyone, NEW nominees, ProposeMission(p, nominees) PROVE Next
  <2>1. nominees \in SUBSET players
    BY <1>3 DEF ProposeMission
  <2> QED
    BY <1>1, <1>3, <2>1 DEF Play
<1>4. ASSUME NEW p \in Everyone, NEW vote \in {"yes", "no"}, TeamVote(p, vote) PROVE Next
  BY <1>1, <1>4 DEF Play
<1>5. ASSUME NEW p \in Everyone, NEW deed \in {"support", "sabotage"}, MissionVote(p, deed) PROVE Next
  BY <1>1, <1>5 DEF Play
<1>6. Humans \subseteq Everyone /\ Bots \subseteq Everyone
  BY DEF Everyone
<1>7. ASSUME NEW p \in Humans, Person(p) PROVE [Next]_vars
  <2>1. JoinPlayer(p, "normal") => Seat(p)
    BY TimersAreBounded DEF Seat
  <2>2. Sit(p) => Next
    BY <1>2, <2>1 DEF Sit, Seat, Next
  <2>3. Start(p) => Next
    BY <1>1, <1>6 DEF Start, Play
  <2> QED
    BY <1>3, <1>4, <1>5, <1>6, <1>7, <2>2, <2>3 DEF Person, StartAgain, Propose, Vote, Act
<1>8. ASSUME NEW j \in BagToSet(jobs), JobStep(j) PROVE [Next]_vars
  <2>1. j \in Jobs
    BY DEF TimersTypeOK
  <2>2. ArmTimers(j) => UNCHANGED vars
    BY DEF ArmTimers
  <2>3. AutoPropose(j) => UNCHANGED vars \/ Next
    BY <1>3, <1>6, <2>1, JobKinds DEF AutoPropose
  <2>4. CallVote(j) \/ CallMission(j) => UNCHANGED vars \/ Next
    BY DEF CallVote, CallMission, Next
  <2>5. VoteFor(j) => UNCHANGED vars \/ Next
    <3> SUFFICES ASSUME VoteFor(j) PROVE UNCHANGED vars \/ Next
      OBVIOUS
    <3>1. j.left \subseteq Everyone
      BY <2>1, JobKinds DEF VoteFor
    <3> QED
      BY <1>4, <3>1 DEF VoteFor
  <2>6. ActFor(j) => UNCHANGED vars \/ Next
    <3> SUFFICES ASSUME ActFor(j) PROVE UNCHANGED vars \/ Next
      OBVIOUS
    <3>1. j.left \subseteq Everyone
      BY <2>1, JobKinds DEF ActFor
    <3> QED
      BY <1>5, <3>1 DEF ActFor
  <2>7. BotActs(j) => UNCHANGED vars \/ Next
    BY <1>5, <1>6, <2>1, JobKinds DEF BotActs
  <2> QED
    BY <1>8, <2>2, <2>3, <2>4, <2>5, <2>6, <2>7 DEF JobStep
<1>9. ASSUME NEW t, Fire(t) PROVE UNCHANGED vars
  BY <1>9 DEF Fire
<1>10. Create \/ Stranger => Next
  BY DEF Create, Stranger, Next
<1>11. UNCHANGED allVars => UNCHANGED vars
  BY DEF allVars
<1> QED
  BY <1>7, <1>8, <1>9, <1>10, <1>11 DEF TimersNext, TimerFires, HandlersGoOn

-----------------------------------------------------------------------------
(* What a job leaves behind *)

LEMMA JobsBecome ==
  ASSUME IsABag(jobs), NEW j, NEW next, Become(j, next)
  PROVE  /\ IsABag(jobs')
         /\ BagToSet(jobs') \subseteq BagToSet(jobs) \cup next
         /\ (BagToSet(jobs) \ {j}) \cup next \subseteq BagToSet(jobs')
<1> DEFINE rest == jobs (-) SetToBag({j})
<1>1. /\ IsABag(rest) /\ BagToSet(rest) \subseteq BagToSet(jobs)
      /\ BagToSet(jobs) \ {j} \subseteq BagToSet(rest)
  BY Removing
<1>2. jobs' = rest (+) SetToBag(next)
  BY DEF Become
<1> HIDE DEF rest
<1>3. IsABag(jobs') /\ BagToSet(jobs') = BagToSet(rest) \cup next
  BY <1>1, <1>2, Adding
<1> QED
  BY <1>1, <1>3

LEMMA JobsBegin ==
  ASSUME IsABag(jobs), NEW next, Begin(next)
  PROVE  IsABag(jobs') /\ BagToSet(jobs') = BagToSet(jobs) \cup next
BY Adding DEF Begin

-----------------------------------------------------------------------------
(* Who is in charge of a stage *)

\* A mission is discussed first and then acted on.
MissionHasSubPhase == phase = "mission" => sub \in {"discuss", "vote"}

\* What is known of the game from the rules.
Rules == SeatsInv /\ GameInv /\ GameIsStaffed /\ MissionHasSubPhase

TimersInv == Rules /\ GamesAreTimed

LEMMA SubPhaseStep ==
  ASSUME MissionHasSubPhase, [Next]_vars
  PROVE  MissionHasSubPhase'
<1>1. CASE UNCHANGED <<phase, sub>>
  BY <1>1 DEF MissionHasSubPhase
<1>2. CASE phase' # "mission" \/ sub' \in {"discuss", "vote"}
  BY <1>2 DEF MissionHasSubPhase
<1>3. ASSUME NEW p, Seat(p) \/ Gather(p) PROVE UNCHANGED <<phase, sub>> \/ phase' # "mission"
  BY <1>3 DEF Seat, Gather, Rejoin, JoinPlayer, SetPlayerDisconnected, LeavePlayer, ResetRoomByHost,
              PrepareRematchByHost, FillWithAIByHost, gameVars, stageVars, Blank
<1>4. ASSUME NEW p \in Everyone, Play(p)
      PROVE  UNCHANGED <<phase, sub>> \/ phase' # "mission" \/ sub' \in {"discuss", "vote"}
  <2>1. RefusedStart(p) => UNCHANGED <<phase, sub>>
    BY DEF RefusedStart, gameVars, stageVars
  <2>2. StartGame(p) => phase' # "mission"
    BY DEF StartGame
  <2>3. ASSUME NEW outcome, SetDebugMissionResult(p, outcome) PROVE UNCHANGED <<phase, sub>>
    BY <2>3 DEF SetDebugMissionResult, stageVars
  <2>4. ASSUME NEW nominees, ProposeMission(p, nominees) PROVE phase' # "mission"
    BY <2>4 DEF ProposeMission
  <2>5. ASSUME NEW vote, TeamVote(p, vote)
        PROVE  UNCHANGED <<phase, sub>> \/ phase' # "mission" \/ sub' \in {"discuss", "vote"}
    BY <2>5 DEF TeamVote, VoteGoesOn, TeamApproved, TeamRejected, stageVars
  <2>6. ASSUME NEW deed, MissionVote(p, deed) PROVE UNCHANGED <<phase, sub>> \/ phase' # "mission"
    BY <2>6 DEF MissionVote, MissionGoesOn, MissionResolved, stageVars
  <2> QED
    BY <1>4, <2>1, <2>2, <2>3, <2>4, <2>5, <2>6 DEF Play
<1>5. CreateRoom \/ StartTeamVote \/ StartMissionVote => phase' # "mission" \/ sub' \in {"discuss", "vote"}
  BY DEF CreateRoom, Blank, StartTeamVote, StartMissionVote
<1>6. AddAIPlayer \/ UNCHANGED vars => UNCHANGED <<phase, sub>>
  BY DEF AddAIPlayer, vars, gameVars, stageVars
<1> QED
  BY <1>1, <1>2, <1>3, <1>4, <1>5, <1>6 DEF Next

\* The rules' own invariants hold on.
LEMMA RulesKept ==
  ASSUME Rules, [Next]_vars
  PROVE  Rules'
<1>1. SeatsInv /\ LifeInv /\ TypeOK /\ GameInv /\ GameIsStaffed /\ MissionHasSubPhase
  BY DEF Rules, SeatsInv, LifeInv
<1>2. LifeInv'
  BY <1>1, TypeStep, PlacesStayFew, NoPhaseWithoutGame DEF LifeInv
<1>3. SeatsInv'
  BY <1>1, <1>2, SeatsStep, GameStaysFull DEF SeatsInv, TableFits
<1> QED
  BY <1>1, <1>3, GameStep, StaffStep, SubPhaseStep DEF Rules

\* A step that leaves the stage as it was, but for votes that are added.
SameStage ==
  /\ UNCHANGED <<status, position, round, phase, sub, leader, team>>
  /\ Voted(teamVotes) \subseteq Voted(teamVotes') /\ Voted(missionVotes) \subseteq Voted(missionVotes')

LEMMA SameStageSameWatch ==
  ASSUME SameStage
  PROVE  /\ \A t : StillOn(t) /\ t.kind = Stage => StillOn(t)' /\ t.kind = Stage'
         /\ \A j : InCharge(j) => InCharge(j)'
<1>1. Stage' = Stage /\ players' = players
  BY DEF SameStage, Stage, players
<1>2. ASSUME NEW t, StillOn(t), t.kind = Stage PROVE StillOn(t)' /\ t.kind = Stage'
  BY <1>1, <1>2 DEF StillOn, SameStage
<1>3. ASSUME NEW j, InCharge(j) PROVE InCharge(j)'
  BY <1>1, <1>3 DEF InCharge, SameStage
<1> QED
  BY <1>2, <1>3

LEMMA NoGameNoWatch == ~Playing' => EveryStageIsTimed'
BY DEF EveryStageIsTimed

\* A handler that has just been given charge of the stage.
LEMMA NewInCharge ==
  ASSUME NEW j \in BagToSet(jobs'), InCharge(j)'
  PROVE  EveryStageIsTimed'
BY DEF EveryStageIsTimed

\* A step that leaves the stage as it was, and takes nobody away.
LEMMA WatchGoesOn ==
  ASSUME EveryStageIsTimed, SameStage, served' = "yes" => served = "yes",
         BagToSet(timers) \subseteq BagToSet(timers'), BagToSet(jobs) \subseteq BagToSet(jobs')
  PROVE  EveryStageIsTimed'
<1> SUFFICES ASSUME Playing', served' = "yes" PROVE EveryStageIsTimed'
  BY DEF EveryStageIsTimed
<1>1. Playing /\ served = "yes"
  BY DEF Playing, SameStage
<1>2. CASE \E t \in BagToSet(timers) : StillOn(t) /\ t.kind = Stage
  BY <1>2, SameStageSameWatch DEF EveryStageIsTimed
<1>3. CASE \E j \in BagToSet(jobs) : InCharge(j)
  BY <1>3, SameStageSameWatch DEF EveryStageIsTimed
<1> QED
  BY <1>1, <1>2, <1>3 DEF EveryStageIsTimed

\* A job that leaves the stage as it was hands on what it was in charge of.
LEMMA ChargeIsHandedOn ==
  ASSUME TimersTypeOK, EveryStageIsTimed, SameStage, UNCHANGED <<timers, served>>,
         NEW j, NEW next, Become(j, next),
         Playing /\ InCharge(j) => \E k \in next : InCharge(k)'
  PROVE  EveryStageIsTimed'
<1> SUFFICES ASSUME Playing', served' = "yes" PROVE EveryStageIsTimed'
  BY DEF EveryStageIsTimed
<1>1. Playing /\ served = "yes"
  BY DEF Playing, SameStage
<1>2. (BagToSet(jobs) \ {j}) \cup next \subseteq BagToSet(jobs')
  BY JobsBecome DEF TimersTypeOK
<1>3. CASE \E t \in BagToSet(timers) : StillOn(t) /\ t.kind = Stage
  BY <1>3, SameStageSameWatch DEF EveryStageIsTimed
<1>4. CASE \E k \in BagToSet(jobs) \ {j} : InCharge(k)
  BY <1>2, <1>4, SameStageSameWatch DEF EveryStageIsTimed
<1>5. CASE InCharge(j)
  BY <1>1, <1>2, <1>5 DEF EveryStageIsTimed
<1> QED
  BY <1>1, <1>3, <1>4, <1>5 DEF EveryStageIsTimed

\* The jobs that are under way after a step.
LEMMA JobsAreTyped ==
  ASSUME TimersTypeOK, NEW next \in SUBSET Jobs, Begin(next) \/ \E j : Become(j, next)
  PROVE  IsABag(jobs') /\ \A j \in BagToSet(jobs') : j \in Jobs
BY JobsBegin, JobsBecome DEF TimersTypeOK

LEMMA TypesKept ==
  ASSUME TypeOK', UNCHANGED timers, TimersTypeOK, served' \in {"no", "late", "yes"},
         IsABag(jobs') /\ \A j \in BagToSet(jobs') : j \in Jobs
  PROVE  TimersTypeOK'
BY DEF TimersTypeOK

-----------------------------------------------------------------------------
(* The votes *)

\* A vote on a team is added, or it ends the poll and the stage that follows is
\* announced.
LEMMA TeamVoteLeads ==
  ASSUME TypeOK, NEW p \in Everyone, NEW vote \in {"yes", "no"}, TeamVote(p, vote)
  PROVE  /\ Playing' => Playing
         /\ \/ SameStage /\ ~TeamPollEnds /\ p \in Voted(teamVotes') /\ AfterTeamVote = {}
            \/ TeamPollEnds /\ (Playing' => \E j \in AfterTeamVote : InCharge(j)')
         /\ AfterTeamVote \in SUBSET Jobs
<1> DEFINE votes == TeamVotesWith(p, vote)
<1>0. /\ phase = "team_vote" /\ p \in players /\ UNCHANGED seatVars
      /\ VoteGoesOn(votes) \/ TeamApproved(votes) \/ TeamRejected(votes)
      /\ round \in Nat /\ streak \in Nat /\ round' = round
  BY DEF TeamVote, VoteGoesOn, TeamApproved, TeamRejected, scoreVars, TypeOK
<1>1. AfterTeamVote \in SUBSET Jobs
  BY <1>0 DEF AfterTeamVote, Schedule, Jobs, Stages
<1>2. CASE VoteGoesOn(votes)
  <2>1. UNCHANGED <<status, position, round, phase, sub, leader, team, streak>>
        /\ missionVotes' = missionVotes /\ teamVotes' = votes
    BY <1>0, <1>2 DEF VoteGoesOn, stageVars, seatVars
  <2>2. \A q : AITeamVote(q) # "none"
    BY Zenon DEF AITeamVote
  <2>3. Voted(teamVotes) \subseteq Voted(votes) /\ p \in Voted(votes)
    BY <2>2 DEF Voted, TeamVotesWith
  <2> HIDE DEF votes
  <2> QED
    BY <1>0, <1>1, <2>1, <2>3 DEF SameStage, TeamPollEnds, AfterTeamVote, Playing
<1>3. CASE TeamApproved(votes)
  <2>1. phase' = "mission" /\ sub' = "discuss" /\ status' = status
    BY <1>3 DEF TeamApproved
  <2>2. PICK r : r = round'
    OBVIOUS
  <2>3. AfterTeamVote = {Schedule("briefing", r)}
    BY <1>0, <2>1, <2>2 DEF AfterTeamVote
  <2>4. InCharge(Schedule("briefing", r))'
    BY <2>1, <2>2 DEF InCharge, Schedule, Stage
  <2> QED
    BY <1>1, <2>1, <2>3, <2>4 DEF TeamPollEnds, Playing
<1>4. CASE TeamRejected(votes)
  <2>1. streak' = streak + 1 /\ (status' = "finished" \/ (status' = status /\ phase' = "propose"))
    BY <1>4 DEF TeamRejected
  <2>2. PICK r : r = round'
    OBVIOUS
  <2>3. phase' = "propose" => AfterTeamVote = {Schedule("propose", r)}
    BY <1>0, <2>2 DEF AfterTeamVote
  <2>4. phase' = "propose" => InCharge(Schedule("propose", r))'
    BY <2>2 DEF InCharge, Schedule, Stage
  <2>5. TeamPollEnds
    BY <1>0, <2>1 DEF TeamPollEnds
  <2> QED
    BY <1>1, <2>1, <2>3, <2>4, <2>5 DEF Playing
<1> QED
  BY <1>0, <1>2, <1>3, <1>4

\* The same of a vote on a mission.
LEMMA MissionVoteLeads ==
  ASSUME TypeOK, TypeOK', NEW p \in Everyone, NEW deed \in {"support", "sabotage"}, MissionVote(p, deed)
  PROVE  /\ Playing' => Playing
         /\ \/ SameStage /\ ~MissionEnds /\ p \in Voted(missionVotes') /\ AfterMissionVote = {}
            \/ MissionEnds /\ (Playing' => \E j \in AfterMissionVote : InCharge(j)')
         /\ AfterMissionVote \in SUBSET Jobs
<1> DEFINE deeds == DeedsWith(p, deed)
<1>0. /\ phase = "mission" /\ sub = "vote" /\ p \in team /\ UNCHANGED seatVars
      /\ MissionGoesOn(deeds) \/ \E rigged \in Rigged(deeds) : MissionResolved(rigged)
      /\ round' \in Nat
  BY DEF MissionVote, TypeOK
<1>1. AfterMissionVote \in SUBSET Jobs
  BY <1>0 DEF AfterMissionVote, Schedule, Jobs, Stages
<1>2. CASE MissionGoesOn(deeds)
  <2>1. UNCHANGED <<status, position, round, phase, sub, leader, team, results>>
        /\ teamVotes' = teamVotes /\ missionVotes' = deeds
    BY <1>0, <1>2 DEF MissionGoesOn, stageVars, scoreVars, seatVars
  <2>2. \A q : \A d \in {"support", "sabotage"} : Deed(q, d) # "none"
    BY DEF Deed
  <2>3. Voted(missionVotes) \subseteq Voted(deeds) /\ p \in Voted(deeds)
    BY <2>2 DEF Voted, DeedsWith
  <2>4. Len(results) \in Nat
    BY DEF TypeOK
  <2> HIDE DEF deeds
  <2> QED
    BY <1>0, <1>1, <2>1, <2>3, <2>4 DEF SameStage, MissionEnds, AfterMissionVote, Playing
<1>3. ASSUME NEW rigged, MissionResolved(rigged)
      PROVE  /\ Playing' => Playing
             /\ MissionEnds /\ (Playing' => \E j \in AfterMissionVote : InCharge(j)')
  <2>1. status' = "finished" \/ (status' = status /\ phase' = "propose")
    BY <1>3 DEF MissionResolved
  <2>2. \E success \in BOOLEAN : results' = Append(results, success)
    BY <1>3 DEF MissionResolved
  <2>3. MissionEnds
    BY <2>2 DEF MissionEnds, TypeOK
  <2>4. PICK r : r = round'
    OBVIOUS
  <2>5. phase' = "propose" => AfterMissionVote = {Schedule("propose", r)}
    BY <2>4 DEF AfterMissionVote
  <2>6. phase' = "propose" => InCharge(Schedule("propose", r))'
    BY <2>4 DEF InCharge, Schedule, Stage
  <2> QED
    BY <2>1, <2>3, <2>5, <2>6 DEF Playing
<1> QED
  BY <1>0, <1>1, <1>2, <1>3

-----------------------------------------------------------------------------
(* The team a timer nominates *)

\* Turning the table does not bring two places together.
LEMMA TurnedPlacesDiffer ==
  ASSUME NEW n \in Nat, NEW a \in 0 .. n - 1, NEW b \in 0 .. n - 1, NEW c \in Int,
         (a - c) % n = (b - c) % n
  PROVE  a = b
<1> DEFINE x == a - c
           y == b - c
<1>1. n > 0 /\ x \in Int /\ y \in Int /\ x - y = a - b /\ a - b < n /\ b - a < n
  OBVIOUS
<1>2. PICK d \in Int : x = n * d + (x % n)
  <2>1. x \div n \in Int /\ x = n * (x \div n) + (x % n)
    BY <1>1
  <2> QED
    BY <2>1
<1>3. PICK e \in Int : y = n * e + (y % n)
  <2>1. y \div n \in Int /\ y = n * (y \div n) + (y % n)
    BY <1>1
  <2> QED
    BY <2>1
<1>4. x % n = y % n /\ x % n \in Int
  BY <1>1
<1> HIDE DEF x, y
<1>5. a - b = n * d - n * e
  BY <1>1, <1>2, <1>3, <1>4
<1>6. d >= e + 1 => n * d >= n * e + n
  <2>1. n * (e + 1) = n * e + n
    BY <1>3
  <2>2. d >= e + 1 => n * d >= n * (e + 1)
    BY <1>2, <1>3, <1>1
  <2> QED
    BY <2>1, <2>2
<1>7. e >= d + 1 => n * e >= n * d + n
  <2>1. n * (d + 1) = n * d + n
    BY <1>2
  <2>2. e >= d + 1 => n * e >= n * (d + 1)
    BY <1>2, <1>3, <1>1
  <2> QED
    BY <2>1, <2>2
<1>8. n * d \in Int /\ n * e \in Int
  BY <1>2, <1>3
<1>9. d = e
  BY <1>1, <1>2, <1>3, <1>5, <1>6, <1>7, <1>8
<1> QED
  BY <1>5, <1>8, <1>9

\* What the rules tell of a game that is on.
LEMMA GameOn ==
  ASSUME Rules, Playing
  PROVE  /\ Cardinality(players) \in MinPlayers .. MaxPlayers /\ Cardinality(players) \in Nat
         /\ IsFiniteSet(players) /\ players \in SUBSET Everyone
         /\ round \in 1 .. MaxRounds /\ leader \in people
         /\ MissionTeamSize(Cardinality(players), round) \in Nat \ {0}
         /\ MissionTeamSize(Cardinality(players), round) <= Cardinality(players)
<1>1. TypeOK /\ PlayingIsUndecided /\ GameIsStaffed /\ TableFits
  BY DEF Rules, SeatsInv, LifeInv, GameInv
<1>2. /\ players \in SUBSET Everyone /\ IsFiniteSet(players) /\ Cardinality(players) \in Nat
      /\ Cardinality(players) \in MinPlayers .. MaxPlayers
  BY <1>1, FiniteGroups, RulesAreSound DEF TypeOK, TableFits
<1>3. round \in 1 .. MaxRounds
  <2>1. Len(results) \in Nat /\ Len(results) = round - 1 /\ round \in Nat /\ round <= MaxRounds
    BY <1>1 DEF PlayingIsUndecided, TypeOK
  <2> QED
    BY <2>1, RulesAreSound
<1>4. leader \in people
  BY <1>1 DEF GameIsStaffed
<1>5. MissionTeamSize(Cardinality(players), round) \in Nat \ {0}
  BY <1>3, TeamsAreNotEmpty
<1> QED
  BY <1>2, <1>3, <1>4, <1>5, TeamsFitTables

\* Who is listed by connection and place has a rank of his own (activePlayerIDs).
LEMMA ListRanks ==
  ASSUME SeatsInv
  PROVE  /\ \A p \in players : Listed(p) \in 0 .. Cardinality(players) - 1
         /\ \A p, q \in players : Listed(p) = Listed(q) => p = q
<1> DEFINE n == Cardinality(players)
           f == [p \in players |-> IF p \in offline THEN position[p] + n ELSE position[p]]
<1>1. TypeOK /\ PlacesAreFew /\ PlacesDiffer
  BY DEF SeatsInv, LifeInv
<1>2. /\ IsFiniteSet(players) /\ n \in Nat
      /\ \A p \in players : position[p] \in Nat /\ position[p] < n
  BY <1>1, FiniteGroups DEF TypeOK, PlacesAreFew, players
<1>3. \A p \in players : f[p] = IF p \in offline THEN position[p] + n ELSE position[p]
  OBVIOUS
<1> HIDE DEF n, f
<1>4. \A p \in players : f[p] \in Int
  BY <1>2, <1>3
<1>5. ASSUME NEW p \in players, NEW q \in players, f[p] = f[q] PROVE p = q
  <2>1. position[p] = position[q]
    BY <1>2, <1>3, <1>5
  <2> QED
    BY <1>1, <2>1 DEF PlacesDiffer
<1>6. ASSUME NEW p \in players PROVE Listed(p) = Cardinality({q \in players : f[q] < f[p]})
  <2>1. ASSUME NEW q \in players
        PROVE  (IF q \in offline <=> p \in offline THEN position[q] < position[p] ELSE p \in offline)
                 <=> f[q] < f[p]
    <3>1. /\ position[p] \in Nat /\ position[p] < n /\ position[q] \in Nat /\ position[q] < n
          /\ f[p] = IF p \in offline THEN position[p] + n ELSE position[p]
          /\ f[q] = IF q \in offline THEN position[q] + n ELSE position[q]
      BY <1>2, <1>3
    <3> QED
      BY <1>2, <3>1
  <2> QED
    BY <2>1 DEF Listed
<1>7. /\ \A p \in players : Cardinality({q \in players : f[q] < f[p]}) \in 0 .. Cardinality(players) - 1
      /\ \A p, q \in players : Cardinality({r \in players : f[r] < f[p]})
                               = Cardinality({r \in players : f[r] < f[q]}) => p = q
  BY <1>2, <1>4, <1>5, RanksDiffer
<1> QED
  BY <1>6, <1>7

\* The team has the size that the rules ask for (rotatingTeam).
LEMMA RotatingTeamFits ==
  ASSUME Rules, Playing
  PROVE  /\ RotatingTeam \subseteq players
         /\ Cardinality(RotatingTeam) = MissionTeamSize(Cardinality(players), round)
<1> DEFINE n == Cardinality(players)
           size == MissionTeamSize(n, round)
           turn(p) == (Listed(p) - (round - 1)) % n
           others == players \ {leader}
           f == [p \in others |-> turn(p)]
           V == {p \in others : Cardinality({q \in others : turn(q) < turn(p)}) < size - 1}
<1>1. /\ n \in Nat /\ IsFiniteSet(players) /\ players \in SUBSET Everyone
      /\ round \in Nat /\ round - 1 \in Int /\ leader \in players
      /\ size \in Nat \ {0} /\ size <= n
  BY GameOn DEF people
<1>2. RotatingTeam = IF size >= n THEN players ELSE {leader} \cup V
  BY DEF RotatingTeam
<1>3. CASE size >= n
  <2>1. size = n
    <3> HIDE DEF size, n
    <3> QED
      BY <1>1, <1>3
  <2> QED
    BY <1>2, <1>3, <2>1
<1>4. CASE ~(size >= n)
  <2>1. IsFiniteSet(others) /\ Cardinality(others) = n - 1
    BY <1>1, FS_RemoveElement
  <2>2. ASSUME NEW p \in players PROVE Listed(p) \in 0 .. n - 1
    BY ListRanks DEF Rules
  <2>3. ASSUME NEW p \in others PROVE f[p] = turn(p) /\ turn(p) \in Int
    <3>1. Listed(p) - (round - 1) \in Int
      BY <1>1, <2>2
    <3>2. n # 0
      <4> HIDE DEF n
      <4> QED
        BY <1>1, <2>2
    <3> HIDE DEF n
    <3> QED
      BY <1>1, <3>1, <3>2
  <2>4. ASSUME NEW p \in others, NEW q \in others, f[p] = f[q] PROVE p = q
    <3>1. Listed(p) = Listed(q)
      <4>1. turn(p) = turn(q)
        BY <2>3, <2>4
      <4> HIDE DEF n
      <4> QED
        BY <1>1, <2>2, <4>1, TurnedPlacesDiffer
    <3> QED
      BY <3>1, ListRanks DEF Rules
  <2>5. V = {p \in others : Cardinality({q \in others : f[q] < f[p]}) < size - 1}
    <3>1. ASSUME NEW p \in others PROVE {q \in others : turn(q) < turn(p)} = {q \in others : f[q] < f[p]}
      BY <2>3
    <3> HIDE DEF f, turn, size, others
    <3> QED
      BY <3>1
  <2>6. size - 1 \in Nat /\ size - 1 <= n - 1
    <3> HIDE DEF size, n
    <3> QED
      BY <1>1
  <2>7. Cardinality(V) = size - 1
    <3>1. \A p \in others : f[p] \in Int
      BY <2>3
    <3> HIDE DEF f, others, size, V, turn, n
    <3> QED
      BY <2>1, <2>4, <2>5, <2>6, <3>1, FirstOnesCount
  <2>8. IsFiniteSet(V) /\ leader \notin V /\ V \subseteq players
    BY <2>1, FS_Subset
  <2>9. Cardinality(V \cup {leader}) = size
    <3> HIDE DEF V, size
    <3>1. Cardinality(V \cup {leader}) = Cardinality(V) + 1
      BY <2>8, FS_AddElement
    <3> QED
      BY <1>1, <2>7, <3>1
  <2>10. RotatingTeam = V \cup {leader}
    <3> HIDE DEF V, size, n
    <3> QED
      BY <1>2, <1>4
  <2> HIDE DEF V
  <2> QED
    BY <1>1, <2>8, <2>9, <2>10
<1> QED
  BY <1>3, <1>4

-----------------------------------------------------------------------------
(* Timers *)

LEMMA UnchangedIsSame ==
  ASSUME UNCHANGED vars
  PROVE  SameStage
BY DEF vars, seatVars, gameVars, scoreVars, stageVars, pollVars, SameStage

\* Who a timer of the stage sends out is in charge of it.
LEMMA ErrandIsInCharge ==
  ASSUME Rules, Playing, NEW t \in Timers, StillOn(t), t.kind = Stage
  PROVE  Errand(t) # {} /\ \A e \in Errand(t) : InCharge(e)
<1>1. PollsAreOpen /\ MissionHasSubPhase
  BY DEF Rules, GameInv
<1>2. CASE t.kind = "propose"
  <2> DEFINE e == [do |-> "propose", leader |-> leader, team |-> RotatingTeam]
  <2>1. Errand(t) = {e}
    BY <1>2 DEF Errand
  <2>2. e.do = "propose" /\ e.leader = leader /\ e.team = RotatingTeam
    OBVIOUS
  <2>3. InCharge(e)
    <3> HIDE DEF e
    <3> QED
      BY <1>2, <2>2, RotatingTeamFits DEF InCharge
  <2> QED
    BY <2>1, <2>3
<1>3. CASE t.kind = "discuss"
  <2>1. Errand(t) = {[do |-> "call"]}
    BY <1>3 DEF Errand
  <2>2. \A e : e.do = "call" => InCharge(e)
    BY <1>3 DEF InCharge
  <2> QED
    BY <2>1, <2>2
<1>4. CASE t.kind = "team_vote"
  <2>1. players \ Voted(teamVotes) # {}
    BY <1>1, <1>4 DEF PollsAreOpen, StillOn
  <2>2. Errand(t) = {[do |-> "vote", left |-> players \ Voted(teamVotes)]}
    BY <1>4, <2>1 DEF Errand, MoveFor
  <2>3. \A e : e.do = "vote" /\ e.left = players \ Voted(teamVotes) => InCharge(e)
    BY <1>4 DEF InCharge
  <2> QED
    BY <2>2, <2>3
<1>5. CASE t.kind = "briefing"
  <2>1. Errand(t) = {[do |-> "brief"]}
    BY <1>5 DEF Errand
  <2>2. \A e : e.do = "brief" => InCharge(e)
    BY <1>5 DEF InCharge
  <2> QED
    BY <2>1, <2>2
<1>6. CASE t.kind = "mission"
  <2>1. phase = "mission" /\ sub = "vote"
    BY <1>6 DEF StillOn, Stage
  <2>2. team \ Voted(missionVotes) # {}
    BY <1>1, <2>1 DEF PollsAreOpen
  <2>3. Errand(t) = {[do |-> "act", left |-> team \ Voted(missionVotes)]}
    BY <1>6, <2>2 DEF Errand, MoveFor
  <2>4. \A e : e.do = "act" /\ e.left = team \ Voted(missionVotes) => InCharge(e)
    BY <1>6 DEF InCharge
  <2> QED
    BY <2>3, <2>4
<1>7. t.kind # "bots" /\ t.kind \in Kinds
  <2>1. phase # "bots"
    BY DEF Rules, SeatsInv, LifeInv, TypeOK
  <2> QED
    BY <2>1 DEF Stage, Timers
<1> QED
  BY <1>2, <1>3, <1>4, <1>5, <1>6, <1>7 DEF Kinds, Stages

\* And a job of a known kind.
LEMMA ErrandsAreJobs ==
  ASSUME Rules, NEW t \in Timers, StillOn(t)
  PROVE  Errand(t) \in SUBSET Jobs
<1>1. TypeOK
  BY DEF Rules, SeatsInv, LifeInv
<1>2. players \in SUBSET Everyone /\ team \in SUBSET Everyone
  BY <1>1 DEF TypeOK
<1>3. t.kind \in Kinds
  BY DEF Timers
<1>4. CASE t.kind = "propose"
  <2>1. Playing
    BY <1>4 DEF StillOn, Playing
  <2>2. leader \in Humans /\ RotatingTeam \in SUBSET Everyone
    BY <1>2, <2>1, GameOn, RotatingTeamFits DEF people
  <2> QED
    BY <1>4, <2>2 DEF Errand, Jobs
<1>5. CASE t.kind \in {"discuss", "briefing"}
  BY <1>5 DEF Errand, Jobs
<1>6. CASE t.kind \in {"team_vote", "mission"}
  BY <1>2, <1>6 DEF Errand, Jobs, MoveFor
<1>7. CASE t.kind = "bots"
  BY <1>7 DEF Errand, Jobs, bots
<1> QED
  BY <1>3, <1>4, <1>5, <1>6, <1>7 DEF Kinds, Stages

LEMMA FireKeeps ==
  ASSUME TimersInv, Rules', NEW t \in BagToSet(timers), Fire(t)
  PROVE  GamesAreTimed'
<1>1. /\ TimersTypeOK /\ EveryStageIsTimed /\ Rules /\ t \in Timers
      /\ TypeOK' /\ UNCHANGED vars /\ served' = served /\ served \in {"no", "late", "yes"}
  BY DEF TimersInv, GamesAreTimed, Fire, Rules, SeatsInv, LifeInv, TimersTypeOK
<1>2. /\ IsABag(timers') /\ BagToSet(timers') \subseteq BagToSet(timers)
      /\ BagToSet(timers) \ {t} \subseteq BagToSet(timers')
  BY <1>1, Removing DEF Fire, TimersTypeOK
<1>3. \/ StillOn(t) /\ \E errand \in Errand(t) : Begin({errand})
      \/ jobs' = jobs /\ ~(StillOn(t) /\ Errand(t) # {})
  BY DEF Fire
<1>4. /\ IsABag(jobs') /\ (\A j \in BagToSet(jobs') : j \in Jobs)
      /\ BagToSet(jobs) \subseteq BagToSet(jobs')
  <2>1. CASE jobs' = jobs
    BY <1>1, <2>1 DEF TimersTypeOK
  <2>2. ASSUME StillOn(t), NEW errand \in Errand(t), Begin({errand})
        PROVE  /\ IsABag(jobs') /\ (\A j \in BagToSet(jobs') : j \in Jobs)
               /\ BagToSet(jobs) \subseteq BagToSet(jobs')
    <3>1. {errand} \in SUBSET Jobs
      BY <1>1, <2>2, ErrandsAreJobs
    <3> QED
      BY <1>1, <2>2, <3>1, JobsBegin DEF TimersTypeOK
  <2> QED
    BY <1>3, <2>1, <2>2
<1>5. TimersTypeOK'
  BY <1>1, <1>2, <1>4 DEF TimersTypeOK
<1>6. SameStage
  BY <1>1, UnchangedIsSame
<1>7. EveryStageIsTimed'
  <2> SUFFICES ASSUME Playing', served' = "yes" PROVE EveryStageIsTimed'
    BY DEF EveryStageIsTimed
  <2>1. Playing /\ served = "yes"
    BY <1>1, <1>6 DEF Playing, SameStage
  <2>2. CASE \E u \in BagToSet(timers) \ {t} : StillOn(u) /\ u.kind = Stage
    BY <1>2, <1>6, <2>2, SameStageSameWatch DEF EveryStageIsTimed
  <2>3. CASE \E j \in BagToSet(jobs) : InCharge(j)
    BY <1>4, <1>6, <2>3, SameStageSameWatch DEF EveryStageIsTimed
  <2>4. CASE StillOn(t) /\ t.kind = Stage
    <3>1. PICK errand \in Errand(t) : Begin({errand})
      BY <1>1, <1>3, <2>1, <2>4, ErrandIsInCharge
    <3>2. InCharge(errand)
      BY <1>1, <2>1, <2>4, ErrandIsInCharge
    <3>3. errand \in BagToSet(jobs')
      BY <1>1, <3>1, JobsBegin DEF TimersTypeOK
    <3> QED
      BY <1>6, <3>2, <3>3, SameStageSameWatch, NewInCharge
  <2> QED
    BY <1>1, <2>1, <2>2, <2>3, <2>4 DEF EveryStageIsTimed
<1> QED
  BY <1>5, <1>7 DEF GamesAreTimed

\* The timer that is armed for a stage that is on finds it on.
LEMMA ArmedIsStillOn ==
  ASSUME Rules, Playing, Stage \in Stages
  PROVE  \E t \in Armed(Stage, round) : StillOn(t) /\ t.kind = Stage
<1>1. Playing /\ status # "absent" /\ MissionHasSubPhase
  BY DEF Playing, Rules
<1>2. CASE Stage = "propose"
  <2> DEFINE t == [kind |-> "propose", round |-> round, about |-> {leader}]
  <2>1. t \in Armed(Stage, round) /\ t.kind = Stage
    BY <1>2 DEF Armed
  <2>2. t.kind = "propose" /\ t.round = round /\ t.about = {leader}
    OBVIOUS
  <2>3. StillOn(t)
    <3> HIDE DEF t
    <3> QED
      BY <1>1, <1>2, <2>2 DEF StillOn, Stage, Playing
  <2> QED
    BY <2>1, <2>3
<1>3. CASE Stage \in {"discuss", "team_vote"}
  <2> DEFINE t == [kind |-> Stage, round |-> round, about |-> team]
  <2>1. t \in Armed(Stage, round) /\ t.kind = Stage
    BY <1>3 DEF Armed
  <2>2. t.kind = Stage /\ t.round = round /\ t.about = team
    OBVIOUS
  <2>3. StillOn(t)
    <3> HIDE DEF t
    <3> QED
      BY <1>1, <1>3, <2>2 DEF StillOn, Stage
  <2> QED
    BY <2>1, <2>3
<1>4. CASE Stage \in {"briefing", "mission"}
  <2> DEFINE t == [kind |-> Stage, round |-> round, about |-> {}]
  <2>1. t \in Armed(Stage, round) /\ t.kind = Stage
    BY <1>4 DEF Armed
  <2>2. t.kind = Stage /\ t.round = round
    OBVIOUS
  <2>3. StillOn(t)
    <3>1. phase \notin {"briefing"}
      BY DEF Rules, SeatsInv, LifeInv, TypeOK
    <3> HIDE DEF t
    <3> QED
      BY <1>1, <1>4, <2>2, <3>1 DEF StillOn, Stage, MissionHasSubPhase
  <2> QED
    BY <2>1, <2>3
<1> QED
  BY <1>2, <1>3, <1>4 DEF Stages

LEMMA ArmTimersKeeps ==
  ASSUME TimersInv, Rules', NEW j \in BagToSet(jobs), ArmTimers(j)
  PROVE  GamesAreTimed'
<1>1. /\ TimersTypeOK /\ EveryStageIsTimed /\ Rules /\ TypeOK /\ j \in Jobs
      /\ TypeOK' /\ UNCHANGED vars /\ served' = served /\ j.do = "schedule"
  BY DEF TimersInv, GamesAreTimed, ArmTimers, Rules, SeatsInv, LifeInv, TimersTypeOK
<1>2. j.stage \in Stages /\ j.round \in Nat
  BY <1>1, JobKinds
<1>3. Armed(j.stage, j.round) \in SUBSET Timers
  <2>1. /\ {leader} \in SUBSET (Everyone \cup {Nobody}) /\ team \in SUBSET (Everyone \cup {Nobody})
        /\ round \in Nat
    BY <1>1 DEF TypeOK, Everyone
  <2> QED
    BY <1>2, <2>1 DEF Armed, Timers, Kinds, Stages
<1>4. /\ IsABag(timers') /\ BagToSet(timers) \subseteq BagToSet(timers')
      /\ BagToSet(timers') \subseteq Timers
      /\ status # "absent" => Armed(j.stage, j.round) \subseteq BagToSet(timers')
  BY <1>1, <1>3, Adding DEF ArmTimers, TimersTypeOK
<1>5. /\ IsABag(jobs') /\ (\A k \in BagToSet(jobs') : k \in Jobs)
      /\ BagToSet(jobs) \ {j} \subseteq BagToSet(jobs')
  <2>1. Become(j, {})
    BY DEF ArmTimers
  <2> QED
    BY <1>1, <2>1, JobsBecome DEF TimersTypeOK
<1>6. TimersTypeOK'
  BY <1>1, <1>4, <1>5 DEF TimersTypeOK
<1>7. SameStage
  BY <1>1, UnchangedIsSame
<1>8. EveryStageIsTimed'
  <2> SUFFICES ASSUME Playing', served' = "yes" PROVE EveryStageIsTimed'
    BY DEF EveryStageIsTimed
  <2>1. Playing /\ served = "yes"
    BY <1>1, <1>7 DEF Playing, SameStage
  <2>2. CASE \E u \in BagToSet(timers) : StillOn(u) /\ u.kind = Stage
    BY <1>4, <1>7, <2>2, SameStageSameWatch DEF EveryStageIsTimed
  <2>3. CASE \E k \in BagToSet(jobs) \ {j} : InCharge(k)
    BY <1>5, <1>7, <2>3, SameStageSameWatch DEF EveryStageIsTimed
  <2>4. CASE InCharge(j)
    <3>1. j.stage = Stage /\ j.round = round
      BY <1>1, <2>4 DEF InCharge
    <3>2. PICK t \in Armed(j.stage, j.round) : StillOn(t) /\ t.kind = Stage
      BY <1>1, <1>2, <2>1, <3>1, ArmedIsStillOn
    <3>3. t \in BagToSet(timers')
      BY <1>4, <2>1 DEF Playing
    <3> QED
      BY <1>7, <3>2, <3>3, SameStageSameWatch DEF EveryStageIsTimed
  <2> QED
    BY <1>1, <2>1, <2>2, <2>3, <2>4 DEF EveryStageIsTimed
<1> QED
  BY <1>6, <1>8 DEF GamesAreTimed

-----------------------------------------------------------------------------
(* Handlers *)

\* A job that is replaced by jobs of known kinds.
LEMMA ReplacedJob ==
  ASSUME TimersInv, Rules', NEW j, NEW next \in SUBSET Jobs, Become(j, next),
         UNCHANGED <<timers, served>>
  PROVE  /\ TimersTypeOK' /\ TimersTypeOK /\ EveryStageIsTimed
         /\ next \subseteq BagToSet(jobs')
<1>1. TimersTypeOK /\ EveryStageIsTimed /\ TypeOK'
  BY DEF TimersInv, GamesAreTimed, Rules, SeatsInv, LifeInv
<1>2. IsABag(jobs') /\ \A k \in BagToSet(jobs') : k \in Jobs
  BY <1>1, JobsAreTyped
<1>3. next \subseteq BagToSet(jobs')
  BY <1>1, JobsBecome DEF TimersTypeOK
<1> QED
  BY <1>1, <1>2, <1>3, TypesKept DEF TimersTypeOK

\* One that leaves the stage as it was.
LEMMA StageStays ==
  ASSUME TimersInv, Rules', NEW j, NEW next \in SUBSET Jobs, Become(j, next),
         UNCHANGED <<timers, served>>, SameStage,
         Playing /\ InCharge(j) => \E k \in next : InCharge(k)'
  PROVE  GamesAreTimed'
BY ReplacedJob, ChargeIsHandedOn DEF GamesAreTimed

\* One that announces the stage it has brought about.
LEMMA StageBegins ==
  ASSUME TimersInv, Rules', NEW j, NEW next \in SUBSET Jobs, Become(j, next),
         UNCHANGED <<timers, served>>,
         Playing' => \E k \in next : InCharge(k)'
  PROVE  GamesAreTimed'
BY ReplacedJob, NewInCharge, NoGameNoWatch DEF GamesAreTimed

\* What a handler may use of the invariant.
LEMMA InvariantTells ==
  ASSUME TimersInv
  PROVE  /\ Rules /\ TimersTypeOK /\ TypeOK /\ round \in Nat /\ PollsAreOpen /\ MissionHasSubPhase
         /\ \A j \in BagToSet(jobs) : j \in Jobs
         /\ \A stage \in Stages : {Schedule(stage, round)} \in SUBSET Jobs
<1>1. Rules /\ TimersTypeOK /\ TypeOK /\ round \in Nat /\ PollsAreOpen /\ MissionHasSubPhase
  BY DEF TimersInv, GamesAreTimed, Rules, SeatsInv, LifeInv, GameInv, TypeOK
<1> QED
  BY <1>1 DEF TimersTypeOK, Schedule, Jobs

\* The announcement of a stage that has just begun.
LEMMA Announced ==
  ASSUME NEW stage, NEW r, r = round', stage = Stage'
  PROVE  InCharge(Schedule(stage, r))'
BY DEF InCharge, Schedule

LEMMA AutoProposeKeeps ==
  ASSUME TimersInv, Rules', NEW j \in BagToSet(jobs), AutoPropose(j)
  PROVE  GamesAreTimed'
<1>0. Rules /\ {Schedule("discuss", round)} \in SUBSET Jobs /\ UNCHANGED <<timers, served>>
  BY InvariantTells DEF AutoPropose, Stages
<1>1. CASE ProposeMission(j.leader, j.team) /\ Become(j, {Schedule("discuss", round)})
  <2>1. PICK r : r = round'
    OBVIOUS
  <2>2. r = round /\ Stage' = "discuss"
    BY <1>1, <2>1 DEF ProposeMission, scoreVars, Stage
  <2>3. InCharge(Schedule("discuss", r))'
    BY <2>1, <2>2, Announced
  <2> QED
    BY <1>0, <1>1, <2>2, <2>3, StageBegins
<1>2. CASE /\ \/ phase # "propose" \/ j.leader # leader \/ ~(j.team \subseteq players)
              \/ Cardinality(j.team) # MissionTeamSize(Cardinality(players), round)
           /\ Become(j, {}) /\ UNCHANGED vars
  <2>1. ~InCharge(j)
    BY <1>2 DEF InCharge, AutoPropose, Stage
  <2> QED
    BY <1>0, <1>2, <2>1, UnchangedIsSame, StageStays
<1> QED
  BY <1>1, <1>2 DEF AutoPropose

LEMMA CallsKeep ==
  ASSUME TimersInv, Rules', NEW j \in BagToSet(jobs), CallVote(j) \/ CallMission(j)
  PROVE  GamesAreTimed'
<1>0. /\ {Schedule("team_vote", round)} \in SUBSET Jobs /\ {Schedule("mission", round)} \in SUBSET Jobs
      /\ UNCHANGED <<timers, served>> /\ MissionHasSubPhase /\ {} \in SUBSET Jobs
  BY InvariantTells DEF CallVote, CallMission, Stages
<1>1. PICK r : r = round'
  OBVIOUS
<1>2. CASE StartTeamVote /\ Become(j, {Schedule("team_vote", round)})
  <2>1. r = round /\ Stage' = "team_vote"
    BY <1>1, <1>2 DEF StartTeamVote, scoreVars, Stage
  <2>2. InCharge(Schedule("team_vote", r))'
    BY <1>1, <2>1, Announced
  <2> QED
    BY <1>0, <1>2, <2>1, <2>2, StageBegins
<1>3. CASE StartMissionVote /\ Become(j, {Schedule("mission", round)})
  <2>1. r = round /\ Stage' = "mission"
    BY <1>1, <1>3 DEF StartMissionVote, scoreVars, Stage
  <2>2. InCharge(Schedule("mission", r))'
    BY <1>1, <2>1, Announced
  <2> QED
    BY <1>0, <1>3, <2>1, <2>2, StageBegins
<1>4. CASE /\ \/ j.do = "call" /\ phase # "discuss"
              \/ j.do = "brief" /\ ~(phase = "mission" /\ sub = "discuss")
           /\ Become(j, {}) /\ UNCHANGED vars
  <2>1. phase # "briefing"
    BY InvariantTells DEF TypeOK
  <2>2. ~InCharge(j)
    BY <1>0, <1>4, <2>1 DEF InCharge, Stage, MissionHasSubPhase
  <2> QED
    BY <1>0, <1>4, <2>2, UnchangedIsSame, StageStays
<1> QED
  BY <1>2, <1>3, <1>4 DEF CallVote, CallMission

\* What is left of an errand for several people is an errand for fewer.
LEMMA RestIsJob ==
  ASSUME NEW j \in Jobs, j.do \in {"vote", "act"}, NEW p \in j.left
  PROVE  /\ Rest(j, p) \in SUBSET Jobs
         /\ j.left # {p} => \E k \in Rest(j, p) : k.do = j.do /\ k.left = j.left \ {p}
         /\ j.left = {p} => Rest(j, p) = {}
<1>1. j.left \in (SUBSET Everyone) \ {{}}
  BY JobKinds
<1>2. j \in [do : {"vote", "act"}, left : (SUBSET Everyone) \ {{}}]
  BY DEF Jobs
<1> DEFINE k == [j EXCEPT !.left = @ \ {p}]
<1>3. k.do = j.do /\ k.left = j.left \ {p}
  BY <1>2
<1>4. j.left # {p} => k \in [do : {"vote", "act"}, left : (SUBSET Everyone) \ {{}}]
  BY <1>2
<1>5. j.left # {p} => k \in Jobs
  <2> HIDE DEF k
  <2> QED
    BY <1>4 DEF Jobs
<1>6. Rest(j, p) = IF j.left = {p} THEN {} ELSE {k}
  BY DEF Rest
<1> HIDE DEF k
<1> QED
  BY <1>3, <1>5, <1>6

\* The others are still to be voted for.
LEMMA RestVotes ==
  ASSUME TimersInv, Rules', SameStage, NEW j \in Jobs, j.do = "vote", NEW p \in j.left,
         p \in Voted(teamVotes') \/ p \notin players, Playing, InCharge(j)
  PROVE  \E k \in Rest(j, p) : InCharge(k)'
<1>1. Stage = "team_vote" /\ players \ Voted(teamVotes) \subseteq j.left
  BY DEF InCharge
<1>2. Playing' /\ players' = players /\ Stage' = Stage /\ phase' = "team_vote"
  BY <1>1, Zenon DEF SameStage, Playing, players, Stage
<1>3. players \ Voted(teamVotes') \subseteq j.left \ {p}
  BY <1>1 DEF SameStage
<1>4. players' \ Voted(teamVotes') # {}
  BY <1>2 DEF Rules, GameInv, PollsAreOpen
<1>5. j.left # {p}
  BY <1>2, <1>3, <1>4
<1>6. PICK k \in Rest(j, p) : k.do = "vote" /\ k.left = j.left \ {p}
  BY <1>5, RestIsJob
<1>7. InCharge(k)'
  BY <1>1, <1>2, <1>3, <1>6 DEF InCharge
<1> QED
  BY <1>6, <1>7

\* The same on a mission.
LEMMA RestActs ==
  ASSUME TimersInv, Rules', SameStage, NEW j \in Jobs, j.do = "act", NEW p \in j.left,
         p \in Voted(missionVotes') \/ p \notin team, Playing, InCharge(j)
  PROVE  \E k \in Rest(j, p) : InCharge(k)'
<1>1. Stage = "mission" /\ team \ Voted(missionVotes) \subseteq j.left
  BY DEF InCharge
<1>2. Playing' /\ team' = team /\ Stage' = Stage
  BY <1>1, Zenon DEF SameStage, Playing, Stage
<1>3. team \ Voted(missionVotes') \subseteq j.left \ {p}
  BY <1>1 DEF SameStage
<1>4. team' \ Voted(missionVotes') # {}
  <2>1. phase' # "mission" => Stage' = phase'
    BY DEF Stage
  <2>2. phase' = "mission" => sub' = "vote"
    BY <1>1, <1>2 DEF Stage
  <2>3. phase' = "mission"
    BY <1>1, <1>2, <2>1
  <2> QED
    BY <1>2, <2>2, <2>3 DEF Rules, GameInv, PollsAreOpen
<1>5. j.left # {p}
  BY <1>2, <1>3, <1>4
<1>6. PICK k \in Rest(j, p) : k.do = "act" /\ k.left = j.left \ {p}
  BY <1>5, RestIsJob
<1>7. InCharge(k)'
  BY <1>1, <1>2, <1>3, <1>6 DEF InCharge
<1> QED
  BY <1>6, <1>7

LEMMA VoteForKeeps ==
  ASSUME TimersInv, Rules', NEW j \in BagToSet(jobs), VoteFor(j)
  PROVE  GamesAreTimed'
<1>0. /\ TypeOK /\ j \in Jobs /\ j.do = "vote" /\ j.left \in SUBSET Everyone
      /\ UNCHANGED <<timers, served>>
  BY InvariantTells, JobKinds DEF VoteFor
<1>1. ASSUME NEW p \in j.left, TeamVote(p, "no"),
             Become(j, IF TeamPollEnds THEN AfterTeamVote ELSE Rest(j, p))
      PROVE  GamesAreTimed'
  <2>1. p \in Everyone /\ Rest(j, p) \in SUBSET Jobs
    BY <1>0, RestIsJob
  <2>2. /\ Playing' => Playing
        /\ \/ SameStage /\ ~TeamPollEnds /\ p \in Voted(teamVotes')
           \/ TeamPollEnds /\ (Playing' => \E k \in AfterTeamVote : InCharge(k)')
        /\ AfterTeamVote \in SUBSET Jobs
    BY <1>0, <1>1, <2>1, TeamVoteLeads
  <2>3. CASE TeamPollEnds
    <3>1. Become(j, AfterTeamVote)
      BY <1>1, <2>3
    <3> QED
      BY <1>0, <2>2, <2>3, <3>1, StageBegins
  <2>4. CASE ~TeamPollEnds
    <3>1. Become(j, Rest(j, p))
      BY <1>1, <2>4
    <3>2. Playing /\ InCharge(j) => \E k \in Rest(j, p) : InCharge(k)'
      BY <1>0, <2>2, <2>4, RestVotes
    <3> QED
      BY <1>0, <2>1, <2>2, <2>4, <3>1, <3>2, StageStays
  <2> QED
    BY <2>3, <2>4
<1>2. ASSUME NEW p \in j.left, phase # "team_vote" \/ p \notin players,
             Become(j, Rest(j, p)), UNCHANGED vars
      PROVE  GamesAreTimed'
  <2>1. SameStage /\ Rest(j, p) \in SUBSET Jobs
    BY <1>0, <1>2, RestIsJob, UnchangedIsSame
  <2>2. phase # "team_vote" => ~InCharge(j)
    BY <1>0 DEF InCharge, Stage
  <2>3. Playing /\ InCharge(j) => \E k \in Rest(j, p) : InCharge(k)'
    BY <1>0, <1>2, <2>1, <2>2, RestVotes
  <2> QED
    BY <1>0, <1>2, <2>1, <2>3, StageStays
<1> QED
  BY <1>1, <1>2 DEF VoteFor

LEMMA ActForKeeps ==
  ASSUME TimersInv, Rules', NEW j \in BagToSet(jobs), ActFor(j)
  PROVE  GamesAreTimed'
<1>0. /\ TypeOK /\ TypeOK' /\ j \in Jobs /\ j.do = "act" /\ j.left \in SUBSET Everyone
      /\ UNCHANGED <<timers, served>>
  BY InvariantTells, JobKinds DEF ActFor, Rules, SeatsInv, LifeInv
<1>1. ASSUME NEW p \in j.left, MissionVote(p, "support"),
             Become(j, IF MissionEnds THEN AfterMissionVote ELSE Rest(j, p))
      PROVE  GamesAreTimed'
  <2>1. p \in Everyone /\ Rest(j, p) \in SUBSET Jobs
    BY <1>0, RestIsJob
  <2>2. /\ Playing' => Playing
        /\ \/ SameStage /\ ~MissionEnds /\ p \in Voted(missionVotes')
           \/ MissionEnds /\ (Playing' => \E k \in AfterMissionVote : InCharge(k)')
        /\ AfterMissionVote \in SUBSET Jobs
    BY <1>0, <1>1, <2>1, MissionVoteLeads
  <2>3. CASE MissionEnds
    <3>1. Become(j, AfterMissionVote)
      BY <1>1, <2>3
    <3> QED
      BY <1>0, <2>2, <2>3, <3>1, StageBegins
  <2>4. CASE ~MissionEnds
    <3>1. Become(j, Rest(j, p))
      BY <1>1, <2>4
    <3>2. Playing /\ InCharge(j) => \E k \in Rest(j, p) : InCharge(k)'
      BY <1>0, <2>2, <2>4, RestActs
    <3> QED
      BY <1>0, <2>1, <2>2, <2>4, <3>1, <3>2, StageStays
  <2> QED
    BY <2>3, <2>4
<1>2. ASSUME NEW p \in j.left, ~(phase = "mission" /\ sub = "vote" /\ p \in team),
             Become(j, Rest(j, p)), UNCHANGED vars
      PROVE  GamesAreTimed'
  <2>1. SameStage /\ Rest(j, p) \in SUBSET Jobs
    BY <1>0, <1>2, RestIsJob, UnchangedIsSame
  <2>2. InCharge(j) => phase = "mission" /\ sub = "vote"
    BY <1>0 DEF InCharge, Stage, TypeOK
  <2>3. Playing /\ InCharge(j) => \E k \in Rest(j, p) : InCharge(k)'
    BY <1>0, <1>2, <2>1, <2>2, RestActs
  <2> QED
    BY <1>0, <1>2, <2>1, <2>3, StageStays
<1> QED
  BY <1>1, <1>2 DEF ActFor

\* The AI players' handlers are never in charge, but they may end a mission.
LEMMA BotActsKeeps ==
  ASSUME TimersInv, Rules', NEW j \in BagToSet(jobs), BotActs(j)
  PROVE  GamesAreTimed'
<1>0. /\ TypeOK /\ TypeOK' /\ j \in Jobs /\ j.do = "bot" /\ j.who \in Everyone
      /\ UNCHANGED <<timers, served>> /\ {} \in SUBSET Jobs
  BY InvariantTells, JobKinds DEF BotActs, Rules, SeatsInv, LifeInv, Everyone
<1>1. ~InCharge(j)
  BY <1>0 DEF InCharge
<1>2. CASE MissionVote(j.who, "support") /\ Become(j, AfterMissionVote)
  <2>1. /\ \/ SameStage /\ AfterMissionVote = {}
           \/ Playing' => \E k \in AfterMissionVote : InCharge(k)'
        /\ AfterMissionVote \in SUBSET Jobs
    BY <1>0, <1>2, MissionVoteLeads
  <2>2. CASE SameStage
    BY <1>0, <1>1, <1>2, <2>1, <2>2, StageStays
  <2>3. CASE Playing' => \E k \in AfterMissionVote : InCharge(k)'
    BY <1>0, <1>2, <2>1, <2>3, StageBegins
  <2> QED
    BY <2>1, <2>2, <2>3
<1>3. CASE Become(j, {}) /\ UNCHANGED vars
  BY <1>0, <1>1, <1>3, UnchangedIsSame, StageStays
<1> QED
  BY <1>2, <1>3 DEF BotActs

-----------------------------------------------------------------------------
(* People *)

\* Somebody's move that begins handlers.
LEMMA BegunJobs ==
  ASSUME TimersInv, Rules', NEW next \in SUBSET Jobs, Begin(next),
         UNCHANGED timers, served' \in {"no", "late", "yes"}
  PROVE  /\ TimersTypeOK' /\ EveryStageIsTimed
         /\ BagToSet(jobs) \subseteq BagToSet(jobs') /\ next \subseteq BagToSet(jobs')
<1>1. TimersTypeOK /\ EveryStageIsTimed /\ TypeOK'
  BY DEF TimersInv, GamesAreTimed, Rules, SeatsInv, LifeInv
<1>2. IsABag(jobs') /\ \A k \in BagToSet(jobs') : k \in Jobs
  BY <1>1, JobsAreTyped
<1>3. BagToSet(jobs') = BagToSet(jobs) \cup next
  BY <1>1, JobsBegin DEF TimersTypeOK
<1> QED
  BY <1>1, <1>2, <1>3, TypesKept

LEMMA SeatsKeep ==
  ASSUME TimersInv, Rules', UNCHANGED timerVars, SameStage \/ ~Playing'
  PROVE  GamesAreTimed'
<1>1. TimersTypeOK /\ EveryStageIsTimed /\ TypeOK' /\ UNCHANGED <<timers, jobs, served>>
  BY DEF TimersInv, GamesAreTimed, Rules, SeatsInv, LifeInv, timerVars
<1>2. TimersTypeOK'
  BY <1>1 DEF TimersTypeOK
<1> QED
  BY <1>1, <1>2, WatchGoesOn, NoGameNoWatch DEF GamesAreTimed

LEMMA NoGameAfterGather ==
  ASSUME NEW p, Gather(p)
  PROVE  ~Playing'
BY DEF Gather, PrepareRematchByHost, FillWithAIByHost, Playing

LEMMA SitKeeps ==
  ASSUME TimersInv, Rules', NEW p \in Humans, Sit(p)
  PROVE  GamesAreTimed'
<1>1. UNCHANGED timerVars
  BY DEF Sit, timerVars
<1>2. CASE Rejoin(p) \/ SetPlayerDisconnected(p)
  <2>1. UNCHANGED <<status, position, gameVars>>
    BY <1>2 DEF Rejoin, SetPlayerDisconnected
  <2>2. SameStage
    BY <2>1 DEF SameStage, gameVars, stageVars, scoreVars, pollVars
  <2> QED
    BY <1>1, <2>2, SeatsKeep
<1>3. CASE ~Playing'
  BY <1>1, <1>3, SeatsKeep
<1>4. JoinPlayer(p, "normal") \/ LeavePlayer(p) \/ ResetRoomByHost(p) => ~Playing'
  BY DEF JoinPlayer, LeavePlayer, ResetRoomByHost, Playing
<1>5. Gather(p) => ~Playing'
  BY NoGameAfterGather
<1> QED
  BY <1>2, <1>3, <1>4, <1>5 DEF Sit

LEMMA StrangerKeeps ==
  ASSUME TimersInv, Rules', Stranger
  PROVE  GamesAreTimed'
<1>1. UNCHANGED timerVars /\ ~Playing'
  BY NoGameAfterGather DEF Stranger, timerVars
<1> QED
  BY <1>1, SeatsKeep

\* A repeated start does not make a game one that was accepted as it began.
LEMMA StartAgainKeeps ==
  ASSUME TimersInv, Rules', NEW p \in Humans, StartAgain(p)
  PROVE  GamesAreTimed'
<1>1. /\ TimersTypeOK /\ EveryStageIsTimed /\ TypeOK'
      /\ UNCHANGED vars /\ UNCHANGED <<timers, jobs>>
  BY DEF TimersInv, GamesAreTimed, Rules, SeatsInv, LifeInv, StartAgain
<1>2. served' \in {"no", "late", "yes"} /\ (served' = "yes" => served = "yes")
  BY <1>1 DEF StartAgain, TimersTypeOK
<1>3. TimersTypeOK'
  BY <1>1, <1>2 DEF TimersTypeOK
<1> QED
  BY <1>1, <1>2, <1>3, UnchangedIsSame, WatchGoesOn DEF GamesAreTimed

LEMMA StartKeeps ==
  ASSUME TimersInv, Rules', NEW p \in Humans, Start(p)
  PROVE  GamesAreTimed'
<1>1. phase' = "propose" /\ round' = 1 /\ UNCHANGED timers
  BY DEF Start, StartGame
<1>2. CASE served' = "yes" /\ Begin({Schedule("propose", 1)})
  <2>1. {Schedule("propose", 1)} \in SUBSET Jobs
    BY DEF Schedule, Jobs, Stages
  <2>2. TimersTypeOK' /\ Schedule("propose", 1) \in BagToSet(jobs')
    BY <1>1, <1>2, <2>1, BegunJobs
  <2>3. PICK r : r = round'
    OBVIOUS
  <2>4. r = 1 /\ "propose" = Stage'
    BY <1>1, <2>3 DEF Stage
  <2>5. InCharge(Schedule("propose", r))'
    BY <2>3, <2>4, Announced
  <2> QED
    BY <2>2, <2>4, <2>5, NewInCharge DEF GamesAreTimed
<1>3. CASE served' = "no" /\ UNCHANGED jobs
  <2>1. TimersTypeOK'
    BY <1>1, <1>3 DEF TimersInv, GamesAreTimed, TimersTypeOK, Rules, SeatsInv, LifeInv
  <2> QED
    BY <1>3, <2>1 DEF GamesAreTimed, EveryStageIsTimed
<1> QED
  BY <1>2, <1>3 DEF Start

LEMMA ProposeKeeps ==
  ASSUME TimersInv, Rules', NEW p \in Humans, Propose(p)
  PROVE  GamesAreTimed'
<1>1. /\ phase' = "discuss" /\ round' = round /\ UNCHANGED timers
      /\ Begin({Schedule("discuss", round)}) /\ served' = "yes"
  BY DEF Propose, ProposeMission, scoreVars
<1>2. {Schedule("discuss", round)} \in SUBSET Jobs
  BY InvariantTells DEF Stages
<1>3. TimersTypeOK' /\ Schedule("discuss", round) \in BagToSet(jobs')
  BY <1>1, <1>2, BegunJobs
<1>4. PICK r : r = round'
  OBVIOUS
<1>5. r = round /\ "discuss" = Stage'
  BY <1>1, <1>4 DEF Stage
<1>6. InCharge(Schedule("discuss", r))'
  BY <1>4, <1>5, Announced
<1> QED
  BY <1>3, <1>5, <1>6, NewInCharge DEF GamesAreTimed

LEMMA VotesKeep ==
  ASSUME TimersInv, Rules', NEW p \in Humans, Vote(p) \/ Act(p)
  PROVE  GamesAreTimed'
<1>1. /\ TypeOK /\ TypeOK' /\ p \in Everyone /\ UNCHANGED <<timers, served>>
      /\ served' \in {"no", "late", "yes"}
  BY InvariantTells DEF Vote, Act, Rules, SeatsInv, LifeInv, Everyone, TimersTypeOK
<1>2. ASSUME NEW next \in SUBSET Jobs, Begin(next),
             SameStage \/ (Playing' => \E k \in next : InCharge(k)')
      PROVE  GamesAreTimed'
  <2>1. /\ TimersTypeOK' /\ EveryStageIsTimed
        /\ BagToSet(jobs) \subseteq BagToSet(jobs') /\ next \subseteq BagToSet(jobs')
    BY <1>1, <1>2, BegunJobs
  <2>2. CASE SameStage
    BY <1>1, <2>1, <2>2, WatchGoesOn DEF GamesAreTimed
  <2>3. CASE Playing' => \E k \in next : InCharge(k)'
    BY <2>1, <2>3, NewInCharge, NoGameNoWatch DEF GamesAreTimed
  <2> QED
    BY <1>2, <2>2, <2>3
<1>3. CASE Vote(p)
  <2>1. PICK vote \in {"yes", "no"} : TeamVote(p, vote)
    BY <1>3 DEF Vote
  <2>2. /\ SameStage \/ (Playing' => \E k \in AfterTeamVote : InCharge(k)')
        /\ AfterTeamVote \in SUBSET Jobs
    BY <1>1, <2>1, TeamVoteLeads
  <2>3. Begin(AfterTeamVote)
    BY <1>3 DEF Vote
  <2> QED
    BY <1>2, <2>2, <2>3
<1>4. CASE Act(p)
  <2>1. PICK deed \in {"support", "sabotage"} : MissionVote(p, deed)
    BY <1>4 DEF Act
  <2>2. /\ SameStage \/ (Playing' => \E k \in AfterMissionVote : InCharge(k)')
        /\ AfterMissionVote \in SUBSET Jobs
    BY <1>1, <2>1, MissionVoteLeads
  <2>3. Begin(AfterMissionVote)
    BY <1>4 DEF Act
  <2> QED
    BY <1>2, <2>2, <2>3
<1> QED
  BY <1>3, <1>4

-----------------------------------------------------------------------------
(* The games of the server *)

LEMMA NextKeeps == TimersInv /\ [TimersNext]_allVars => TimersInv'
<1> SUFFICES ASSUME TimersInv, [TimersNext]_allVars PROVE TimersInv'
  OBVIOUS
<1>1. Rules'
  <2>1. Rules /\ TimersTypeOK
    BY DEF TimersInv, GamesAreTimed
  <2> QED
    BY <2>1, RulesStep, RulesKept
<1>2. ASSUME NEW p \in Humans, Person(p) PROVE GamesAreTimed'
  BY <1>1, <1>2, SitKeeps, StartKeeps, StartAgainKeeps, ProposeKeeps, VotesKeep DEF Person
<1>3. ASSUME NEW j \in BagToSet(jobs), JobStep(j) PROVE GamesAreTimed'
  BY <1>1, <1>3, ArmTimersKeeps, AutoProposeKeeps, CallsKeep, VoteForKeeps, ActForKeeps, BotActsKeeps
     DEF JobStep
<1>4. ASSUME TimerFires PROVE GamesAreTimed'
  BY <1>1, <1>4, FireKeeps DEF TimerFires
<1>5. ASSUME Create PROVE GamesAreTimed'
  <2>1. UNCHANGED timerVars /\ ~Playing'
    BY <1>5 DEF Create, CreateRoom, timerVars, Playing
  <2> QED
    BY <1>1, <2>1, SeatsKeep
<1>6. ASSUME UNCHANGED allVars PROVE GamesAreTimed'
  BY <1>1, <1>6, UnchangedIsSame, SeatsKeep DEF allVars
<1> QED
  BY <1>1, <1>2, <1>3, <1>4, <1>5, <1>6, StrangerKeeps DEF TimersInv, TimersNext, HandlersGoOn

LEMMA InitTimed == TimersInit => TimersInv
<1> SUFFICES ASSUME TimersInit PROVE TimersInv
  OBVIOUS
<1>1. Init /\ timers = EmptyBag /\ jobs = EmptyBag /\ served = "no"
  BY DEF TimersInit
<1>2. LifeInv /\ GameInv /\ GameIsStaffed
  BY <1>1, InitLife, InitGame, InitStaffed
<1>3. PlacesDiffer /\ MissionHasSubPhase
  BY <1>1 DEF Init, PlacesDiffer, MissionHasSubPhase, players
<1>4. TableFits
  BY <1>1, FS_EmptySet, RulesAreSound DEF Init, TableFits, Playing, players
<1>5. TimersTypeOK
  BY <1>1, <1>2 DEF TimersTypeOK, LifeInv, EmptyBag, SetToBag, IsABag, BagToSet
<1>6. EveryStageIsTimed
  BY <1>1 DEF EveryStageIsTimed
<1> QED
  BY <1>2, <1>3, <1>4, <1>5, <1>6 DEF TimersInv, Rules, SeatsInv, GamesAreTimed

LEMMA TimersInvariant == TimersSpec => []TimersInv
BY InitTimed, NextKeeps, PTL DEF TimersSpec

\* No game that is on is left to its people alone, whatever people, timers and
\* handlers do in between (scheduleAfterEvents and the timers' handlers).
THEOREM GamesStayTimed == TimersSpec => []GamesAreTimed
BY TimersInvariant, PTL DEF TimersInv

\* Timers and handlers move a game only as the rules allow, so that all that is
\* proved of the rules holds of the games they drive (the handlers' calls).
THEOREM TimersKeepRules == TimersSpec => Spec
<1>1. TimersInit => Init
  BY DEF TimersInit
<1>2. TimersInv /\ [TimersNext]_allVars => [Next]_vars
  BY RulesStep DEF TimersInv, GamesAreTimed
<1> QED
  BY <1>1, <1>2, TimersInvariant, PTL DEF TimersSpec, Spec
=============================================================================
