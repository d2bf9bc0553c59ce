--------------------------- MODULE WhoIsAIProofs ---------------------------
(***************************************************************************)
(* Proofs about WhoIsAI, for any numbers of people, AI players, rounds and *)
(* missions.  The invariant of a game adds two facts to the properties:    *)
(* somebody is there to vote, and only infiltrators on the team have       *)
(* sabotaged so far.                                                       *)
(*                                                                         *)
(* The last part shows that WhoIsAI implements GameLife.  The mapping      *)
(* forgets the numbers of the places and keeps who sits before whom; that  *)
(* newcomers sit behind everybody needs that all places are below the      *)
(* number of players, and that no vote decides a room without a game needs *)
(* that such a room has no phase.                                          *)
(***************************************************************************)
EXTENDS WhoIsAILife, FiniteSetTheorems, WellFoundedInduction, TLAPS

Manned ==
  Playing => /\ people # {}
             /\ phase # "propose" => team # {}

DeedsAreHonest ==
  Playing /\ phase = "mission" =>
    \A q \in Everyone : missionVotes[q] = "sabotage" => q \in team \cap evil

GameInv == PlayingIsUndecided /\ PollsAreOpen /\ VotesAreFresh /\ Manned /\ DeedsAreHonest

-----------------------------------------------------------------------------
(* Places at the table *)

\* A function on a nonempty finite set has a least value.
LEMMA LeastValue ==
  ASSUME NEW S, IsFiniteSet(S), S # {}, NEW f, \A p \in S : f[p] \in Int
  PROVE  \E p \in S : \A q \in S : f[p] <= f[q]
<1> DEFINE below == [p \in S |-> {q \in S : f[q] < f[p]}]
           T == {below[p] : p \in S}
<1>1. IsWellFoundedOn(StrictSubsetOrdering(S), SUBSET S)
  BY FS_StrictSubsetOrderingWellFounded, FS_FiniteSubsetsOfFinite
<1>2. PICK U \in T : \A V \in T : ~ (<<V, U>> \in StrictSubsetOrdering(S))
  <2>1. T \subseteq SUBSET S /\ T # {}
    OBVIOUS
  <2> HIDE DEF T
  <2> QED
    BY <1>1, <2>1, WFMin
<1>3. PICK p \in S : U = below[p]
  OBVIOUS
<1>4. ASSUME NEW q \in S PROVE f[p] <= f[q]
  <2> SUFFICES ASSUME f[q] < f[p] PROVE FALSE
    OBVIOUS
  <2>1. below[q] \subseteq below[p] /\ q \in below[p] /\ q \notin below[q]
    OBVIOUS
  <2>2. <<below[q], below[p]>> \in StrictSubsetOrdering(S)
    <3>1. below[q] \subseteq S /\ below[p] \subseteq S /\ below[q] # below[p]
      BY <2>1
    <3> HIDE DEF below
    <3> QED
      BY <2>1, <3>1 DEF StrictSubsetOrdering
  <2> QED
    BY <1>2, <1>3, <2>2
<1> QED
  BY <1>4

\* At the table there is somebody with the first place of a group.
LEMMA FirstIsMember ==
  ASSUME TypeOK, NEW S \in SUBSET players, S # {}
  PROVE  First(S) \in S
<1>1. IsFiniteSet(S)
  BY PlayersAreFinite, FS_Union, FS_Subset DEF TypeOK, Everyone
<1>2. \A p \in players : position[p] \in Nat
  BY DEF TypeOK, players
<1>3. \A p \in S : position[p] \in Int
  BY <1>2
<1> QED
  BY <1>1, <1>3, LeastValue DEF First

\* And somebody with the last one.
LEMMA LastIsMember ==
  ASSUME TypeOK, NEW S \in SUBSET players, S # {}
  PROVE  Last(S) \in S
<1> DEFINE f == [p \in S |-> 0 - position[p]]
<1>1. IsFiniteSet(S)
  BY PlayersAreFinite, FS_Union, FS_Subset DEF TypeOK, Everyone
<1>2. \A p \in S : position[p] \in Nat /\ f[p] = 0 - position[p]
  BY DEF TypeOK, players
<1>3. PICK p \in S : \A q \in S : f[p] <= f[q]
  <2>1. \A p \in S : f[p] \in Int
    BY <1>2
  <2> HIDE DEF f
  <2> QED
    BY <1>1, <2>1, LeastValue
<1>4. \A q \in S : position[p] >= position[q]
  BY <1>2, <1>3
<1> QED
  BY <1>4 DEF Last

LEMMA FiniteTable == IsFiniteSet(Everyone)
BY PlayersAreFinite, FS_Union DEF Everyone

\* Players who move up keep distinct places; here only that they are numbers.
LEMMA ReseatedType ==
  ASSUME TypeOK, NEW kept \in SUBSET players
  PROVE  Reseated(kept) \in [kept -> Nat] /\ DOMAIN Reseated(kept) = kept
<1>1. ASSUME NEW p \in kept
      PROVE  Cardinality({q \in kept : position[q] < position[p]}) \in Nat
  BY FiniteTable, FS_Subset, FS_CardinalityType DEF TypeOK
<1> QED
  BY <1>1 DEF Reseated

\* Newcomers sit down behind the others.
LEMMA SeatingType ==
  ASSUME TypeOK, NEW newcomers \in SUBSET Everyone
  PROVE  /\ DOMAIN Seating(newcomers) = players \cup newcomers
         /\ Seating(newcomers) \in [players \cup newcomers -> Nat]
<1>1. Cardinality(players) \in Nat
  BY FiniteTable, FS_Subset, FS_CardinalityType DEF TypeOK
<1>2. ASSUME NEW p
      PROVE  Cardinality({q \in newcomers \cap Bots : q < p}) \in Nat
  <2>1. {q \in newcomers \cap Bots : q < p} \in SUBSET Everyone
    OBVIOUS
  <2> QED
    BY <2>1, FiniteTable, FS_Subset, FS_CardinalityType
<1>3. \A p \in players : position[p] \in Nat
  BY DEF TypeOK, players
<1>4. ASSUME NEW p \in players \cup newcomers
      PROVE  (IF p \in players THEN position[p]
              ELSE Cardinality(players) + Cardinality({q \in newcomers \cap Bots : q < p})) \in Nat
  BY <1>1, <1>2, <1>3
<1> QED
  BY <1>4 DEF Seating

\* rotateLeader finds somebody human, if there is one.
LEMMA NextLeaderType ==
  ASSUME TypeOK
  PROVE  /\ NextLeader \in Humans \cup {Nobody}
         /\ people # {} => NextLeader \in people
<1> DEFINE later == {q \in people : leader \in people /\ position[q] > position[leader]}
<1>1. people # {} => First(people) \in people
  BY FirstIsMember DEF people
<1>2. later # {} => First(later) \in people
  <2>1. later \in SUBSET players /\ later \subseteq people
    BY DEF people
  <2> HIDE DEF later
  <2> QED
    BY <2>1, FirstIsMember
<1>3. people \subseteq Humans /\ leader \in Humans \cup {Nobody}
  BY DEF people, TypeOK
<1> QED
  BY <1>1, <1>2, <1>3 DEF NextLeader

\* Roles of the evil side go to players.
LEMMA CastingSidesType ==
  ASSUME TypeOK, NEW kept \in SUBSET players, NEW E \in CastingSides(kept)
  PROVE  E \subseteq kept
<1> DEFINE ais == kept \cap Bots
<1>1. \A D \in Sides(kept) : D \subseteq kept
  BY DEF Sides
<1>2. ais # {} => Last(ais) \in kept
  <2>1. ais \in SUBSET players /\ ais \subseteq kept
    OBVIOUS
  <2> HIDE DEF ais
  <2> QED
    BY <2>1, LastIsMember
<1>3. CASE ~Scripted \/ ais = {}
  BY <1>1, <1>3 DEF CastingSides
<1>4. CASE Scripted /\ ais # {}
  <2> DEFINE Handed(D) == IF D \cap ais # {} THEN {D}
                          ELSE IF D = {} THEN {{Last(ais)}}
                          ELSE {(D \ {p}) \cup {Last(ais)} : p \in D}
  <2>0. CastingSides(kept) = UNION {Handed(D) : D \in Sides(kept)}
    BY <1>4 DEF CastingSides
  <2>1. PICK D \in Sides(kept) : E \in Handed(D)
    <3> HIDE DEF Handed
    <3> QED
      BY <2>0
  <2> HIDE DEF ais
  <2> QED
    BY <1>1, <1>2, <1>4, <2>1
<1> QED
  BY <1>3, <1>4

LEMMA VotesType ==
  ASSUME TypeOK, NEW p, NEW vote \in {"yes", "no"}
  PROVE  TeamVotesWith(p, vote) \in Votes
<1>1. \A q : AITeamVote(q) \in {"none", "yes", "no"}
  BY Zenon DEF AITeamVote
<1> QED
  BY <1>1 DEF TeamVotesWith, Votes, TypeOK

LEMMA DeedsType ==
  ASSUME TypeOK, NEW p, NEW deed \in {"support", "sabotage"}
  PROVE  /\ DeedsWith(p, deed) \in Deeds
         /\ \A rigged \in Rigged(DeedsWith(p, deed)) : rigged \in Deeds
<1>1. \A q, d \in {"support", "sabotage"} : Deed(p, d) \in {"support", "sabotage"}
  BY Zenon DEF Deed
<1>2. DeedsWith(p, deed) \in Deeds
  BY <1>1 DEF DeedsWith, Deeds, TypeOK, Deed
<1>3. ASSUME NEW rigged \in Rigged(DeedsWith(p, deed)) PROVE rigged \in Deeds
  BY <1>2, <1>3 DEF Rigged, Deeds
<1> QED
  BY <1>2, <1>3

-----------------------------------------------------------------------------
(* Types *)

LEMMA NothingYet ==
  NoVotes \in Votes /\ NoVotes \in Deeds /\ <<>> \in Seq(BOOLEAN)
<1>1. NoVotes \in Votes /\ NoVotes \in Deeds
  BY DEF NoVotes, Votes, Deeds
<1>2. <<>> \in Seq(BOOLEAN)
  OBVIOUS
<1> QED
  BY <1>1, <1>2

\* What does not concern the seats.
PlayTypeOK ==
  /\ cast \subseteq Everyone /\ evil \subseteq cast
  /\ round \in Nat /\ match \in Nat /\ streak \in Nat
  /\ phase \in {"none", "propose", "discuss", "team_vote", "mission"}
  /\ sub \in {"none", "discuss", "vote"}
  /\ leader \in Humans \cup {Nobody}
  /\ team \subseteq Everyone /\ lastTeam \subseteq Everyone
  /\ teamVotes \in Votes /\ missionVotes \in Deeds
  /\ results \in Seq(BOOLEAN) /\ successes \in Nat /\ failures \in Nat
  /\ forced \in {"none", "success", "failure"}

LEMMA BlankType == Blank /\ TypeOK => PlayTypeOK'
BY NothingYet DEF Blank, TypeOK, PlayTypeOK

LEMMA EmptyType == Empty => /\ players' = {} /\ position' \in [players' -> Nat]
                            /\ offline' \subseteq people'
                            /\ mode' \in {"normal", "test", "solo"}
BY DEF Empty, players, people

\* AI players who sit down behind the others.
LEMMA NewBotsTypes ==
  ASSUME TypeOK, NEW n, position' = Seating(NextBots(n)),
         UNCHANGED <<status, mode, offline, gameVars>>
  PROVE  TypeOK'
<1>1. NextBots(n) \in SUBSET Everyone
  BY DEF NextBots, Everyone
<1>2. /\ DOMAIN Seating(NextBots(n)) = players \cup NextBots(n)
      /\ Seating(NextBots(n)) \in [players \cup NextBots(n) -> Nat]
  BY <1>1, SeatingType
<1> QED
  BY <1>1, <1>2
  DEF TypeOK, players, people, gameVars, roleVars, scoreVars, pollVars, stageVars

LEMMA ServerTypes ==
  ASSUME TypeOK, CreateRoom \/ AddAIPlayer \/ StartTeamVote \/ StartMissionVote
  PROVE  TypeOK'
<1>1. CASE CreateRoom
  BY <1>1, BlankType, EmptyType DEF CreateRoom, TypeOK, PlayTypeOK
<1>2. CASE AddAIPlayer
  BY <1>2, NewBotsTypes DEF AddAIPlayer
<1>3. CASE StartTeamVote
  BY <1>3, NothingYet
  DEF StartTeamVote, TypeOK, players, people, seatVars, roleVars, scoreVars
<1>4. CASE StartMissionVote
  BY <1>4 DEF StartMissionVote, TypeOK, players, people, seatVars, roleVars, scoreVars, pollVars
<1> QED
  BY <1>1, <1>2, <1>3, <1>4

\* Seats: the players remain people and AI players with places.
LEMMA SeatTypes ==
  ASSUME TypeOK, NEW p \in Humans, Seat(p)
  PROVE  TypeOK'
<1> USE DEF players, people
<1>1. CASE Rejoin(p)
  BY <1>1 DEF Rejoin, TypeOK, gameVars, roleVars, scoreVars, pollVars, stageVars
<1>2. ASSUME NEW m \in Modes, JoinPlayer(p, m) PROVE TypeOK'
  <2>1. /\ DOMAIN Seating({p}) = players \cup {p}
        /\ Seating({p}) \in [players \cup {p} -> Nat]
    BY SeatingType DEF Everyone
  <2>2. m \in {"normal", "test", "solo"}
    BY RulesAreSound
  <2> QED
    BY <1>2, <2>1, <2>2
    DEF JoinPlayer, TypeOK, Everyone, gameVars, roleVars, scoreVars, pollVars, stageVars
<1>3. CASE SetPlayerDisconnected(p)
  BY <1>3 DEF SetPlayerDisconnected, TypeOK, gameVars, roleVars, scoreVars, pollVars, stageVars
<1>4. CASE LeavePlayer(p)
  <2>1. CASE players # {p}
    <3>1. /\ Reseated(players \ {p}) \in [players \ {p} -> Nat]
          /\ DOMAIN Reseated(players \ {p}) = players \ {p}
      BY ReseatedType
    <3> QED
      BY <1>4, <2>1, <3>1
      DEF LeavePlayer, TypeOK, gameVars, roleVars, scoreVars, pollVars, stageVars
  <2>2. CASE players = {p}
    BY <1>4, <2>2, BlankType, EmptyType DEF LeavePlayer, TypeOK, PlayTypeOK
  <2> QED
    BY <2>1, <2>2
<1>5. CASE ResetRoomByHost(p)
  BY <1>5, BlankType, EmptyType DEF ResetRoomByHost, TypeOK, PlayTypeOK
<1> QED
  BY <1>1, <1>2, <1>3, <1>4, <1>5 DEF Seat

LEMMA GatherTypes ==
  ASSUME TypeOK, NEW p, Gather(p)
  PROVE  TypeOK'
<1> USE DEF players, people
<1>1. CASE PrepareRematchByHost(p)
  <2>1. /\ Reseated(people \ offline) \in [people \ offline -> Nat]
        /\ DOMAIN Reseated(people \ offline) = people \ offline
    BY ReseatedType
  <2> QED
    BY <1>1, <2>1, BlankType DEF PrepareRematchByHost, TypeOK, PlayTypeOK
<1>2. CASE FillWithAIByHost(p)
  BY <1>2, NewBotsTypes DEF FillWithAIByHost
<1> QED
  BY <1>1, <1>2 DEF Gather

\* The start of a game and the phases of a round.
LEMMA PlayTypes ==
  ASSUME TypeOK, NEW p \in Everyone, Play(p)
  PROVE  TypeOK'
<1> USE DEF players, people
<1>1. CASE RefusedStart(p)
  <2>1. /\ Reseated(players \ offline) \in [players \ offline -> Nat]
        /\ DOMAIN Reseated(players \ offline) = players \ offline
    BY ReseatedType
  <2> QED
    BY <1>1, <2>1
    DEF RefusedStart, TypeOK, gameVars, roleVars, scoreVars, pollVars, stageVars
<1>2. CASE StartGame(p)
  <2>1. /\ Reseated(players \ offline) \in [players \ offline -> Nat]
        /\ DOMAIN Reseated(players \ offline) = players \ offline
    BY ReseatedType
  <2>2. evil' \subseteq players \ offline
    BY <1>2, CastingSidesType DEF StartGame
  <2>3. leader' \in Humans /\ cast' \subseteq Everyone /\ evil' \subseteq cast'
    BY <1>2, <2>2 DEF StartGame, TypeOK
  <2>4. PlayTypeOK'
    BY <1>2, <2>3, NothingYet DEF StartGame, TypeOK, PlayTypeOK
  <2> QED
    BY <1>2, <2>1, <2>4 DEF StartGame, TypeOK, PlayTypeOK
<1>3. ASSUME NEW nominees \in SUBSET players, ProposeMission(p, nominees) PROVE TypeOK'
  BY <1>3 DEF ProposeMission, TypeOK, seatVars, roleVars, scoreVars, pollVars
<1>4. ASSUME NEW vote \in {"yes", "no"}, TeamVote(p, vote) PROVE TypeOK'
  <2> DEFINE votes == TeamVotesWith(p, vote)
  <2>1. votes \in Votes /\ NoVotes \in Votes /\ NoVotes \in Deeds
    BY VotesType, NothingYet
  <2>2. NextLeader \in Humans \cup {Nobody}
    BY NextLeaderType
  <2> HIDE DEF votes
  <2>3. CASE VoteGoesOn(votes)
    BY <1>4, <2>1, <2>3
    DEF TeamVote, VoteGoesOn, TypeOK, seatVars, roleVars, scoreVars, stageVars
  <2>4. CASE TeamApproved(votes)
    BY <1>4, <2>1, <2>4
    DEF TeamVote, TeamApproved, TypeOK, seatVars, roleVars, scoreVars
  <2>5. CASE TeamRejected(votes)
    <3>1. phase' \in {phase, "propose"} /\ leader' \in {leader, NextLeader}
          /\ status' \in {status, "finished"}
      BY <2>5 DEF TeamRejected
    <3>2. PlayTypeOK'
      BY <1>4, <2>1, <2>2, <2>5, <3>1
      DEF TeamVote, TeamRejected, TypeOK, PlayTypeOK, roleVars, scoreVars
    <3> QED
      BY <1>4, <3>1, <3>2 DEF TeamVote, TypeOK, PlayTypeOK, seatVars
  <2> QED
    BY <1>4, <2>3, <2>4, <2>5 DEF TeamVote, votes
<1>5. ASSUME NEW outcome \in {"success", "failure"}, SetDebugMissionResult(p, outcome)
      PROVE  TypeOK'
  BY <1>5 DEF SetDebugMissionResult, TypeOK, seatVars, roleVars, scoreVars, pollVars, stageVars
<1>6. ASSUME NEW deed \in {"support", "sabotage"}, MissionVote(p, deed) PROVE TypeOK'
  <2> DEFINE deeds == DeedsWith(p, deed)
  <2>1. deeds \in Deeds /\ \A rigged \in Rigged(deeds) : rigged \in Deeds
    BY DeedsType
  <2>2. NextLeader \in Humans \cup {Nobody} /\ NoVotes \in Votes /\ NoVotes \in Deeds
    BY NextLeaderType, NothingYet
  <2> HIDE DEF deeds
  <2>3. CASE MissionGoesOn(deeds)
    BY <1>6, <2>1, <2>3
    DEF MissionVote, MissionGoesOn, TypeOK, seatVars, roleVars, scoreVars, stageVars
  <2>4. ASSUME NEW rigged \in Rigged(deeds), MissionResolved(rigged) PROVE TypeOK'
    <3> DEFINE success == \A q \in Everyone : rigged[q] # "sabotage"
    <3>1. success \in BOOLEAN /\ results' = Append(results, success)
      BY <2>4 DEF MissionResolved
    <3>2. results' \in Seq(BOOLEAN)
      <4> HIDE DEF success
      <4> QED
        BY <3>1 DEF TypeOK
    <3>3. successes' \in Nat /\ failures' \in Nat
      BY <2>4 DEF MissionResolved, TypeOK
    <3>4. PlayTypeOK' /\ status' \in {status, "finished"}
      BY <1>6, <2>1, <2>2, <2>4, <3>2, <3>3
      DEF MissionVote, MissionResolved, TypeOK, PlayTypeOK, roleVars, stageVars
    <3> QED
      BY <1>6, <3>4 DEF MissionVote, TypeOK, PlayTypeOK, seatVars
  <2> QED
    BY <1>6, <2>3, <2>4 DEF MissionVote, deeds
<1> QED
  BY <1>1, <1>2, <1>3, <1>4, <1>5, <1>6 DEF Play

LEMMA TypeStep == TypeOK /\ [Next]_vars => TypeOK'
<1> SUFFICES ASSUME TypeOK, [Next]_vars PROVE TypeOK'
  OBVIOUS
<1>1. CASE UNCHANGED vars
  BY <1>1 DEF vars, seatVars, gameVars, roleVars, scoreVars, pollVars, stageVars, TypeOK, players, people
<1>2. CASE Next
  BY <1>2, ServerTypes, SeatTypes, GatherTypes, PlayTypes DEF Next
<1> QED
  BY <1>1, <1>2

\* The records of the room keep their types.
THEOREM TypeCorrect == Spec => []TypeOK
<1>1. Init => TypeOK
  BY NothingYet DEF Init, TypeOK, players, people
<1> QED
  BY <1>1, TypeStep, PTL DEF Spec

-----------------------------------------------------------------------------
(* The rules *)

\* A team has somebody on it.
LEMMA TeamsAreNotEmpty ==
  ASSUME NEW n, NEW r \in Nat
  PROVE  MissionTeamSize(n, r) \in Nat \ {0}
<1> DEFINE sizes == TeamSizes[IF n \in DOMAIN TeamSizes THEN n ELSE UsualPlayers]
           index == IF r < 1 THEN 1 ELSE IF r > Len(sizes) THEN Len(sizes) ELSE r
<1>1. sizes \in Seq(Nat \ {0}) /\ sizes # <<>>
  BY RulesAreSound DEF SizesAreGiven
<1> HIDE DEF sizes
<1>2. Len(sizes) \in Nat \ {0}
  BY <1>1
<1>3. index \in 1 .. Len(sizes)
  BY <1>2
<1>4. sizes[index] \in Nat \ {0}
  <2> HIDE DEF index
  <2> QED
    BY <1>1, <1>3
<1> QED
  BY <1>4 DEF MissionTeamSize, sizes

\* When fewer have voted than there are voters, one of these has not.
LEMMA SomebodyHasNotVoted ==
  ASSUME NEW votes, NEW voters \in SUBSET Everyone,
         Cardinality(Voted(votes)) < Cardinality(voters)
  PROVE  voters \ Voted(votes) # {}
<1>1. Voted(votes) \in SUBSET Everyone
  BY DEF Voted
<1>2. IsFiniteSet(Voted(votes)) /\ Cardinality(Voted(votes)) \in Nat /\ Cardinality(voters) \in Nat
  BY <1>1, FiniteTable, FS_Subset, FS_CardinalityType
<1> SUFFICES ASSUME voters \subseteq Voted(votes) PROVE FALSE
  OBVIOUS
<1>3. Cardinality(voters) <= Cardinality(Voted(votes))
  BY <1>2, FS_Subset
<1> QED
  BY <1>2, <1>3

LEMMA NobodyHasVoted == Voted(NoVotes) = {}
BY DEF Voted, NoVotes

\* A room in which no game is on.
LEMMA NoGameNoPromise == ~Playing => GameInv
BY DEF GameInv, PlayingIsUndecided, PollsAreOpen, VotesAreFresh, Manned, DeedsAreHonest

\* More players at the table do not disturb a game.
LEMMA SeatsKeepGame ==
  ASSUME GameInv, UNCHANGED <<status, gameVars>>, Playing => players \subseteq players'
  PROVE  GameInv'
<1> USE DEF gameVars, roleVars, scoreVars, pollVars, stageVars, Playing
<1>1. PlayingIsUndecided' /\ VotesAreFresh' /\ DeedsAreHonest'
  BY DEF GameInv, PlayingIsUndecided, VotesAreFresh, DeedsAreHonest
<1>2. Manned'
  BY DEF GameInv, Manned, people
<1>3. PollsAreOpen'
  BY DEF GameInv, PollsAreOpen, Voted
<1> QED
  BY <1>1, <1>2, <1>3 DEF GameInv

LEMMA SeatStep ==
  ASSUME TypeOK, GameInv, NEW p \in Humans, Seat(p)
  PROVE  GameInv'
<1>1. CASE Rejoin(p) \/ SetPlayerDisconnected(p)
  BY <1>1, SeatsKeepGame DEF Rejoin, SetPlayerDisconnected, players
<1>2. ASSUME NEW m \in Modes, JoinPlayer(p, m) PROVE GameInv'
  BY <1>2, SeatsKeepGame DEF JoinPlayer, Playing
<1>3. CASE LeavePlayer(p)
  <2>1. CASE players # {p}
    BY <1>3, <2>1, SeatsKeepGame DEF LeavePlayer, Playing
  <2>2. CASE players = {p}
    <3>1. ~Playing'
      BY <1>3, <2>2 DEF LeavePlayer, Playing
    <3> QED
      BY <3>1 DEF GameInv, PlayingIsUndecided, PollsAreOpen, VotesAreFresh, Manned, DeedsAreHonest
  <2> QED
    BY <2>1, <2>2
<1>4. CASE ResetRoomByHost(p)
  <2>1. ~Playing'
    BY <1>4 DEF ResetRoomByHost, Playing
  <2> QED
    BY <2>1 DEF GameInv, PlayingIsUndecided, PollsAreOpen, VotesAreFresh, Manned, DeedsAreHonest
<1> QED
  BY <1>1, <1>2, <1>3, <1>4 DEF Seat

LEMMA GatherStep ==
  ASSUME TypeOK, GameInv, NEW p, Gather(p)
  PROVE  GameInv'
<1>1. CASE PrepareRematchByHost(p)
  <2>1. ~Playing'
    BY <1>1 DEF PrepareRematchByHost, Playing
  <2> QED
    BY <2>1 DEF GameInv, PlayingIsUndecided, PollsAreOpen, VotesAreFresh, Manned, DeedsAreHonest
<1>2. CASE FillWithAIByHost(p)
  BY <1>2, SeatsKeepGame DEF FillWithAIByHost, Playing
<1> QED
  BY <1>1, <1>2 DEF Gather

LEMMA ServerStep ==
  ASSUME TypeOK, GameInv, CreateRoom \/ AddAIPlayer \/ StartTeamVote \/ StartMissionVote
  PROVE  GameInv'
<1>1. CASE CreateRoom
  <2>1. ~Playing'
    BY <1>1 DEF CreateRoom, Playing
  <2> QED
    BY <2>1 DEF GameInv, PlayingIsUndecided, PollsAreOpen, VotesAreFresh, Manned, DeedsAreHonest
<1>2. CASE AddAIPlayer
  <2>1. DOMAIN Seating(NextBots(1)) = players \cup NextBots(1)
    BY SeatingType DEF NextBots, Everyone
  <2> QED
    BY <1>2, <2>1, SeatsKeepGame DEF AddAIPlayer, players
<1>3. CASE StartTeamVote
  <2> USE <1>3 DEF StartTeamVote, Playing, seatVars, roleVars, scoreVars
  <2>1. PlayingIsUndecided' /\ VotesAreFresh' /\ DeedsAreHonest'
    BY DEF GameInv, PlayingIsUndecided, VotesAreFresh, DeedsAreHonest
  <2>2. Manned'
    BY DEF GameInv, Manned, people, players
  <2>3. PollsAreOpen'
    BY <2>2, NobodyHasVoted DEF PollsAreOpen, Manned, people, players
  <2> QED
    BY <2>1, <2>2, <2>3 DEF GameInv
<1>4. CASE StartMissionVote
  <2> USE <1>4 DEF StartMissionVote, Playing, seatVars, roleVars, scoreVars, pollVars
  <2>1. PlayingIsUndecided' /\ VotesAreFresh' /\ DeedsAreHonest'
    BY DEF GameInv, PlayingIsUndecided, VotesAreFresh, DeedsAreHonest
  <2>2. Manned'
    BY DEF GameInv, Manned, people, players
  <2>3. PollsAreOpen'
    BY <2>2, NobodyHasVoted DEF GameInv, VotesAreFresh, PollsAreOpen, Manned, people, players
  <2> QED
    BY <2>1, <2>2, <2>3 DEF GameInv
<1> QED
  BY <1>1, <1>2, <1>3, <1>4

\* A new game: nothing is played yet and the starter is at the table.
LEMMA StartStep ==
  ASSUME TypeOK, GameInv, NEW p \in Everyone, RefusedStart(p) \/ StartGame(p)
  PROVE  GameInv'
<1>1. CASE RefusedStart(p)
  BY <1>1, SeatsKeepGame DEF RefusedStart, MayStart, Playing
<1>2. CASE StartGame(p)
  <2>1. players' = players \ offline
    BY <1>2, ReseatedType DEF StartGame, players
  <2>2. people' # {}
    BY <1>2, <2>1 DEF StartGame, people
  <2>3. PlayingIsUndecided'
    BY <1>2, RulesAreSound DEF StartGame, PlayingIsUndecided
  <2> QED
    BY <1>2, <2>2, <2>3
    DEF StartGame, GameInv, PollsAreOpen, VotesAreFresh, Manned, DeedsAreHonest
<1> QED
  BY <1>1, <1>2

LEMMA ProposeStep ==
  ASSUME TypeOK, GameInv, NEW p, NEW nominees, ProposeMission(p, nominees)
  PROVE  GameInv'
<1> USE DEF ProposeMission, Playing, seatVars, roleVars, scoreVars, pollVars
<1>1. nominees # {}
  BY TeamsAreNotEmpty, FS_EmptySet DEF TypeOK
<1> QED
  BY <1>1 DEF GameInv, PlayingIsUndecided, PollsAreOpen, VotesAreFresh, Manned, DeedsAreHonest,
              players, people

LEMMA TeamVoteStep ==
  ASSUME TypeOK, GameInv, NEW p, NEW vote, TeamVote(p, vote)
  PROVE  GameInv'
<1> DEFINE votes == TeamVotesWith(p, vote)
<1>0. phase = "team_vote" /\ UNCHANGED <<seatVars, roleVars, forced, match>>
  BY DEF TeamVote
<1> HIDE DEF votes
<1>1. players' = players /\ people' = people
  BY <1>0 DEF seatVars, players, people
<1>2. CASE VoteGoesOn(votes)
  <2>1. players \ Voted(votes) # {}
    BY <1>2, SomebodyHasNotVoted DEF VoteGoesOn, TypeOK
  <2> QED
    BY <1>0, <1>1, <1>2, <2>1
    DEF VoteGoesOn, scoreVars, roleVars, stageVars, Playing, GameInv, PlayingIsUndecided,
        PollsAreOpen, VotesAreFresh, Manned, DeedsAreHonest
<1>3. CASE TeamApproved(votes)
  <2>1. \A q \in Everyone : missionVotes'[q] # "sabotage"
    BY <1>3 DEF TeamApproved, NoVotes
  <2> QED
    BY <1>0, <1>1, <1>3, <2>1
    DEF TeamApproved, scoreVars, roleVars, Playing, GameInv, PlayingIsUndecided,
        PollsAreOpen, VotesAreFresh, Manned, DeedsAreHonest
<1>4. CASE TeamRejected(votes)
  <2>1. Playing' => phase' = "propose" /\ status = "playing"
    BY <1>4 DEF TeamRejected, Playing
  <2> QED
    BY <1>0, <1>1, <1>4, <2>1
    DEF TeamRejected, scoreVars, roleVars, Playing, GameInv, PlayingIsUndecided,
        PollsAreOpen, VotesAreFresh, Manned, DeedsAreHonest
<1> QED
  BY <1>2, <1>3, <1>4 DEF TeamVote, votes

\* Deeds after a vote: sabotage is the work of infiltrators on the team.
LEMMA HonestDeeds ==
  ASSUME TypeOK, GameInv, Playing, phase = "mission", NEW p \in team, NEW deed,
         NEW q \in Everyone, DeedsWith(p, deed)[q] = "sabotage"
  PROVE  q \in team \cap evil
BY DEF GameInv, DeedsAreHonest, DeedsWith, Deed

LEMMA MissionVoteStep ==
  ASSUME TypeOK, GameInv, NEW p, NEW deed, MissionVote(p, deed)
  PROVE  GameInv'
<1> DEFINE deeds == DeedsWith(p, deed)
<1>0. /\ phase = "mission" /\ sub = "vote" /\ p \in team
      /\ UNCHANGED <<seatVars, roleVars, streak, lastTeam, match>>
  BY DEF MissionVote
<1>1. Playing => \A q \in Everyone : deeds[q] = "sabotage" => q \in team \cap evil
  BY <1>0, HonestDeeds
<1> HIDE DEF deeds
<1>2. players' = players /\ people' = people
  BY <1>0 DEF seatVars, players, people
<1>3. CASE MissionGoesOn(deeds)
  <2>1. team \ Voted(deeds) # {}
    BY <1>3, SomebodyHasNotVoted DEF MissionGoesOn, TypeOK
  <2> QED
    BY <1>0, <1>1, <1>2, <1>3, <2>1
    DEF MissionGoesOn, scoreVars, roleVars, stageVars, Playing, GameInv, PlayingIsUndecided,
        PollsAreOpen, VotesAreFresh, Manned, DeedsAreHonest
<1>4. ASSUME NEW rigged, MissionResolved(rigged) PROVE GameInv'
  <2> SUFFICES ASSUME Playing' PROVE GameInv'
    BY DEF GameInv, PlayingIsUndecided, PollsAreOpen, VotesAreFresh, Manned, DeedsAreHonest
  <2>1. /\ Playing /\ ~Over /\ round' = round + 1 /\ phase' = "propose"
        /\ teamVotes' = NoVotes
    BY <1>4 DEF MissionResolved, Playing
  <2>2. Len(results') = Len(results) + 1
    <3>1. PICK success \in BOOLEAN : results' = Append(results, success)
      BY <1>4 DEF MissionResolved
    <3> QED
      BY <3>1 DEF TypeOK
  <2>3. successes' + failures' = successes + failures + 1
    BY <1>4 DEF MissionResolved, TypeOK
  <2>4. PlayingIsUndecided'
    <3>1. successes' \in Nat /\ failures' \in Nat
      BY <1>4 DEF MissionResolved, TypeOK
    <3>2. Len(results) = round - 1 /\ successes + failures = round - 1
      BY <2>1 DEF GameInv, PlayingIsUndecided
    <3>3. successes' < MissionsToWin /\ failures' < MissionsToWin /\ round + 1 <= MaxRounds
      BY <2>1, <3>1, RulesAreSound DEF Over, TypeOK
    <3>4. round \in Nat /\ round' = round + 1
      BY <2>1 DEF TypeOK
    <3>5. Len(results') = round' - 1
      BY <2>2, <3>2, <3>4
    <3>6. successes' + failures' = round' - 1
      BY <2>3, <3>2, <3>4
    <3>7. round' <= MaxRounds
      BY <3>3, <3>4
    <3> QED
      BY <3>3, <3>5, <3>6, <3>7 DEF PlayingIsUndecided
  <2> QED
    BY <1>2, <2>1, <2>4
    DEF GameInv, PollsAreOpen, VotesAreFresh, Manned, DeedsAreHonest
<1> QED
  BY <1>3, <1>4 DEF MissionVote, deeds

LEMMA GameStep == TypeOK /\ GameInv /\ [Next]_vars => GameInv'
<1> SUFFICES ASSUME TypeOK, GameInv, [Next]_vars PROVE GameInv'
  OBVIOUS
<1>1. CASE UNCHANGED vars
  BY <1>1, SeatsKeepGame DEF vars, seatVars, players
<1>2. ASSUME NEW p \in Everyone, Play(p) PROVE GameInv'
  <2>1. ASSUME NEW outcome, SetDebugMissionResult(p, outcome) PROVE GameInv'
    <3>1. players' = players /\ people' = people
      BY <2>1 DEF SetDebugMissionResult, seatVars, players, people
    <3> QED
      BY <2>1, <3>1
      DEF SetDebugMissionResult, roleVars, scoreVars, pollVars, stageVars, Playing, GameInv,
          PlayingIsUndecided, PollsAreOpen, VotesAreFresh, Manned, DeedsAreHonest
  <2> QED
    BY <1>2, <2>1, StartStep, ProposeStep, TeamVoteStep, MissionVoteStep DEF Play
<1> QED
  BY <1>1, <1>2, ServerStep, SeatStep, GatherStep DEF Next

LEMMA InitGame == Init => GameInv
BY DEF Init, GameInv, Playing, PlayingIsUndecided, PollsAreOpen, VotesAreFresh, Manned,
       DeedsAreHonest

LEMMA GameInvariant == Spec => []GameInv
BY InitGame, GameStep, TypeCorrect, PTL DEF Spec

\* The score of a game that is on is exact, and nobody has won it yet.
THEOREM GamesAreUndecided == Spec => []PlayingIsUndecided
BY GameInvariant, PTL DEF GameInv

\* No poll waits for voters who have all voted.
THEOREM PollsStayOpen == Spec => []PollsAreOpen
BY GameInvariant, PTL DEF GameInv

\* No vote outlives its poll.
THEOREM VotesStayFresh == Spec => []VotesAreFresh
BY GameInvariant, PTL DEF GameInv

-----------------------------------------------------------------------------
(* Who may fail a mission *)

\* Only the last vote on a mission lengthens the results of a game that is on.
LEMMA OnlyMissionsCount ==
  ASSUME TypeOK, [Next]_vars, Playing, Len(results') > Len(results)
  PROVE  \E p \in Everyone, deed \in {"support", "sabotage"} : MissionVote(p, deed)
<1>1. results' # results /\ results' # <<>>
  <2>1. Len(results) \in Nat
    BY DEF TypeOK
  <2> QED
    BY <2>1
<1> USE DEF gameVars, scoreVars
<1>2. ~ UNCHANGED vars
  BY <1>1 DEF vars
<1>3. ~ (CreateRoom \/ AddAIPlayer \/ StartTeamVote \/ StartMissionVote)
  BY <1>1 DEF CreateRoom, AddAIPlayer, StartTeamVote, StartMissionVote, Blank
<1>4. ASSUME NEW p, Seat(p) \/ Gather(p) PROVE FALSE
  BY <1>1, <1>4 DEF Seat, Gather, Rejoin, JoinPlayer, SetPlayerDisconnected, LeavePlayer,
     ResetRoomByHost, PrepareRematchByHost, FillWithAIByHost, Blank
<1>5. ASSUME NEW p \in Everyone, Play(p)
      PROVE  \E deed \in {"support", "sabotage"} : MissionVote(p, deed)
  <2>1. ~ RefusedStart(p) /\ ~ StartGame(p)
    BY <1>1 DEF RefusedStart, StartGame
  <2>2. ASSUME NEW nominees, ProposeMission(p, nominees) PROVE FALSE
    BY <1>1, <2>2 DEF ProposeMission
  <2>3. ASSUME NEW vote, TeamVote(p, vote) PROVE FALSE
    BY <1>1, <2>3 DEF TeamVote, VoteGoesOn, TeamApproved, TeamRejected
  <2>4. ASSUME NEW outcome, SetDebugMissionResult(p, outcome) PROVE FALSE
    BY <1>1, <2>4 DEF SetDebugMissionResult
  <2> QED
    BY <1>5, <2>1, <2>2, <2>3, <2>4 DEF Play
<1> QED
  BY <1>2, <1>3, <1>4, <1>5 DEF Next

LEMMA HonestStep ==
  ASSUME TypeOK, GameInv, [Next]_vars, Playing,
         Len(results') > Len(results), ~results'[Len(results')]
  PROVE  team \cap evil # {} \/ forced = "failure"
<1>1. PICK p \in Everyone, deed \in {"support", "sabotage"} : MissionVote(p, deed)
  BY OnlyMissionsCount
<1> DEFINE deeds == DeedsWith(p, deed)
<1>2. phase = "mission" /\ p \in team
  BY <1>1 DEF MissionVote
<1>3. \A q \in Everyone : deeds[q] = "sabotage" => q \in team \cap evil
  BY <1>2, HonestDeeds
<1>4. deeds \in Deeds
  BY DeedsType
<1> HIDE DEF deeds
<1>5. PICK rigged \in Rigged(deeds) : MissionResolved(rigged)
  <2>1. ~ MissionGoesOn(deeds)
    <3>1. Len(results) \in Nat
      BY DEF TypeOK
    <3> QED
      BY <3>1 DEF MissionGoesOn, scoreVars
  <2> QED
    BY <1>1, <2>1 DEF MissionVote, deeds
<1>6. PICK q \in Everyone : rigged[q] = "sabotage"
  <2> DEFINE success == \A q \in Everyone : rigged[q] # "sabotage"
  <2>1. success \in BOOLEAN /\ results' = Append(results, success)
    BY <1>5 DEF MissionResolved
  <2>2. results'[Len(results')] = success
    <3> HIDE DEF success
    <3> QED
      BY <2>1 DEF TypeOK
  <2> QED
    BY <2>2
<1>7. CASE forced = "none" \/ mode # "solo"
  BY <1>3, <1>5, <1>6, <1>7 DEF Rigged
<1>8. CASE forced = "success" /\ mode = "solo"
  <2>1. q \notin team /\ deeds[q] = "sabotage"
    BY <1>5, <1>6, <1>8 DEF Rigged
  <2> QED
    BY <1>3, <2>1
<1> QED
  BY <1>7, <1>8 DEF TypeOK

\* A mission fails only if an infiltrator is on the team, or at the debug
\* panel's will.
THEOREM HonestTeamsAlwaysSucceed == Spec => HonestTeamsSucceed
<1>1. TypeOK /\ GameInv /\ [Next]_vars =>
        [Playing /\ Len(results') > Len(results) /\ ~results'[Len(results')] =>
           team \cap evil # {} \/ forced = "failure"]_vars
  BY HonestStep
<1> QED
  BY <1>1, TypeCorrect, GameInvariant, PTL DEF Spec, HonestTeamsSucceed

-----------------------------------------------------------------------------
(* Line-up and team sizes *)

\* Steps that leave the seats, the roles and the nomination alone.
LEMMA StaffKept ==
  ASSUME GameIsStaffed, UNCHANGED <<mode, position, roleVars, round, leader>>,
         Playing' => /\ Playing
                     /\ phase' # "propose" => team' = team /\ phase # "propose"
  PROVE  GameIsStaffed'
<1>1. players' = players /\ people' = people
  BY DEF players, people
<1> QED
  BY <1>1 DEF GameIsStaffed, roleVars, InfiltratorsFor, MissionTeamSize

LEMMA StaffOfNoGame == ~Playing' => GameIsStaffed'
BY DEF GameIsStaffed

\* An AI player who comes in during a game.
LEMMA StaffWithNewcomer ==
  ASSUME TypeOK, GameIsStaffed, AddAIPlayer
  PROVE  GameIsStaffed'
<1>1. /\ players' = players \cup NextBots(1) /\ NextBots(1) \subseteq Bots
      /\ NextBots(1) \subseteq Everyone
  <2>1. NextBots(1) \in SUBSET Everyone /\ NextBots(1) \subseteq Bots
    BY DEF NextBots, Everyone
  <2> QED
    BY <2>1, SeatingType DEF AddAIPlayer, players
<1>2. people \subseteq people'
  BY <1>1 DEF people
<1>3. Cardinality(players) <= Cardinality(players')
  <2>1. IsFiniteSet(players') /\ players \in SUBSET players'
    BY <1>1, FiniteTable, FS_Subset DEF TypeOK
  <2> QED
    BY <2>1, FS_Subset
<1>4. Cardinality(players) \in Nat /\ Cardinality(players') \in Nat
  BY <1>1, FiniteTable, FS_Subset, FS_CardinalityType DEF TypeOK
<1>5. UNCHANGED <<status, mode, gameVars>>
  BY DEF AddAIPlayer
<1> SUFFICES ASSUME Playing' PROVE GameIsStaffed'
  BY DEF GameIsStaffed
<1>6. Playing
  BY <1>5 DEF Playing
<1>7. ASSUME phase' # "propose"
      PROVE  \E n \in Cardinality(cast) .. Cardinality(players') :
               Cardinality(team) = MissionTeamSize(n, round)
  <2>1. PICK n \in Cardinality(cast) .. Cardinality(players) :
               Cardinality(team) = MissionTeamSize(n, round)
    BY <1>5, <1>6, <1>7 DEF GameIsStaffed, gameVars, stageVars
  <2>2. Cardinality(cast) \in Int
    BY FiniteTable, FS_Subset, FS_CardinalityType DEF TypeOK
  <2>3. n \in Cardinality(cast) .. Cardinality(players')
    BY <1>3, <1>4, <2>2
  <2> QED
    BY <2>1, <2>3
<1> QED
  BY <1>1, <1>2, <1>5, <1>6, <1>7
  DEF GameIsStaffed, gameVars, roleVars, scoreVars, stageVars, InfiltratorsFor, MissionTeamSize

\* The roles dealt at the start fit the line-up.
LEMMA StaffAtStart ==
  ASSUME TypeOK, NEW p \in Everyone, StartGame(p)
  PROVE  GameIsStaffed'
<1> DEFINE kept == players \ offline
           n == Cardinality(kept)
<1>1. players' = kept /\ people' = kept \cap Humans /\ cast' = kept /\ mode' = mode
  BY ReseatedType DEF StartGame, players, people
<1>2. ASSUME mode = "normal" PROVE Cardinality(evil') = InfiltratorsFor(n)
  <2> DEFINE count == InfiltratorsFor(n)
  <2>1. ~Scripted
    BY <1>2 DEF Scripted
  <2>2. n \in Nat /\ n >= MinPlayers
    <3>1. IsFiniteSet(kept)
      BY FiniteTable, FS_Subset DEF TypeOK
    <3> QED
      BY <2>1, <3>1, FS_CardinalityType DEF StartGame, EnoughPlayers
  <2>3. evil' \in Sides(kept)
    BY <2>1 DEF StartGame, CastingSides
  <2>4. Max({0, MinPlayers - n}) = 0
    <3>1. MinPlayers - n \in Int /\ MinPlayers - n <= 0
      BY <2>2, RulesAreSound
    <3> QED
      BY <3>1 DEF Max
  <2>5. count \in Nat /\ Cardinality(evil') \in Nat
    <3>1. evil' \subseteq Everyone
      BY <2>3 DEF Sides, TypeOK
    <3>2. Cardinality(evil') \in Nat
      BY <3>1, FiniteTable, FS_Subset, FS_CardinalityType
    <3> QED
      BY <3>2, <2>2, RulesAreSound DEF InfiltratorsFor
  <2>6. Cardinality(evil') <= count /\ count - Cardinality(evil') <= 0
    BY <2>3, <2>4 DEF Sides
  <2> HIDE DEF count, n
  <2>7. Cardinality(evil') = count
    BY <2>5, <2>6
  <2> QED
    BY <2>7 DEF count
<1>3. leader' \in people' /\ phase' = "propose"
  BY <1>1 DEF StartGame
<1> QED
  BY <1>1, <1>2, <1>3 DEF GameIsStaffed, InfiltratorsFor

\* A nomination has the size that the players at the table call for.
LEMMA StaffNominated ==
  ASSUME TypeOK, GameIsStaffed, NEW p, NEW nominees \in SUBSET players, ProposeMission(p, nominees)
  PROVE  GameIsStaffed'
<1>1. players' = players /\ people' = people
  BY DEF ProposeMission, seatVars, players, people
<1> SUFFICES ASSUME Playing' PROVE GameIsStaffed'
  BY DEF GameIsStaffed
<1>2. Playing /\ cast \subseteq players
  BY DEF ProposeMission, Playing, GameIsStaffed
<1>3. Cardinality(players) \in Cardinality(cast) .. Cardinality(players)
  <2>1. IsFiniteSet(players) /\ cast \in SUBSET players
    BY <1>2, FiniteTable, FS_Subset DEF TypeOK
  <2>2. /\ Cardinality(players) \in Nat /\ Cardinality(cast) \in Nat
        /\ Cardinality(cast) <= Cardinality(players)
    BY <2>1, FS_Subset, FS_CardinalityType
  <2> QED
    BY <2>2
<1> QED
  BY <1>1, <1>2, <1>3
  DEF ProposeMission, seatVars, roleVars, scoreVars, GameIsStaffed, InfiltratorsFor, MissionTeamSize

LEMMA StaffStep ==
  ASSUME TypeOK, GameIsStaffed, [Next]_vars
  PROVE  GameIsStaffed'
<1> USE DEF Playing, seatVars, gameVars, scoreVars, stageVars, roleVars
<1>1. CASE UNCHANGED vars
  BY <1>1, StaffKept DEF vars
<1>2. CASE CreateRoom
  BY <1>2, StaffOfNoGame DEF CreateRoom
<1>3. CASE StartTeamVote \/ StartMissionVote
  BY <1>3, StaffKept DEF StartTeamVote, StartMissionVote
<1>4. ASSUME NEW p \in Humans, Seat(p) PROVE GameIsStaffed'
  <2>1. CASE Rejoin(p) \/ SetPlayerDisconnected(p)
    BY <2>1, StaffKept DEF Rejoin, SetPlayerDisconnected
  <2>2. ASSUME NEW m \in Modes, JoinPlayer(p, m) PROVE GameIsStaffed'
    BY <2>2, StaffOfNoGame DEF JoinPlayer
  <2>3. CASE LeavePlayer(p)
    BY <2>3, StaffOfNoGame DEF LeavePlayer
  <2>4. CASE ResetRoomByHost(p)
    BY <2>4, StaffOfNoGame DEF ResetRoomByHost
  <2> QED
    BY <1>4, <2>1, <2>2, <2>3, <2>4 DEF Seat
<1>5. ASSUME NEW p \in Everyone, Play(p) PROVE GameIsStaffed'
  <2>1. CASE RefusedStart(p)
    BY <2>1, StaffOfNoGame DEF RefusedStart, MayStart
  <2>2. ASSUME NEW vote, TeamVote(p, vote) PROVE GameIsStaffed'
    <3>1. CASE VoteGoesOn(TeamVotesWith(p, vote)) \/ TeamApproved(TeamVotesWith(p, vote))
      BY <2>2, <3>1, StaffKept DEF TeamVote, VoteGoesOn, TeamApproved
    <3>2. CASE TeamRejected(TeamVotesWith(p, vote))
      BY <2>2, <3>2, NextLeaderType
      DEF TeamVote, TeamRejected, GameIsStaffed, players, people, InfiltratorsFor
    <3> QED
      BY <2>2, <3>1, <3>2 DEF TeamVote
  <2>3. ASSUME NEW outcome, SetDebugMissionResult(p, outcome) PROVE GameIsStaffed'
    BY <2>3, StaffKept DEF SetDebugMissionResult
  <2>4. ASSUME NEW deed, MissionVote(p, deed) PROVE GameIsStaffed'
    <3>1. CASE MissionGoesOn(DeedsWith(p, deed))
      BY <2>4, <3>1, StaffKept DEF MissionVote, MissionGoesOn
    <3>2. ASSUME NEW rigged, MissionResolved(rigged) PROVE GameIsStaffed'
      BY <2>4, <3>2, NextLeaderType
      DEF MissionVote, MissionResolved, GameIsStaffed, players, people, InfiltratorsFor
    <3> QED
      BY <2>4, <3>1, <3>2 DEF MissionVote
  <2> QED
    BY <1>5, <2>1, <2>2, <2>3, <2>4, StaffAtStart, StaffNominated DEF Play
<1>6. ASSUME NEW p, Gather(p) PROVE GameIsStaffed'
  BY <1>6, StaffOfNoGame DEF Gather, PrepareRematchByHost, FillWithAIByHost
<1> QED
  BY <1>1, <1>2, <1>3, <1>4, <1>5, <1>6, StaffWithNewcomer DEF Next

LEMMA InitStaffed == Init => GameIsStaffed
BY DEF Init, GameIsStaffed, Playing

\* Line-up, roles, leader and team fit together as long as a game is on.
THEOREM GamesStayStaffed == Spec => []GameIsStaffed
<1>1. TypeOK /\ GameIsStaffed /\ [Next]_vars => GameIsStaffed'
  BY StaffStep
<1> QED
  BY InitStaffed, <1>1, TypeCorrect, PTL DEF Spec

-----------------------------------------------------------------------------
(* The life of a room: places and phases *)

PlacesAreFew == \A p \in players : position[p] < Cardinality(players)
NoGameHasNoPhase == status \in {"absent", "waiting"} => phase = "none"

LifeInv == TypeOK /\ PlacesAreFew /\ NoGameHasNoPhase

-----------------------------------------------------------------------------
(* Places *)

LEMMA FewerInSubset ==
  ASSUME NEW S, IsFiniteSet(S), NEW T \in SUBSET S, T # S
  PROVE  Cardinality(T) < Cardinality(S)
<1>1. IsFiniteSet(T) /\ Cardinality(T) <= Cardinality(S) /\ Cardinality(S) # Cardinality(T)
  BY FS_Subset
<1>2. Cardinality(S) \in Nat /\ Cardinality(T) \in Nat
  BY <1>1, FS_CardinalityType
<1> QED
  BY <1>1, <1>2

LEMMA FiniteGroups ==
  ASSUME TypeOK, NEW S \in SUBSET Everyone
  PROVE  IsFiniteSet(S) /\ Cardinality(S) \in Nat
BY FiniteTable, FS_Subset, FS_CardinalityType

\* Who moves up when others leave has as many before him as he had of those who
\* are kept, so nobody overtakes anybody (LeavePlayer, StartGame).
LEMMA ReseatedKeepsOrder ==
  ASSUME TypeOK, NEW kept \in SUBSET players
  PROVE  /\ \A p \in kept : Reseated(kept)[p] < Cardinality(kept)
         /\ \A p, q \in kept : Reseated(kept)[p] < Reseated(kept)[q] <=> position[p] < position[q]
<1> DEFINE Before(p) == {r \in kept : position[r] < position[p]}
<1>1. kept \in SUBSET Everyone /\ \A p \in kept : position[p] \in Nat
  BY DEF TypeOK, players
<1>2. ASSUME NEW p \in kept
      PROVE  /\ Reseated(kept)[p] = Cardinality(Before(p))
             /\ Before(p) \in SUBSET Everyone /\ Before(p) \in SUBSET kept /\ Before(p) # kept
  <2>1. p \notin Before(p)
    BY <1>1
  <2> QED
    BY <1>1, <2>1 DEF Reseated
<1>3. ASSUME NEW p \in kept, NEW q \in kept, position[p] < position[q]
      PROVE  Before(p) \in SUBSET Before(q) /\ Before(p) # Before(q)
  <2>1. p \in Before(q) /\ p \notin Before(p)
    BY <1>1, <1>3
  <2>2. Before(p) \in SUBSET Before(q)
    BY <1>1, <1>3
  <2> QED
    BY <2>1, <2>2
<1>4. ASSUME NEW p \in kept, NEW q \in kept, ~(position[p] < position[q])
      PROVE  Before(q) \in SUBSET Before(p)
  BY <1>1, <1>4
<1> HIDE DEF Before
<1>5. ASSUME NEW p \in kept PROVE Reseated(kept)[p] < Cardinality(kept)
  BY <1>1, <1>2, FiniteGroups, FewerInSubset
<1>6. ASSUME NEW p \in kept, NEW q \in kept
      PROVE  Reseated(kept)[p] < Reseated(kept)[q] <=> position[p] < position[q]
  <2>1. /\ IsFiniteSet(Before(p)) /\ Cardinality(Before(p)) \in Nat
        /\ IsFiniteSet(Before(q)) /\ Cardinality(Before(q)) \in Nat
    BY <1>2, FiniteGroups
  <2>2. CASE position[p] < position[q]
    <3>1. Cardinality(Before(p)) < Cardinality(Before(q))
      BY <1>3, <2>1, <2>2, FewerInSubset
    <3> QED
      BY <1>2, <2>2, <3>1
  <2>3. CASE ~(position[p] < position[q])
    <3>1. Cardinality(Before(q)) <= Cardinality(Before(p))
      BY <1>4, <2>1, <2>3, FS_Subset
    <3> QED
      BY <1>2, <2>1, <2>3, <3>1
  <2> QED
    BY <2>2, <2>3
<1> QED
  BY <1>5, <1>6

\* Newcomers take places behind the others and below their number.
LEMMA SeatingKeepsPlacesFew ==
  ASSUME TypeOK, PlacesAreFew, NEW newcomers \in SUBSET (Everyone \ players)
  PROVE  \A p \in players \cup newcomers :
           Seating(newcomers)[p] < Cardinality(players \cup newcomers)
<1> DEFINE n == Cardinality(players)
           k == Cardinality(newcomers)
           Before(p) == {q \in newcomers \cap Bots : q < p}
<1>1. players \in SUBSET Everyone /\ newcomers \in SUBSET Everyone
  BY DEF TypeOK
<1>2. n \in Nat /\ k \in Nat /\ IsFiniteSet(players) /\ IsFiniteSet(newcomers)
  BY <1>1, FiniteGroups
<1>3. Cardinality(players \cup newcomers) = n + k
  <2>1. players \cap newcomers = {}
    OBVIOUS
  <2>2. Cardinality(players \cup newcomers) = n + k - Cardinality(players \cap newcomers)
    BY <1>2, FS_Union
  <2> QED
    BY <1>2, <2>1, <2>2, FS_EmptySet
<1>4. ASSUME NEW p \in players PROVE Seating(newcomers)[p] < n + k
  <2>1. Seating(newcomers)[p] = position[p] /\ position[p] < n /\ position[p] \in Nat
    BY <1>4 DEF Seating, PlacesAreFew, TypeOK, players
  <2> HIDE DEF n, k
  <2> QED
    BY <1>2, <2>1
<1>5. ASSUME NEW p \in newcomers PROVE Seating(newcomers)[p] < n + k
  <2>1. p \notin Before(p)
    <3> SUFFICES ASSUME p \in Bots PROVE ~(p < p)
      OBVIOUS
    <3>1. p \in Nat
      BY PlayersAreFinite
    <3> QED
      BY <3>1
  <2>2. Before(p) \in SUBSET newcomers /\ Before(p) # newcomers /\ Before(p) \in SUBSET Everyone
    BY <1>1, <2>1
  <2>3. Seating(newcomers)[p] = n + Cardinality(Before(p))
    BY <1>5 DEF Seating
  <2> HIDE DEF Before, n, k
  <2>4. Cardinality(Before(p)) \in Nat /\ Cardinality(Before(p)) < k
    BY <1>2, <2>2, FiniteGroups, FewerInSubset DEF k
  <2> QED
    BY <1>2, <2>3, <2>4
<1> QED
  BY <1>3, <1>4, <1>5

-----------------------------------------------------------------------------
(* The mapping *)

\* The people who are kept keep their order.
LEMMA KeptPeople ==
  ASSUME TypeOK, NEW kept \in SUBSET players, position' = Reseated(kept)
  PROVE  /\ people' = kept \cap Humans
         /\ Ahead' = Ahead \cap ((kept \cap Humans) \X (kept \cap Humans))
<1>1. players' = kept
  BY ReseatedType DEF players
<1>2. people' = kept \cap Humans /\ kept \cap Humans \subseteq people
  BY <1>1 DEF people
<1>3. \A p, q \in kept : position'[p] < position'[q] <=> position[p] < position[q]
  BY ReseatedKeepsOrder
<1>4. ASSUME NEW pair PROVE pair \in Ahead' <=>
        pair \in Ahead \cap ((kept \cap Humans) \X (kept \cap Humans))
  <2>1. pair \in (kept \cap Humans) \X (kept \cap Humans) => pair[1] \in kept /\ pair[2] \in kept
    OBVIOUS
  <2> QED
    BY <1>2, <1>3, <2>1 DEF Ahead
<1> QED
  BY <1>2, <1>4

\* Nobody online sits before the host.
LEMMA HostIsAhead ==
  ASSUME TypeOK, NEW p \in Humans, p = Host
  PROVE  Life!IsHost(p)
<1> DEFINE online == people \ offline
<1>1. online # {} /\ p = First(online)
  BY PlayersAreFinite DEF Host, Everyone
<1>2. online \in SUBSET players /\ \A q \in online : position[q] \in Nat
  BY DEF people, TypeOK, players
<1>3. p \in online
  BY <1>1, <1>2, FirstIsMember
<1>4. \A q \in online : position[p] <= position[q]
  <2>1. IsFiniteSet(online)
    BY <1>2, FiniteGroups DEF TypeOK
  <2>2. \E x \in online : \A q \in online : position[x] <= position[q]
    <3>1. \A q \in online : position[q] \in Int
      BY <1>2
    <3> HIDE DEF online
    <3> QED
      BY <1>1, <2>1, <3>1, LeastValue
  <2> HIDE DEF online
  <2> QED
    BY <1>1, <2>2 DEF First
<1>5. ASSUME NEW q \in online PROVE <<q, p>> \notin Ahead
  <2>1. ~(position[q] < position[p])
    BY <1>2, <1>3, <1>4
  <2> QED
    BY <2>1 DEF Ahead
<1> QED
  BY <1>3, <1>5 DEF Life!IsHost, Life!Online

\* AI players who sit down change nothing for the people.
LEMMA BotsSitBehind ==
  ASSUME TypeOK, NEW n, position' = Seating(NextBots(n))
  PROVE  people' = people /\ Ahead' = Ahead
<1>1. NextBots(n) \in SUBSET Everyone /\ NextBots(n) \cap Humans = {}
  BY PlayersAreFinite DEF NextBots, Everyone
<1>2. players' = players \cup NextBots(n)
  BY <1>1, SeatingType DEF players
<1>3. people' = people /\ people \subseteq players
  BY <1>1, <1>2 DEF people
<1>4. \A p \in people : position'[p] = position[p]
  BY <1>1, <1>3 DEF Seating
<1>5. ASSUME NEW pair PROVE pair \in Ahead' <=> pair \in Ahead
  <2>1. pair \in people \X people => pair[1] \in people /\ pair[2] \in people
    OBVIOUS
  <2> QED
    BY <1>3, <1>4, <2>1 DEF Ahead
<1> QED
  BY <1>3, <1>5

\* Somebody who joins sits behind everybody.
LEMMA NewcomerSitsBehind ==
  ASSUME LifeInv, NEW p \in Humans, p \notin players, position' = Seating({p})
  PROVE  people' = people \cup {p} /\ Ahead' = Ahead \cup (people \X {p})
<1>0. TypeOK /\ PlacesAreFew
  BY DEF LifeInv
<1>1. players' = players \cup {p} /\ {p} \cap Bots = {}
  BY <1>0, SeatingType, PlayersAreFinite DEF players, Everyone
<1>2. people' = people \cup {p} /\ people \subseteq players /\ p \notin people
  BY <1>1 DEF people
<1>3. \A q \in people : position'[q] = position[q] /\ position[q] < Cardinality(players)
                      /\ position[q] \in Nat
  BY <1>0, <1>2 DEF Seating, PlacesAreFew, TypeOK, players
<1>4. position'[p] = Cardinality(players) /\ Cardinality(players) \in Nat
  <2>1. {q \in {p} \cap Bots : q < p} = {}
    BY <1>1
  <2>2. position'[p] = Cardinality(players) + Cardinality({})
    BY <2>1 DEF Seating
  <2>3. Cardinality(players) \in Nat
    BY <1>0, FiniteGroups DEF TypeOK
  <2> QED
    BY <2>2, <2>3, FS_EmptySet
<1>5. ASSUME NEW q \in people \cup {p}, NEW r \in people \cup {p}
      PROVE  position'[q] < position'[r] <=>
               (q \in people /\ r = p) \/ (q \in people /\ r \in people /\ position[q] < position[r])
  <2>1. CASE q \in people /\ r \in people
    BY <1>2, <1>3, <2>1
  <2>2. CASE q \in people /\ r = p
    BY <1>3, <1>4, <2>2
  <2>3. CASE q = p
    BY <1>2, <1>3, <1>4, <2>3
  <2> QED
    BY <2>1, <2>2, <2>3
<1>6. ASSUME NEW pair PROVE pair \in Ahead' <=> pair \in Ahead \cup (people \X {p})
  <2>1. CASE pair \in (people \cup {p}) \X (people \cup {p})
    <3>1. PICK q \in people \cup {p}, r \in people \cup {p} : pair = <<q, r>>
      BY <2>1
    <3> QED
      BY <1>2, <1>5, <3>1 DEF Ahead
  <2>2. CASE pair \notin (people \cup {p}) \X (people \cup {p})
    BY <1>2, <2>2 DEF Ahead
  <2> QED
    BY <2>1, <2>2
<1> QED
  BY <1>2, <1>6

LEMMA SameTable == UNCHANGED position => people' = people /\ Ahead' = Ahead
BY DEF people, players, Ahead

LEMMA EmptyTable == Empty => people' = {} /\ Ahead' = {}
BY DEF Empty, people, players, Ahead

-----------------------------------------------------------------------------
(* The invariant *)

LEMMA PlacesStayFew ==
  ASSUME LifeInv, [Next]_vars
  PROVE  PlacesAreFew'
<1>0. TypeOK /\ PlacesAreFew
  BY DEF LifeInv
<1>1. CASE UNCHANGED position
  BY <1>0, <1>1 DEF PlacesAreFew, players
<1>2. CASE Empty
  BY <1>2 DEF Empty, PlacesAreFew, players
<1>3. ASSUME NEW kept \in SUBSET players, position' = Reseated(kept) PROVE PlacesAreFew'
  BY <1>0, <1>3, ReseatedType, ReseatedKeepsOrder DEF PlacesAreFew, players
<1>4. ASSUME NEW newcomers \in SUBSET (Everyone \ players), position' = Seating(newcomers)
      PROVE  PlacesAreFew'
  <2>1. players' = players \cup newcomers
    BY <1>0, <1>4, SeatingType DEF players
  <2> QED
    BY <1>0, <1>4, <2>1, SeatingKeepsPlacesFew DEF PlacesAreFew
<1>5. ASSUME NEW n PROVE NextBots(n) \in SUBSET (Everyone \ players)
  BY DEF NextBots, Everyone
<1>6. ASSUME NEW p \in Humans, Seat(p) PROVE PlacesAreFew'
  <2>1. CASE Rejoin(p) \/ SetPlayerDisconnected(p)
    BY <1>1, <2>1 DEF Rejoin, SetPlayerDisconnected
  <2>2. ASSUME NEW m \in Modes, JoinPlayer(p, m) PROVE PlacesAreFew'
    BY <1>4, <2>2 DEF JoinPlayer, Everyone
  <2>3. CASE LeavePlayer(p)
    BY <1>2, <1>3, <2>3 DEF LeavePlayer
  <2>4. CASE ResetRoomByHost(p)
    BY <1>2, <2>4 DEF ResetRoomByHost
  <2> QED
    BY <1>6, <2>1, <2>2, <2>3, <2>4 DEF Seat
<1>7. ASSUME NEW p \in Everyone, Play(p) PROVE PlacesAreFew'
  <2>1. CASE RefusedStart(p)
    BY <1>3, <2>1 DEF RefusedStart
  <2>2. CASE StartGame(p)
    BY <1>3, <2>2 DEF StartGame
  <2>3. ~RefusedStart(p) /\ ~StartGame(p) => UNCHANGED position
    BY <1>7 DEF Play, ProposeMission, TeamVote, MissionVote, SetDebugMissionResult, seatVars
  <2> QED
    BY <1>1, <2>1, <2>2, <2>3
<1>8. CASE CreateRoom
  BY <1>2, <1>8 DEF CreateRoom
<1>9. CASE AddAIPlayer
  BY <1>4, <1>5, <1>9 DEF AddAIPlayer
<1>10. CASE StartTeamVote \/ StartMissionVote
  BY <1>1, <1>10 DEF StartTeamVote, StartMissionVote, seatVars
<1>11. CASE UNCHANGED vars
  BY <1>1, <1>11 DEF vars, seatVars
<1>12. ASSUME NEW p, Gather(p) PROVE PlacesAreFew'
  <2>1. CASE PrepareRematchByHost(p)
    BY <1>3, <2>1 DEF PrepareRematchByHost, people
  <2>2. CASE FillWithAIByHost(p)
    BY <1>4, <1>5, <2>2 DEF FillWithAIByHost
  <2> QED
    BY <1>12, <2>1, <2>2 DEF Gather
<1> QED
  BY <1>6, <1>7, <1>8, <1>9, <1>10, <1>11, <1>12 DEF Next

\* A vote never takes a room out of a game but by ending it.
LEMMA VotesEndGames ==
  ASSUME NEW p \in Everyone,
         \/ \E vote \in {"yes", "no"} : TeamVote(p, vote)
         \/ \E deed \in {"support", "sabotage"} : MissionVote(p, deed)
  PROVE  /\ status' \in {status, "finished"} /\ phase # "none"
         /\ UNCHANGED <<mode, position, offline, match>>
<1>1. ASSUME NEW vote, TeamVote(p, vote)
      PROVE  /\ status' \in {status, "finished"} /\ phase # "none"
             /\ UNCHANGED <<mode, position, offline, match>>
  BY <1>1 DEF TeamVote, VoteGoesOn, TeamApproved, TeamRejected, seatVars
<1>2. ASSUME NEW deed, MissionVote(p, deed)
      PROVE  /\ status' \in {status, "finished"} /\ phase # "none"
             /\ UNCHANGED <<mode, position, offline, match>>
  BY <1>2 DEF MissionVote, MissionGoesOn, MissionResolved, seatVars
<1> QED
  BY <1>1, <1>2

LEMMA NoPhaseWithoutGame ==
  ASSUME LifeInv, [Next]_vars
  PROVE  NoGameHasNoPhase'
<1>0. NoGameHasNoPhase
  BY DEF LifeInv
<1>1. CASE UNCHANGED <<status, phase>>
  BY <1>0, <1>1 DEF NoGameHasNoPhase
<1>2. CASE Blank
  BY <1>2 DEF Blank, NoGameHasNoPhase
<1>3. ASSUME NEW p, Seat(p) \/ Gather(p) PROVE NoGameHasNoPhase'
  <2>1. Blank \/ UNCHANGED <<status, phase>>
    BY <1>3 DEF Seat, Gather, Rejoin, JoinPlayer, SetPlayerDisconnected, LeavePlayer, ResetRoomByHost,
                PrepareRematchByHost, FillWithAIByHost, gameVars, stageVars
  <2> QED
    BY <1>1, <1>2, <2>1
<1>4. ASSUME NEW p \in Everyone, Play(p) PROVE NoGameHasNoPhase'
  <2>1. CASE RefusedStart(p) \/ \E outcome \in {"success", "failure"} : SetDebugMissionResult(p, outcome)
    BY <1>1, <2>1 DEF RefusedStart, SetDebugMissionResult, gameVars, stageVars
  <2>2. CASE StartGame(p)
    BY <2>2 DEF StartGame, NoGameHasNoPhase
  <2>3. CASE \E nominees \in SUBSET players : ProposeMission(p, nominees)
    BY <1>0, <2>3 DEF ProposeMission, NoGameHasNoPhase
  <2>4. CASE \/ \E vote \in {"yes", "no"} : TeamVote(p, vote)
             \/ \E deed \in {"support", "sabotage"} : MissionVote(p, deed)
    BY <1>0, <2>4, VotesEndGames DEF NoGameHasNoPhase
  <2> QED
    BY <1>4, <2>1, <2>2, <2>3, <2>4 DEF Play
<1>5. CASE CreateRoom
  BY <1>2, <1>5 DEF CreateRoom
<1>6. CASE AddAIPlayer
  BY <1>1, <1>6 DEF AddAIPlayer, gameVars, stageVars
<1>7. CASE StartTeamVote \/ StartMissionVote
  BY <1>0, <1>7 DEF StartTeamVote, StartMissionVote, NoGameHasNoPhase
<1>8. CASE UNCHANGED vars
  BY <1>1, <1>8 DEF vars, gameVars, stageVars
<1> QED
  BY <1>3, <1>4, <1>5, <1>6, <1>7, <1>8 DEF Next

LEMMA InitLife == Init => LifeInv
<1> SUFFICES ASSUME Init PROVE LifeInv
  OBVIOUS
<1>1. TypeOK
  BY NothingYet DEF Init, TypeOK, players, people
<1> QED
  BY <1>1 DEF Init, LifeInv, PlacesAreFew, NoGameHasNoPhase, players

LEMMA LifeInvariant == Spec => []LifeInv
<1>1. LifeInv /\ [Next]_vars => LifeInv'
  BY TypeStep, PlacesStayFew, NoPhaseWithoutGame DEF LifeInv
<1> QED
  BY InitLife, <1>1, PTL DEF Spec

-----------------------------------------------------------------------------
(* Every step is a step of GameLife, or none *)

LEMMA SeatsKeepLife ==
  ASSUME LifeInv, NEW p \in Humans, Seat(p)
  PROVE  [Life!Next]_(Life!vars)
<1>0. TypeOK
  BY DEF LifeInv
<1>1. CASE Rejoin(p)
  <2>1. Life!Rejoin(p)
    BY <1>1, SameTable DEF Rejoin, Life!Rejoin, gameVars
  <2> QED
    BY <2>1 DEF Life!Next
<1>2. ASSUME NEW m \in Modes, JoinPlayer(p, m) PROVE Life!Next
  <2>1. p \notin people /\ (players = {} => people = {})
    BY <1>2 DEF JoinPlayer, people
  <2>2. Life!JoinPlayer(p, m)
    BY <1>2, <2>1, NewcomerSitsBehind DEF JoinPlayer, Life!JoinPlayer, gameVars
  <2> QED
    BY <2>2 DEF Life!Next
<1>3. CASE SetPlayerDisconnected(p)
  <2>1. Life!SetPlayerDisconnected(p)
    BY <1>3, SameTable DEF SetPlayerDisconnected, Life!SetPlayerDisconnected, gameVars
  <2> QED
    BY <2>1 DEF Life!Next
<1>4. CASE LeavePlayer(p)
  <2>1. CASE players = {p}
    <3>1. people = {p}
      BY <2>1 DEF people
    <3>2. Life!LeavePlayer(p)
      BY <1>4, <2>1, <3>1, EmptyTable DEF LeavePlayer, Life!LeavePlayer, Life!Empty, Empty, Blank
    <3> QED
      BY <3>2 DEF Life!Next
  <2>2. CASE players # {p}
    <3>1. (players \ {p}) \cap Humans = people \ {p}
      BY DEF people
    <3>2. position' = Reseated(players \ {p}) /\ players \ {p} \in SUBSET players
      BY <1>4, <2>2 DEF LeavePlayer
    <3>3. people' = people \ {p} /\ Ahead' = Ahead \cap ((people \ {p}) \X (people \ {p}))
      BY <1>0, <3>1, <3>2, KeptPeople
    <3>4. Life!LeavePlayer(p)
      BY <1>4, <2>2, <3>3 DEF LeavePlayer, Life!LeavePlayer, Life!Keep, gameVars
    <3> QED
      BY <3>4 DEF Life!Next
  <2> QED
    BY <2>1, <2>2
<1>5. CASE ResetRoomByHost(p)
  <2>1. Life!ResetRoomByHost(p)
    BY <1>0, <1>5, HostIsAhead, EmptyTable
    DEF ResetRoomByHost, Life!ResetRoomByHost, Life!Empty, Empty, Blank
  <2> QED
    BY <2>1 DEF Life!Next
<1> QED
  BY <1>1, <1>2, <1>3, <1>4, <1>5 DEF Seat

\* The name of the host is empty only when nobody is online.
LEMMA NobodyHosts ==
  ASSUME TypeOK, Nobody = Host
  PROVE  Life!Online = {}
<1> DEFINE online == people \ offline
<1> SUFFICES ASSUME online # {} PROVE FALSE
  BY DEF Life!Online
<1>1. Nobody = First(online)
  BY DEF Host
<1>2. online \in SUBSET players /\ \A q \in online : position[q] \in Nat
  BY DEF people, TypeOK, players
<1>3. Nobody \in online
  BY <1>1, <1>2, FirstIsMember
<1> QED
  BY <1>3, PlayersAreFinite DEF people, Everyone

\* A rematch keeps the people who are online, whoever asks for it.
LEMMA GatherKeepsLife ==
  ASSUME LifeInv, NEW p \in Humans \cup {Nobody}, Gather(p)
  PROVE  [Life!Next]_(Life!vars)
<1>0. TypeOK
  BY DEF LifeInv
<1>1. CASE PrepareRematchByHost(p)
  <2> DEFINE online == people \ offline
  <2>1. online \in SUBSET players /\ online \cap Humans = online
    BY DEF people
  <2>2. people' = online /\ Ahead' = Ahead \cap (online \X online)
    BY <1>0, <1>1, <2>1, KeptPeople DEF PrepareRematchByHost
  <2>3. Life!IsHost(p) \/ (p = Nobody /\ Life!Online = {})
    BY <1>0, <1>1, HostIsAhead, NobodyHosts DEF PrepareRematchByHost
  <2>4. Life!PrepareRematchByHost(p)
    BY <1>1, <2>2, <2>3
    DEF PrepareRematchByHost, Life!PrepareRematchByHost, Life!Keep, Life!Online, Blank
  <2> QED
    BY <2>4 DEF Life!Next
<1>2. CASE FillWithAIByHost(p)
  BY <1>0, <1>2, BotsSitBehind DEF FillWithAIByHost, gameVars, Life!vars
<1> QED
  BY <1>1, <1>2 DEF Gather

\* A start, granted or not, keeps the people who are online.
LEMMA StartsKeepLife ==
  ASSUME LifeInv, NEW p \in Everyone, RefusedStart(p) \/ StartGame(p)
  PROVE  Life!Next
<1> DEFINE online == people \ offline
<1>0. TypeOK
  BY DEF LifeInv
<1>1. p \in Humans /\ Life!MayStart(p)
  <2>1. MayStart(p)
    BY DEF RefusedStart, StartGame
  <2>2. p \in Humans /\ (p = Host => Life!IsHost(p))
    BY <1>0, <2>1, HostIsAhead DEF MayStart, people
  <2> QED
    BY <2>1, <2>2 DEF MayStart, Life!MayStart, Scripted
<1>2. players \ offline \in SUBSET players /\ (players \ offline) \cap Humans = online
  BY DEF people
<1>3. people' = online /\ Ahead' = Ahead \cap (online \X online)
  BY <1>0, <1>2, KeptPeople DEF RefusedStart, StartGame
<1>4. CASE RefusedStart(p)
  <2>1. Life!RefusedStart(p)
    BY <1>1, <1>3, <1>4 DEF RefusedStart, Life!RefusedStart, Life!Keep, Life!Online, gameVars
  <2> QED
    BY <1>1, <2>1 DEF Life!Next
<1>5. CASE StartGame(p)
  <2>1. IF mode = "normal" THEN Cardinality(online) >= MinHumans ELSE online # {}
    BY <1>0, <1>2, <1>5 DEF StartGame, EnoughPlayers, Scripted, TypeOK
  <2>2. IF mode = "normal" THEN Life!Cardinality(Life!Online) >= MinHumans
                           ELSE Life!Online # {}
    BY <2>1 DEF Life!Online, Life!Cardinality, Life!IsFiniteSet, Cardinality, IsFiniteSet
  <2>3. Life!Keep(Life!Online)
    BY <1>3 DEF Life!Keep, Life!Online
  <2>4. /\ match < MaxMatches /\ match' = match + 1
        /\ status' = "playing" /\ offline' = {} /\ mode' = mode
    BY <1>5 DEF StartGame
  <2>5. Life!StartGame(p)
    BY <1>1, <2>2, <2>3, <2>4, Zenon DEF Life!StartGame
  <2> QED
    BY <1>1, <2>5 DEF Life!Next
<1> QED
  BY <1>4, <1>5

LEMMA StepsKeepLife == LifeInv /\ [Next]_vars => [Life!Next]_(Life!vars)
<1> SUFFICES ASSUME LifeInv, [Next]_vars PROVE [Life!Next]_(Life!vars)
  OBVIOUS
<1>0. TypeOK /\ NoGameHasNoPhase
  BY DEF LifeInv
<1>1. CASE UNCHANGED <<status, mode, position, offline, match>>
  BY <1>1, SameTable DEF Life!vars
<1>2. CASE CreateRoom
  <2>1. Life!CreateRoom
    BY <1>2, EmptyTable DEF CreateRoom, Life!CreateRoom, Life!Empty, Empty, Blank
  <2> QED
    BY <2>1 DEF Life!Next
<1>3. CASE AddAIPlayer
  BY <1>0, <1>3, BotsSitBehind DEF AddAIPlayer, gameVars, Life!vars
<1>4. ASSUME NEW p \in Everyone, Play(p) PROVE [Life!Next]_(Life!vars)
  <2>1. CASE RefusedStart(p) \/ StartGame(p)
    BY <2>1, StartsKeepLife
  <2>2. CASE \/ \E nominees \in SUBSET players : ProposeMission(p, nominees)
             \/ \E outcome \in {"success", "failure"} : SetDebugMissionResult(p, outcome)
    BY <1>1, <2>2 DEF ProposeMission, SetDebugMissionResult, seatVars
  <2>3. CASE \/ \E vote \in {"yes", "no"} : TeamVote(p, vote)
             \/ \E deed \in {"support", "sabotage"} : MissionVote(p, deed)
    <3>1. /\ status' \in {status, "finished"} /\ status \in {"playing", "finished"}
          /\ UNCHANGED <<mode, position, offline, match>>
      BY <1>0, <2>3, VotesEndGames DEF NoGameHasNoPhase, TypeOK
    <3>2. CASE status' = status
      BY <1>1, <3>1, <3>2
    <3>3. CASE status = "playing" /\ status' = "finished"
      <4>1. Life!EndGame
        BY <3>1, <3>3, SameTable DEF Life!EndGame
      <4> QED
        BY <4>1 DEF Life!Next
    <3> QED
      BY <3>1, <3>2, <3>3
  <2> QED
    BY <1>4, <2>1, <2>2, <2>3 DEF Play
<1>5. CASE StartTeamVote \/ StartMissionVote
  BY <1>1, <1>5 DEF StartTeamVote, StartMissionVote, seatVars
<1>6. CASE UNCHANGED vars
  BY <1>1, <1>6 DEF vars, seatVars, gameVars
<1> QED
  BY <1>2, <1>3, <1>4, <1>5, <1>6, SeatsKeepLife, GatherKeepsLife DEF Next

\* The rules of the game implement the life of a room that the server's other
\* parts rely on (room.go, StartGame, teamVote, MissionVote).
THEOREM RulesKeepLife == Spec => KeepsLife
<1>1. Init => Life!Init
  BY DEF Init, Life!Init, Ahead, people, players
<1> QED
  BY <1>1, LifeInvariant, StepsKeepLife, PTL DEF Spec, KeepsLife, Life!Spec
=============================================================================
