------------------------------ MODULE WhoIsAI ------------------------------
(***************************************************************************)
(* One room of the game "Who is AI": its seats (internal/game/room.go) and *)
(* the rules of play (internal/game/service.go).  Every call holds the     *)
(* lock of the game's store from first to last, so each is one action;     *)
(* calls that are refused change nothing, but for RefusedStart.            *)
(*                                                                         *)
(* Any call may come at any time: the rules look at the phase, seldom at   *)
(* the status; requests without a session id are let through               *)
(* (validateActiveSession), and timers act on what they read before.       *)
(* Chat, stances, possession and deadlines do not influence the outcome    *)
(* and are left out, and so are names and reasons.                         *)
(***************************************************************************)
EXTENDS Integers, FiniteSets, FiniteSetsExt, Sequences

CONSTANTS
  Humans, Nobody,
  Bots,           \* ids of AI players, numbered in the order they are made
  Modes,          \* modes that rooms are opened in
  MinHumans, MinPlayers, MaxPlayers,        \* 3, 5 and 8 in the code
  MaxRounds, MissionsToWin, MaxRejections,  \* 5, 3 and 5 in the code
  TeamSizes,      \* number of players -> team size of each round
  UsualPlayers,   \* whose team sizes serve other numbers of players; 6
  Infiltrators,   \* number of players -> number of roles of the evil side
  MaxMatches,     \* bound on the games started
  MaxResults, MaxStreak  \* bounds on what late votes add to a finished game

Everyone == Humans \cup Bots
SizesAreGiven == /\ UsualPlayers \in DOMAIN TeamSizes
                 /\ \A n \in DOMAIN TeamSizes : TeamSizes[n] \in Seq(Nat \ {0}) /\ TeamSizes[n] # <<>>

ASSUME PlayersAreFinite ==
  /\ IsFiniteSet(Humans) /\ Bots \subseteq Nat /\ IsFiniteSet(Bots)
  /\ Humans \cap Bots = {} /\ Nobody \notin Everyone
ASSUME RulesAreSound ==
  /\ Modes \subseteq {"normal", "test", "solo"}
  /\ MinHumans \in Nat \ {0} /\ MinPlayers \in Nat /\ MaxPlayers \in Nat
  /\ MaxRounds \in Nat \ {0} /\ MissionsToWin \in Nat \ {0} /\ MaxRejections \in Nat \ {0}
  /\ SizesAreGiven
  /\ MinPlayers <= MaxPlayers /\ Infiltrators \in [MinPlayers .. MaxPlayers -> Nat]
  /\ {MaxMatches, MaxResults, MaxStreak} \subseteq Nat

VARIABLES
  status, mode,
  position,          \* place at the table of each seated player
  offline,           \* seated players whose connection is lost
  cast, evil,        \* players who hold a role, and those of the evil side
  round, phase, sub,
  leader, team,
  teamVotes, missionVotes,   \* vote of each player in the current poll
  streak,            \* rejections in a row (RejectStreak)
  lastTeam,          \* team of the last record in VoteHistory, {} when none
  results, successes, failures,
  forced,            \* outcome fixed by the debug panel
  match              \* history: games started

seatVars == <<mode, position, offline>>
roleVars == <<cast, evil>>
scoreVars == <<round, results, successes, failures>>
pollVars == <<teamVotes, missionVotes, streak, lastTeam>>
stageVars == <<phase, sub, leader, team>>
gameVars == <<roleVars, scoreVars, pollVars, stageVars, forced, match>>
vars == <<status, seatVars, gameVars>>

players == DOMAIN position
people == players \cap Humans
bots == players \cap Bots

Votes == [Everyone -> {"none", "yes", "no"}]
Deeds == [Everyone -> {"none", "support", "sabotage"}]
NoVotes == [p \in Everyone |-> "none"]
Voted(votes) == {p \in Everyone : votes[p] # "none"}

TypeOK ==
  /\ status \in {"absent", "waiting", "playing", "finished"}
  /\ mode \in {"normal", "test", "solo"}
  /\ players \subseteq Everyone /\ position \in [players -> Nat]
  /\ offline \subseteq people
  /\ cast \subseteq Everyone /\ evil \subseteq cast
  /\ round \in Nat /\ match \in Nat /\ streak \in Nat
  /\ phase \in {"none", "propose", "discuss", "team_vote", "mission"}
  /\ sub \in {"none", "discuss", "vote"}
  /\ leader \in Humans \cup {Nobody}
  /\ team \subseteq Everyone /\ lastTeam \subseteq Everyone
  /\ teamVotes \in Votes /\ missionVotes \in Deeds
  /\ results \in Seq(BOOLEAN) /\ successes \in Nat /\ failures \in Nat
  /\ forced \in {"none", "success", "failure"}

Scripted == mode \in {"test", "solo"}

-----------------------------------------------------------------------------
(* Seats *)

First(S) == CHOOSE p \in S : \A q \in S : position[p] <= position[q]
Last(S) == CHOOSE p \in S : \A q \in S : position[p] >= position[q]

\* The host is whoever sits first of the people that are online; there are two
\* loops for it in room.go and one in service.go, all the same.
Host == IF people \ offline = {} THEN Nobody ELSE First(people \ offline)

Reseated(kept) ==
  [p \in kept |-> Cardinality({q \in kept : position[q] < position[p]})]

Seating(newcomers) ==
  [p \in players \cup newcomers |->
     IF p \in players THEN position[p]
     ELSE Cardinality(players) + Cardinality({q \in newcomers \cap Bots : q < p})]

\* The n unused bots that are made next.
NextBots(n) ==
  {b \in Bots \ players : Cardinality({c \in Bots \ players : c < b}) < n}

\* newRoom: everything but the status and the seats.
Blank ==
  /\ cast' = {} /\ evil' = {}
  /\ round' = 0 /\ results' = <<>> /\ successes' = 0 /\ failures' = 0
  /\ teamVotes' = NoVotes /\ missionVotes' = NoVotes
  /\ streak' = 0 /\ lastTeam' = {}
  /\ phase' = "none" /\ sub' = "none" /\ leader' = Nobody /\ team' = {}
  /\ forced' = "none"
  /\ UNCHANGED <<match>>

Empty == position' = [p \in {} |-> 0] /\ offline' = {} /\ mode' = "normal"

Init ==
  /\ status = "absent" /\ mode = "normal"
  /\ position = [p \in {} |-> 0] /\ offline = {}
  /\ cast = {} /\ evil = {}
  /\ round = 0 /\ results = <<>> /\ successes = 0 /\ failures = 0
  /\ teamVotes = NoVotes /\ missionVotes = NoVotes
  /\ streak = 0 /\ lastTeam = {}
  /\ phase = "none" /\ sub = "none" /\ leader = Nobody /\ team = {}
  /\ forced = "none" /\ match = 0

CreateRoom ==
  /\ status # "playing"
  /\ status' = "waiting" /\ Empty /\ Blank

\* JoinPlayer by somebody who has a seat: it is his again, at any time.
Rejoin(p) ==
  /\ status # "absent" /\ p \in people
  /\ offline' = offline \ {p}
  /\ UNCHANGED <<status, mode, position, gameVars>>

JoinPlayer(p, m) ==
  /\ status = "waiting" /\ p \notin players
  /\ players = {} \/ mode = m
  /\ Cardinality(players) < MaxPlayers
  /\ position' = Seating({p}) /\ mode' = m
  /\ UNCHANGED <<status, offline, gameVars>>

SetPlayerDisconnected(p) ==
  /\ status # "absent" /\ p \in people
  /\ offline' = offline \cup {p}
  /\ UNCHANGED <<status, mode, position, gameVars>>

LeaveAnyTime(p) ==
  /\ status # "absent" /\ p \in people
  /\ \/ /\ players # {p}
        /\ position' = Reseated(players \ {p})
        /\ offline' = offline \ {p}
        /\ UNCHANGED <<status, mode, gameVars>>
     \/ /\ players = {p}
        /\ status' = "absent" /\ Empty /\ Blank

\* The last one to leave deletes the room.
LeavePlayer(p) ==
  /\ status \in {"waiting", "finished"} /\ p \in people
  /\ \/ /\ players # {p}
        /\ position' = Reseated(players \ {p})
        /\ offline' = offline \ {p}
        /\ UNCHANGED <<status, mode, gameVars>>
     \/ /\ players = {p}
        /\ status' = "absent" /\ Empty /\ Blank

ResetRoomByHost(p) ==
  /\ status # "absent" /\ p = Host
  /\ status' = "waiting" /\ Empty /\ Blank

\* Nobody stands for the empty name: that of the host when nobody is online, and
\* that of somebody who has not joined, and who is not refused here.
PrepareRematchByHost(p) ==
  /\ status # "absent" /\ p = Host
  /\ position' = Reseated(people \ offline)
  /\ offline' = {}
  /\ status' = "waiting" /\ Blank
  /\ UNCHANGED mode

FillWithAIByHost(p) ==
  /\ status = "waiting" /\ p = Host
  /\ Cardinality(players) < MinPlayers
  /\ position' = Seating(NextBots(MinPlayers - Cardinality(players)))
  /\ UNCHANGED <<status, mode, offline, gameVars>>

\* autofillAndStart has seen a waiting room before, but it may be so no more.
AddAIPlayer ==
  /\ status # "absent" /\ Modes # {"normal"}
  /\ Cardinality(players) < MaxPlayers
  /\ NextBots(1) # {}
  /\ position' = Seating(NextBots(1))
  /\ UNCHANGED <<status, mode, offline, gameVars>>

-----------------------------------------------------------------------------
(* The start of a game *)

\* AssignRoles deals as many roles as MinPlayers would need, at least.
InfiltratorsFor(n) == Infiltrators[IF n < MinPlayers THEN MinPlayers
                                   ELSE IF n > MaxPlayers THEN MaxPlayers ELSE n]
Sides(kept) ==
  LET n == Cardinality(kept)
      count == InfiltratorsFor(n)
  IN  {E \in SUBSET kept : /\ Cardinality(E) <= count
                           /\ count - Cardinality(E) <= Max({0, MinPlayers - n})}

\* assignRoomRoles: in a scripted mode one of the AI players is an infiltrator,
\* if need be in exchange for the role of a human one.
CastingSides(kept) ==
  LET ais == kept \cap Bots
      Handed(E) == IF E \cap ais # {} THEN {E}
                   ELSE IF E = {} THEN {{Last(ais)}}
                   ELSE {(E \ {p}) \cup {Last(ais)} : p \in E}
  IN  IF ~Scripted \/ ais = {} THEN Sides(kept)
      ELSE UNION {Handed(E) : E \in Sides(kept)}

MayStart(p) == /\ status \in {"waiting", "finished"}
               /\ p \in people /\ (Scripted \/ p = Host)
EnoughPlayers ==
  LET kept == players \ offline
  IN  IF Scripted THEN kept \cap Humans # {}
      ELSE /\ Cardinality(kept \cap Humans) >= MinHumans
           /\ Cardinality(kept) >= MinPlayers

\* The offline players lose their seats before the others are counted.
RefusedStart(p) ==
  /\ MayStart(p) /\ ~EnoughPlayers
  /\ position' = Reseated(players \ offline) /\ offline' = {}
  /\ UNCHANGED <<status, mode, gameVars>>

StartGame(p) ==
  LET kept == players \ offline
  IN  /\ MayStart(p) /\ EnoughPlayers
      /\ match < MaxMatches
      /\ position' = Reseated(kept) /\ offline' = {}
      /\ status' = "playing" /\ phase' = "propose"
      /\ round' = 1 /\ results' = <<>> /\ successes' = 0 /\ failures' = 0
      /\ team' = {} /\ teamVotes' = NoVotes
      /\ cast' = kept /\ evil' \in CastingSides(kept)
      /\ leader' \in kept \cap Humans
      /\ match' = match + 1
      /\ UNCHANGED <<mode, sub, missionVotes, streak, lastTeam, forced>>

-----------------------------------------------------------------------------
(* Nomination and team vote *)

MissionTeamSize(n, r) ==
  LET sizes == TeamSizes[IF n \in DOMAIN TeamSizes THEN n ELSE UsualPlayers]
  IN  sizes[IF r < 1 THEN 1 ELSE IF r > Len(sizes) THEN Len(sizes) ELSE r]

ProposeMission(p, nominees) ==
  /\ phase = "propose" /\ p = leader
  /\ nominees \subseteq players
  /\ Cardinality(nominees) = MissionTeamSize(Cardinality(players), round)
  /\ team' = nominees /\ phase' = "discuss"
  /\ UNCHANGED <<status, seatVars, roleVars, scoreVars, pollVars, sub, leader, forced, match>>

StartTeamVote ==
  /\ phase = "discuss"
  /\ phase' = "team_vote" /\ teamVotes' = NoVotes
  /\ UNCHANGED <<status, seatVars, roleVars, scoreVars, missionVotes, streak, lastTeam,
                 sub, leader, team, forced, match>>

NextLeaderOfAll ==
  LET later == {q \in players : leader \in players /\ position[q] > position[leader]}
  IN  IF players = {} THEN leader ELSE IF later = {} THEN First(players) ELSE First(later)

\* rotateLeader
NextLeader ==
  LET later == {q \in people : leader \in people /\ position[q] > position[leader]}
  IN  IF people = {} THEN leader ELSE IF later = {} THEN First(people) ELSE First(later)

AITeamVote(p) ==
  IF \/ Scripted
     \/ p \in evil /\ (team \cap evil # {} \/ round = 1)
     \/ p \notin evil /\ (results = <<>> \/ results[Len(results)])
     \/ p \notin evil /\ team \cap lastTeam = {}
  THEN "yes" ELSE "no"

TeamVotesWith(p, vote) ==
  [q \in Everyone |-> IF q \in bots THEN AITeamVote(q)
                      ELSE IF q = p THEN vote ELSE teamVotes[q]]

VoteGoesOn(votes) ==
  /\ Cardinality(Voted(votes)) < Cardinality(players)
  /\ teamVotes' = votes
  /\ UNCHANGED <<status, scoreVars, missionVotes, streak, lastTeam, stageVars>>

Approved(votes) ==
  2 * Cardinality({p \in players : votes[p] = "yes"}) > Cardinality(players)

TeamApproved(votes) ==
  /\ Cardinality(Voted(votes)) >= Cardinality(players) /\ Approved(votes)
  /\ teamVotes' = votes /\ missionVotes' = NoVotes
  /\ streak' = 0 /\ lastTeam' = team
  /\ phase' = "mission" /\ sub' = "discuss"
  /\ UNCHANGED <<status, scoreVars, leader, team>>

RejectedKeepingVotes(votes) ==
  /\ Cardinality(Voted(votes)) >= Cardinality(players) /\ ~Approved(votes)
  /\ streak < MaxStreak
  /\ teamVotes' = votes /\ team' = {} /\ lastTeam' = team
  /\ streak' = streak + 1
  /\ IF streak' >= MaxRejections
     THEN status' = "finished" /\ UNCHANGED <<phase, leader>>
     ELSE phase' = "propose" /\ leader' = NextLeader /\ UNCHANGED status
  /\ UNCHANGED <<scoreVars, missionVotes, sub>>

TeamRejected(votes) ==
  /\ Cardinality(Voted(votes)) >= Cardinality(players) /\ ~Approved(votes)
  /\ streak < MaxStreak
  /\ teamVotes' = NoVotes /\ team' = {} /\ lastTeam' = team
  /\ streak' = streak + 1
  /\ IF streak' >= MaxRejections
     THEN status' = "finished" /\ UNCHANGED <<phase, leader>>
     ELSE phase' = "propose" /\ leader' = NextLeader /\ UNCHANGED status
  /\ UNCHANGED <<scoreVars, missionVotes, sub>>

TeamVote(p, vote) ==
  /\ phase = "team_vote" /\ p \in players
  /\ LET votes == TeamVotesWith(p, vote)
     IN  VoteGoesOn(votes) \/ TeamApproved(votes) \/ TeamRejected(votes)
  /\ UNCHANGED <<seatVars, roleVars, forced, match>>

-----------------------------------------------------------------------------
(* The mission *)

StartMissionVote ==
  /\ phase = "mission" /\ sub = "discuss"
  /\ sub' = "vote"
  /\ UNCHANGED <<status, seatVars, roleVars, scoreVars, pollVars, phase, leader, team, forced, match>>

SetDebugMissionResult(p, outcome) ==
  /\ status # "absent" /\ mode = "solo" /\ p \in people
  /\ forced' = outcome
  /\ UNCHANGED <<status, seatVars, roleVars, scoreVars, pollVars, stageVars, match>>

AnybodySabotages(p, deed) == deed

\* normalizeMissionAction: the good side cannot sabotage.
Deed(p, deed) == IF p \in evil THEN deed ELSE "support"

DeedsWith(p, deed) ==
  [q \in Everyone |-> IF q \in team \cap bots THEN Deed(q, "sabotage")
                      ELSE IF q = p THEN Deed(p, deed) ELSE missionVotes[q]]

GoesOnUntilAllPlayersActed(deeds) ==
  /\ Cardinality(Voted(deeds)) < Cardinality(players)
  /\ missionVotes' = deeds
  /\ UNCHANGED <<status, scoreVars, teamVotes, stageVars, forced>>

MissionGoesOn(deeds) ==
  /\ Cardinality(Voted(deeds)) < Cardinality(team)
  /\ missionVotes' = deeds
  /\ UNCHANGED <<status, scoreVars, teamVotes, stageVars, forced>>

\* The deeds as the debug panel wants them; the first of the team takes the blame.
Rigged(deeds) ==
  IF forced = "none" \/ mode # "solo" THEN {deeds}
  ELSE {[q \in Everyone |-> IF q \notin team THEN deeds[q]
                            ELSE IF q = p /\ forced = "failure" THEN "sabotage" ELSE "support"]
          : p \in team}

OverOneMissionLater ==
  successes' > MissionsToWin \/ failures' > MissionsToWin \/ round >= MaxRounds

Over == successes' >= MissionsToWin \/ failures' >= MissionsToWin \/ round >= MaxRounds

MissionResolved(deeds) ==
  LET success == \A q \in Everyone : deeds[q] # "sabotage"
  IN  /\ Cardinality(Voted(deeds)) >= Cardinality(team)
      /\ Len(results) < MaxResults
      /\ results' = Append(results, success)
      /\ successes' = successes + (IF success THEN 1 ELSE 0)
      /\ failures' = failures + (IF success THEN 0 ELSE 1)
      /\ forced' = IF mode = "solo" THEN "none" ELSE forced
      /\ \/ /\ Over
            /\ status' = "finished" /\ missionVotes' = deeds
            /\ UNCHANGED <<round, teamVotes, stageVars>>
         \/ /\ ~Over
            /\ round' = round + 1
            /\ phase' = "propose" /\ sub' = "none" /\ team' = {} /\ leader' = NextLeader
            /\ teamVotes' = NoVotes /\ missionVotes' = NoVotes
            /\ UNCHANGED status

MissionVote(p, deed) ==
  /\ phase = "mission" /\ sub = "vote" /\ p \in team
  /\ LET deeds == DeedsWith(p, deed)
     IN  MissionGoesOn(deeds) \/ \E rigged \in Rigged(deeds) : MissionResolved(rigged)
  /\ UNCHANGED <<seatVars, roleVars, streak, lastTeam, match>>

-----------------------------------------------------------------------------
Seat(p) ==
  \/ Rejoin(p) \/ \E m \in Modes : JoinPlayer(p, m)
  \/ SetPlayerDisconnected(p) \/ LeavePlayer(p)
  \/ ResetRoomByHost(p)

Gather(p) == PrepareRematchByHost(p) \/ FillWithAIByHost(p)

Play(p) ==
  \/ RefusedStart(p) \/ StartGame(p)
  \/ \E nominees \in SUBSET players : ProposeMission(p, nominees)
  \/ \E vote \in {"yes", "no"} : TeamVote(p, vote)
  \/ \E deed \in {"support", "sabotage"} : MissionVote(p, deed)
  \/ \E outcome \in {"success", "failure"} : SetDebugMissionResult(p, outcome)

\* The server votes for AI players too (scheduleAIMissionVote and the timeouts).
Next ==
  \/ CreateRoom \/ AddAIPlayer \/ StartTeamVote \/ StartMissionVote
  \/ \E p \in Humans : Seat(p)
  \/ \E p \in Humans \cup {Nobody} : Gather(p)
  \/ \E p \in Everyone : Play(p)

Spec == Init /\ [][Next]_vars

-----------------------------------------------------------------------------
(* Properties *)

Playing == status = "playing"

\* While a game is on, its score tells the round and nobody has won yet: no
\* mission is counted twice or lost, and a game that is decided ends at once
\* (MissionVote, StartGame).
PlayingIsUndecided ==
  Playing => /\ Len(results) = round - 1 /\ successes + failures = round - 1
             /\ round <= MaxRounds
             /\ successes < MissionsToWin /\ failures < MissionsToWin

\* A game that is on never waits for a poll in which everyone has voted
\* (teamVote and MissionVote resolve it with the last vote).
PollsAreOpen ==
  Playing => /\ phase = "team_vote" => players \ Voted(teamVotes) # {}
             /\ phase = "mission" /\ sub = "vote" => team \ Voted(missionVotes) # {}

\* No vote of an earlier poll, or of an earlier game, counts in a later one.
VotesAreFresh ==
  Playing => /\ phase \in {"propose", "discuss"} => teamVotes = NoVotes
             /\ phase = "mission" /\ sub = "discuss" => missionVotes = NoVotes

\* Whoever was dealt a role is at the table until the game ends, and only AI
\* players come in later, somebody human leads it, there are as many
\* infiltrators as the line-up calls for, and the team under vote or on a
\* mission has the size of the round (LeavePlayer, AssignRoles, rotateLeader,
\* ProposeMission).
GameIsStaffed ==
  Playing =>
    /\ cast \subseteq players /\ players \ cast \subseteq Bots
    /\ leader \in people
    /\ mode = "normal" => Cardinality(evil) = InfiltratorsFor(Cardinality(cast))
    /\ phase # "propose" =>
         /\ team \subseteq players
         /\ \E n \in Cardinality(cast) .. Cardinality(players) :
              Cardinality(team) = MissionTeamSize(n, round)

\* A mission without an infiltrator on the team succeeds, unless the debug
\* panel fixed its outcome (normalizeMissionAction, aiMissionAction).
HonestTeamsSucceed ==
  [][Playing /\ Len(results') > Len(results) /\ ~results'[Len(results')] =>
       team \cap evil # {} \/ forced = "failure"]_vars

\* Who first gets his missions done has won (README.md:134): a game that is
\* decided stays decided, until the next one starts.
OutcomeIsFinal ==
  [][status = "finished" /\ status' = "finished" =>
       (successes' >= MissionsToWin /\ failures' < MissionsToWin)
         = (successes >= MissionsToWin /\ failures < MissionsToWin)]_vars
=============================================================================
