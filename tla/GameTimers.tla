----------------------------- MODULE GameTimers -----------------------------
(***************************************************************************)
(* What drives a game of "Who is AI" on when its people are slow or gone   *)
(* (internal/realtime/server.go): after every step of the rules the server *)
(* looks at the events it got back and arms timers for the stage they      *)
(* announce; a timer that expires looks whether its stage is still on and  *)
(* then moves for the people who did not.                                  *)
(*                                                                         *)
(* The store is locked within a call and not between calls, so a handler   *)
(* is a job that goes on call by call: the room that is read to arm a      *)
(* timer, or that a timer reads, may be another one when the next call is  *)
(* made.  Nothing cancels a timer, and it may fire as late as it likes;    *)
(* rooms are in the normal mode, which has no debug panel to pause it.     *)
(***************************************************************************)
EXTENDS WhoIsAI, Bags

CONSTANTS
  MaxJobs,    \* bound on the handlers under way, when one more begins
  MaxTimers   \* bound on the timers armed when people make a move

\* The code's table asks for no team that is larger than the number of players.
ASSUME TeamsFitTables ==
  \A n \in MinPlayers .. MaxPlayers, r \in 1 .. MaxRounds : MissionTeamSize(n, r) <= n
ASSUME TimersAreBounded == Modes = {"normal"} /\ {MaxJobs, MaxTimers} \subseteq Nat

VARIABLES
  timers,   \* bag of the timers that are armed
  jobs,     \* bag of the handlers under way, each by what it does next
  served    \* "yes" when the platform accepted the game as it began, or somebody
            \* moved in it; "late" when it accepted it at a repeated start

timerVars == <<timers, jobs, served>>
allVars == <<vars, timerVars>>

Stages == {"propose", "discuss", "team_vote", "briefing", "mission"}
Kinds == Stages \cup {"bots"}
Timers == [kind : Kinds, round : Nat, about : SUBSET (Everyone \cup {Nobody})]
Jobs ==
  [do : {"schedule"}, stage : Stages, round : Nat]
  \cup [do : {"propose"}, leader : Humans, team : SUBSET Everyone]
  \cup [do : {"call"}] \cup [do : {"brief"}]
  \cup [do : {"vote", "act"}, left : (SUBSET Everyone) \ {{}}] \cup [do : {"bot"}, who : Bots]

TimersTypeOK ==
  /\ TypeOK
  /\ IsABag(timers) /\ BagToSet(timers) \subseteq Timers
  /\ IsABag(jobs) /\ \A j \in BagToSet(jobs) : j \in Jobs
  /\ served \in {"no", "late", "yes"}

Schedule(stage, r) == [do |-> "schedule", stage |-> stage, round |-> r]

\* The handlers under way when j is done and those of `next` begin.
Become(j, next) == jobs' = (jobs (-) SetToBag({j})) (+) SetToBag(next)
Begin(next) == /\ BagCardinality(jobs) < MaxJobs
               /\ jobs' = jobs (+) SetToBag(next)

-----------------------------------------------------------------------------
(* What the service's calls announce *)

\* The stages announced by the call that is being made: the rounds are those of
\* the events' payloads.
AfterTeamVote ==
  IF phase' = "mission" THEN {Schedule("briefing", round)}
  ELSE IF phase' = "propose" THEN {Schedule("propose", round)} ELSE {}
AfterMissionVote ==
  IF phase' = "propose" THEN {Schedule("propose", round')} ELSE {}

TeamPollEnds == phase' = "mission" \/ streak' > streak
MissionEnds == Len(results') > Len(results)

-----------------------------------------------------------------------------
(* People *)

\* The start of a game is the service's call, then the platform's, which may
\* refuse; only then timers are armed (emitGameStart).
Start(p) ==
  /\ StartGame(p)
  /\ \/ served' = "yes" /\ Begin({Schedule("propose", 1)})
     \/ served' = "no" /\ UNCHANGED jobs
  /\ UNCHANGED timers

\* The host starts a game that is on: the service changes nothing and announces
\* nothing, so that no timer is armed, though the platform may accept it now.
StartAgain(p) ==
  /\ status = "playing" /\ p = Host
  /\ served' \in (IF served = "no" THEN {"no", "late"} ELSE {served})
  /\ UNCHANGED <<vars, timers, jobs>>

Propose(p) ==
  /\ \E nominees \in SUBSET players : ProposeMission(p, nominees)
  /\ Begin({Schedule("discuss", round)})
  /\ served' = "yes"
  /\ UNCHANGED timers

\* People still vote in games that are over, since the phase is kept.
Late(n, most) == status = "playing" \/ n < most

Vote(p) ==
  /\ Late(streak, MaxRejections + 1)
  /\ \E vote \in {"yes", "no"} : TeamVote(p, vote)
  /\ Begin(AfterTeamVote)
  /\ UNCHANGED <<timers, served>>

Act(p) ==
  /\ Late(Len(results), MaxRounds + 1)
  /\ \E deed \in {"support", "sabotage"} : MissionVote(p, deed)
  /\ Begin(AfterMissionVote)
  /\ UNCHANGED <<timers, served>>

\* Who loses his connection keeps his seat and is moved for like anybody else.
Sit(p) ==
  /\ \/ JoinPlayer(p, "normal") \/ Rejoin(p) \/ SetPlayerDisconnected(p) \/ LeavePlayer(p)
     \/ ResetRoomByHost(p) \/ Gather(p)
  /\ UNCHANGED <<timers, jobs, served>>

\* Somebody who has not joined, while nobody who has is online.
Stranger ==
  /\ Gather(Nobody)
  /\ UNCHANGED <<timers, jobs, served>>

Create ==
  /\ CreateRoom
  /\ UNCHANGED <<timers, jobs, served>>

Person(p) ==
  /\ BagCardinality(timers) <= MaxTimers
  /\ Sit(p) \/ Start(p) \/ StartAgain(p) \/ Propose(p) \/ Vote(p) \/ Act(p)

-----------------------------------------------------------------------------
(* Timers *)

\* Faulty variants, each named for its fault, stand before the definition they vary;
\* no specification uses them.
ArmedForTheLastTeam(stage, r) ==
  IF stage = "propose" THEN {[kind |-> "propose", round |-> r, about |-> {leader}]}
  ELSE IF stage \in {"briefing", "mission"} THEN {[kind |-> stage, round |-> round, about |-> {}]}
  ELSE {[kind |-> stage, round |-> r, about |-> lastTeam]}

\* scheduleAfterEvents: the stage and its round are the event's, the leader and
\* the team those of the room as it now is.
Armed(stage, r) ==
  CASE stage = "propose" -> {[kind |-> "propose", round |-> r, about |-> {leader}]}
    [] stage \in {"discuss", "team_vote"} -> {[kind |-> stage, round |-> r, about |-> team]}
    [] stage = "briefing" -> {[kind |-> "briefing", round |-> round, about |-> {}]}
    [] stage = "mission" ->
         {[kind |-> k, round |-> round, about |-> {}] :
            k \in {"mission"} \cup (IF bots = {} THEN {} ELSE {"bots"})}

ArmTimers(j) ==
  /\ j.do = "schedule"
  /\ timers' = IF status = "absent" THEN timers
               ELSE timers (+) SetToBag(Armed(j.stage, j.round))
  /\ Become(j, {})
  /\ UNCHANGED <<vars, served>>

\* Whether the timer finds what it was armed for.
StillOn(t) ==
  /\ status # "absent" /\ round = t.round
  /\ CASE t.kind = "propose" -> status = "playing" /\ phase = "propose" /\ t.about = {leader}
       [] t.kind \in {"discuss", "team_vote"} -> phase = t.kind /\ t.about = team
       [] t.kind = "briefing" -> phase = "mission" /\ sub = "discuss"
       [] t.kind = "bots" -> phase = "mission" /\ sub = "vote"
       [] t.kind = "mission" -> phase = "mission"

\* activePlayerIDs: those who are connected come first.
Listed(p) ==
  Cardinality({q \in players :
    IF q \in offline <=> p \in offline THEN position[q] < position[p] ELSE p \in offline})

\* rotatingTeam: the leader, and then one after the other from a place in the list
\* that moves on with the rounds.
RotatingTeam ==
  LET size == MissionTeamSize(Cardinality(players), round)
      turn(p) == (Listed(p) - (round - 1)) % Cardinality(players)
      others == players \ {leader}
  IN  IF size >= Cardinality(players) THEN players
      ELSE {leader} \cup {p \in others : Cardinality({q \in others : turn(q) < turn(p)}) < size - 1}

MoveFor(do, missing) ==
  IF missing = {} THEN {} ELSE {[do |-> do, left |-> missing]}

\* What it then sets out to do with the room it has read.
Errand(t) ==
  CASE t.kind = "propose" -> {[do |-> "propose", leader |-> leader, team |-> RotatingTeam]}
    [] t.kind = "discuss" -> {[do |-> "call"]}
    [] t.kind = "team_vote" -> MoveFor("vote", players \ Voted(teamVotes))
    [] t.kind = "briefing" -> {[do |-> "brief"]}
    [] t.kind = "bots" -> {[do |-> "bot", who |-> b] : b \in team \cap bots}
    [] t.kind = "mission" -> MoveFor("act", team \ Voted(missionVotes))

\* Of several AI players on the team, the first acts, and the others with it.
Fire(t) ==
  /\ timers' = timers (-) SetToBag({t})
  /\ IF StillOn(t) /\ Errand(t) # {}
     THEN \E errand \in Errand(t) : Begin({errand})
     ELSE UNCHANGED jobs
  /\ UNCHANGED <<vars, served>>

-----------------------------------------------------------------------------
(* The errands of the timers *)

\* Who leads and whom he takes were read before; a call that is refused ends
\* the handler.
AutoPropose(j) ==
  /\ j.do = "propose"
  /\ \/ ProposeMission(j.leader, j.team) /\ Become(j, {Schedule("discuss", round)})
     \/ /\ \/ phase # "propose" \/ j.leader # leader \/ ~(j.team \subseteq players)
           \/ Cardinality(j.team) # MissionTeamSize(Cardinality(players), round)
        /\ Become(j, {}) /\ UNCHANGED vars
  /\ UNCHANGED <<timers, served>>

CallVote(j) ==
  /\ j.do = "call"
  /\ \/ /\ StartTeamVote
        /\ Become(j, {Schedule("team_vote", round)})
     \/ phase # "discuss" /\ Become(j, {}) /\ UNCHANGED vars
  /\ UNCHANGED <<timers, served>>

CallMission(j) ==
  /\ j.do = "brief"
  /\ \/ StartMissionVote /\ Become(j, {Schedule("mission", round)})
     \/ ~(phase = "mission" /\ sub = "discuss") /\ Become(j, {}) /\ UNCHANGED vars
  /\ UNCHANGED <<timers, served>>

\* A faulty variant of Rest.
RestForgotten(j, p) == {}

\* What is left of the errand j when it has moved for p, or was refused.
Rest(j, p) == IF j.left = {p} THEN {} ELSE {[j EXCEPT !.left = @ \ {p}]}

\* One vote against for each of those who were seen not to have voted, until
\* one of them resolves the poll.
VoteFor(j) ==
  /\ j.do = "vote"
  /\ \E p \in j.left :
       \/ /\ TeamVote(p, "no")
          /\ Become(j, IF TeamPollEnds THEN AfterTeamVote ELSE Rest(j, p))
       \/ /\ phase # "team_vote" \/ p \notin players
          /\ Become(j, Rest(j, p)) /\ UNCHANGED vars
  /\ UNCHANGED <<timers, served>>

ActFor(j) ==
  /\ j.do = "act"
  /\ \E p \in j.left :
       \/ /\ MissionVote(p, "support")
          /\ Become(j, IF MissionEnds THEN AfterMissionVote ELSE Rest(j, p))
       \/ /\ ~(phase = "mission" /\ sub = "vote" /\ p \in team)
          /\ Become(j, Rest(j, p)) /\ UNCHANGED vars
  /\ UNCHANGED <<timers, served>>

BotActs(j) ==
  /\ j.do = "bot"
  /\ \/ MissionVote(j.who, "support") /\ Become(j, AfterMissionVote)
     \/ /\ ~(phase = "mission" /\ sub = "vote" /\ j.who \in team)
        /\ Become(j, {}) /\ UNCHANGED vars
  /\ UNCHANGED <<timers, served>>

JobStep(j) ==
  \/ ArmTimers(j) \/ AutoPropose(j) \/ CallVote(j) \/ CallMission(j)
  \/ VoteFor(j) \/ ActFor(j) \/ BotActs(j)

TimersInit ==
  /\ Init
  /\ timers = EmptyBag /\ jobs = EmptyBag /\ served = "no"

TimerFires == \E t \in BagToSet(timers) : Fire(t)
HandlersGoOn == \E j \in BagToSet(jobs) : JobStep(j)
TimersNext ==
  \/ Create \/ Stranger \/ \E p \in Humans : Person(p)
  \/ TimerFires \/ HandlersGoOn

TimersSpec == TimersInit /\ [][TimersNext]_allVars

\* Handlers run on, and every timer fires at last; people need not do anything.
FairTimersSpec ==
  TimersSpec /\ WF_allVars(HandlersGoOn) /\ WF_allVars(TimerFires)

-----------------------------------------------------------------------------
(* Properties *)

Stage == IF phase = "mission" THEN (IF sub = "vote" THEN "mission" ELSE "briefing") ELSE phase

\* Handlers that will move the stage that is on, or arm its timer.
InCharge(j) ==
  \/ j.do = "schedule" /\ j.stage = Stage /\ j.round = round
  \/ j.do = "propose" /\ Stage = "propose" /\ j.leader = leader
     /\ j.team \subseteq players
     /\ Cardinality(j.team) = MissionTeamSize(Cardinality(players), round)
  \/ j.do = "call" /\ Stage = "discuss"
  \/ j.do = "vote" /\ Stage = "team_vote" /\ players \ Voted(teamVotes) \subseteq j.left
  \/ j.do = "brief" /\ Stage = "briefing"
  \/ j.do = "act" /\ Stage = "mission" /\ team \ Voted(missionVotes) \subseteq j.left

\* A game that is on is never left to its people alone, unless the platform refused
\* it as it began and nobody has moved in it since: there is always a timer
\* that will find its stage on, or a handler that is about to move it or to arm
\* that timer, whatever people, other timers and earlier games do in between
\* (scheduleAfterEvents; docs/reviews/multi-agent-game-experience-2026-07-20.md:137).
EveryStageIsTimed ==
  Playing /\ served = "yes" =>
    \/ \E t \in BagToSet(timers) : StillOn(t) /\ t.kind = Stage
    \/ \E j \in BagToSet(jobs) : InCharge(j)

\* The server's timers keep up with every game it serves (scheduleAfterEvents).
GamesAreTimed == TimersTypeOK /\ EveryStageIsTimed

\* A game that the platform accepted as it began, or in which somebody has moved
\* since, ends though nobody moves in it any more (the timers' handlers).
GamesEnd == Playing /\ served = "yes" ~> ~Playing
=============================================================================
