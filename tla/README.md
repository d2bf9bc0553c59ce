# A TLA+ development of whoisAi

whoisAi is a Go server for a platform of social mini-games: people open a room,
share its code, and play matches in it: a Texas hold'em table with bots, two
duels decided by a simulation, and the social deduction game "Who is AI".
This directory models the parts of the server whose correctness depends on the
order of events, checks them with TLC and proves with TLAPS, for every value of
the constants, the invariants of each of them, and what the store, the poker table and the rules of
"Who is AI" promise the rest.

## Inventory

| Part | State it keeps | Operations | Talks to |
| --- | --- | --- | --- |
| Room and session store (`internal/platform/store.go`) | rooms by code, sessions, latest snapshots, events, action ids; one lock | create, join, leave, connect, expire, select game, start/finish/abandon a session, commit a snapshot, append an event | called by everything below, and by the lobby listing (`http.go`) |
| Poker table (`internal/poker/table.go`) | stacks, bets, who is to act, pot | start, raise, call, fold | called by the poker service under its lock |
| Poker service (`internal/poker/service.go`) | per room: table, version, clocks, pending settlement | nine HTTP requests and a 200 ms ticker, one lock | store, table, records |
| Poker records (`records.go`, `postgres.go`) | hands recorded, players | save a hand, history | a database |
| Duel lifecycle (`internal/duel/service.go`) | per room: configurations, readiness, phase, last result | ready, cancel, remove, start | started by the realtime server, runs a simulation |
| Who-is-AI rules (`internal/game`) | room, phase, votes, roles, missions | about 25, under the lock of its store | called by the realtime server |
| Realtime server (`internal/realtime/server.go`) | sockets, timers | one handler per event, timers as goroutines | store, duel, game |
| Simulations (`runner_race`), AI client, start-up, browser client | none that matters here | | |

What is hard in it: the store, the poker service, the duel service and the game
each have a lock of their own, and a handler takes several of them one after
the other; clients poll and repeat their requests; players vanish and their
seats expire; timers race late answers; the database fails, with or without
having saved. `PROJECT.json` lists these hazards with their lines.

What makes each part correct:

* store: one host per room, seated; distinct seats; capacity; a frozen line-up
  while a match runs; rooms and sessions linked one to one; dense session
  numbers; one record per action id; ended sessions sealed;
* table: the right players are waited for; chips conserved; side pots fair; a
  bot's move never refused; every hand ends;
* poker service: hand, session and record in step; no result lost or
  overwritten; no request plays a turn its sender did not see; absent players
  cost time, not the table;
* duel and Who-is-AI: the match that is played is the one both agreed to; a
  late vote or timer changes nothing; game and platform agree on who plays.

## Modules

    PartyContract <-implements- PartyStore <-proves- PartyStoreProofs, PartyContractProofs
    PokerHand     <-implements- PokerTable <-proves- PokerTableProofs
    GameLife      <-implements- WhoIsAI (WhoIsAILife)  <-proves- WhoIsAIProofs

    PokerRoom    = PartyStore + PokerHand + database        (one lock)            <-proves- PokerRoomProofs
    DuelRoom     = PartyStore + DuelService + socket handlers (split at the locks)  <-proves- DuelRoomProofs
    GameSessions = PartyStore + GameLife + socket handlers    (split at the locks)  <-proves- GameSessionsProofs
    GameTimers   = WhoIsAI + timers and their handlers        (split at the locks)  <-proves- GameTimersProofs

**`PartyStore`** is `platform.MemoryStore`. Every exported operation holds the
one lock throughout, so each is one action; a call that returns an error changes
nothing and has no step. `rooms[c]` is `roomsByCode` (the pointer table
`roomsByID` is the same rooms under another key), `sessions` the map of
sessions, `snapshots` the version of each latest snapshot, `events`,
`actionIDs` and `nextEventID` the ledger. Times are abstracted to what is
compared: `elders` is the order of `JoinedAt`, the connection `"expired"` an
`LastSeenAt` older than the 90 s grace, reached by the clock step
`GraceElapses`. `WaitingRooms` is `ExpireOfflineMembers`: all it changes.
Member, participant and room names, settings, payloads and summaries are left
out, and so are the calls that only read.

**`PartyContract`** is what the rest of the program needs of it: a room is a set
of people that plays numbered matches, one at a time, and nobody comes or goes
while one runs. `PartyStore!KeepsContract` maps rooms by their internal id.

**`PokerTable`** is `poker.Table`: one record `table`, an action per move. The
cards are abstracted to `strength`, the order in which the players' hands
compare; any weak order may come out, chosen at the step that reaches the
showdown. `Advance` folds the recursion of `advance` (streets dealt out when
nobody can bet) into one expression. Action texts, the log and the bot's
memory of moves are left out.

**`PokerHand`** is what the service sees of a table: idle, somebody with chips
to act, or done. `PokerTable!IsAHand` shows that the table implements it.

**`PokerRoom`** is `poker.Service` with the store, an abstract table and the
database. A request and a tick each run under the service's lock: one action
each. `Poll` is the `state` request and any request that is refused, because
both mark the member as seen and online. `view[m]` is the last state that
reached the client; a request based on an old one is a late or repeated
request. `SavePending` has the three outcomes of a save: recorded, failed, and
recorded but reported as failed. Clocks are the variables `clock` (now against
`moveAfter` and `deadline`), `seen` (15 s and 90 s) and `retry` (5 s).
Its parts of `PartyStore`'s operations are written over the same records, since
one request performs several of them at once. `Absentees`, a bound, are the members who
may stay away for long. `StoreClock` lets the store's grace pass only
while a hand or a settlement is on and for a member who is gone by the service's
clock already: a timing assumption, not a guard of the code. Both clocks count 90 s,
the store's from the moment the service marked the member offline, 15 s after its
own; in an idle room the ticker takes the seat first.
A request is atomic although it calls the store several times; the store's
other user, the lobby, can in the code come in between (see the plan). Between
the end of a hand and the next tick it does come in here: the store then gives up
a seat without the table taking notice, and the next hand is refused until the
host goes back to the waiting room.

**`WhoIsAI`** is one room of `internal/game`: its seats (`room.go`) and its
rules (`service.go`). The store's lock is held throughout each call, so each is
one action. `position` maps the seated players to `Player.Position`, `evil` is
the part of `Roles` the rules look at, `sub` is `MissionSubPhase`, `lastTeam`
the team of the last entry of `VoteHistory`. A vote of `"none"` is an absent
key of `TeamVotes` or `MissionVotes`. `RefusedStart` is the one refused call
that changes something: `StartGame` has dropped the absent players before it
counts the others. AI players vote within `TeamVote` and `MissionVote`, as in
the code. `match` is history. Requests and timers are not told
apart: the service cannot tell either, and may be called by a timer at any
moment, so any call may come at any time its guards allow. `AddAIPlayer` does not
look at the mode or the status either; only the automatic fill of a test room
calls it, so it is enabled where such rooms exist. Chat, stances, possession,
scenarios, deadlines and the pause of the debug countdown do not influence who
wins and are left out.

**`GameLife`** is what the rest of the server sees of such a room: who sits at
the table, who is offline, and whether the game is waiting, on or over. What is
played and who the AI players are is left open. `ahead` holds the pairs of people of
whom the one sits before the other, all that is asked of their order.
`WhoIsAILife` maps the rules to it: `ahead` follows from their positions. The host
is the first person online, and an empty name when nobody is; `rematch` and the AI
fill compare it with the name of the connection, which is empty too before it has
joined (`server.go:434-440`), so `Nobody` may ask for both.

**`GameTimers`** adds to `WhoIsAI` what moves a game when its people do not
(`scheduleAfterEvents` and the `schedule...` functions of `server.go`). A timer is
a record of its kind, the round and what it was armed for (leader or team); a bag
holds those that are armed, since the same may be armed twice. Nothing in the code
cancels a timer, so none is removed but by firing, and it may fire arbitrarily
late. A job is a goroutine or handler between two calls of the game's store: the
events of a call are turned into timers by a later read of the room
(`ArmTimers`); a timer that fires reads the room (`Fire`) and moves for the
people it saw missing one call at a time (`VoteFor`, `ActFor`), stops when one of
its moves resolves the poll, and arms what comes next. `emitGameStart` arms the
first timer of a game with the events of `StartGame`, and only when the platform
has accepted the game. `served` says whether it did: `"yes"` as the game began, or
somebody has nominated a team since, which arms timers of its own; `"late"` when it
refused at first and accepted the game when the host started it once more
(`StartAgain`). `StartGame` has no events for a game that is on, so such a game
waits for its people, without a timer, until a first nomination.
The module covers the normal mode. In the others the debug panel may pause the
countdown for ever or skip a stage, and nothing can be promised.

**`DuelService`** is `duel.Service`, one operator per critical section of its
lock; the caller's copy of the room is an argument, as in the code.
**`DuelRoom`** composes it with the store: `duelReady`, `startDuel`,
`duelCancelReady` and `leaveRoom` are sequences of steps, one per call of store or
service, and `requests` holds where each handler is and which copies it has taken.
The handler of `startDuel` reads the room (`Look`), readiness (`Check`) and settings
(`Freeze`), opens a session, starts and plays the match, commits its snapshot and
finishes or abandons the session. The simulation is a choice: a result, or a
refusal of its input. Arriving, losing a connection and the lobby are each one
call of the store, followed by nothing that matters here: one action.
What the module says holds within the handlers of duels. The host may switch a
room between a duel and "Who is AI"; `resetRoom` (`server.go:418-432`),
`commitAndEmitSnapshot` (391, 982-1025) and `finishPlatformSession` (968-980) of the
game that was left then act on whatever session the room plays. They are left out
here, and with them the version conflict by which they could refuse a duel's
snapshot: `MatchesAreKept`, `FinishedMatchesHaveResults` and `MatchesEnd` are not
shown for a room into whose duel they come.

**`GameSessions`** composes `GameLife` with the store: `joinRoom`, `leaveRoom`,
`startGame`, `resetRoom`, `rematch`, `selectGame`, `disconnect` and the moves of a
game call the one and then the other, and `commitAndEmitSnapshot` reads a version,
reads the game and commits. `handlers` holds where each actor's handler is.
One person's requests are handled in order; `Clock` is the timers' handlers,
taken together. `edits` numbers the states of the game, so that a snapshot can be
told from an older one. One simplification: the public and the private part of
a snapshot are read at once (the code reads them one after another under the
game's lock, each time anew). A host may start a game that is on once more
(`StartsAgain`): the handler then goes on to the platform with a copy of the room,
and the game may end meanwhile. `serves` is the match that a session was opened
for, 0 if none was on any more when it was. Requests that carry no session id are accepted by
`validateActiveSession`, so its gate takes no behaviour away.

The `...Proofs` modules hold the proofs, the `MC...` modules the instances.
Definitions such as `ReleaseWithoutPromotion` are plausible bugs of the
definition that follows them; no specification uses them. They show that the
properties can fail: with the faulty definition TLC refutes the property.

## Runs

| Run | What it asks | Bounds, and why they are enough |
| --- | --- | --- |
| `PartyStore_rooms` | hosts, seats, capacity, line-up and the event ledger under all orders of coming, going and playing | three people: a host, a successor and a bystander; three games: one too small, one large enough, one not offered; one match with two snapshots and two events, so that an action is repeated and a snapshot comes late |
| `PartyStore_sessions` | links and numbers of sessions; the contract | two codes, two ids, two sessions: a code is reused, rooms coexist |
| `PokerTable_hands` | betting order, legality of bot raises, pots and side pots, chips over two hands, the abstract hand, progress | blinds 1 and 2 for 10 and 20. Four seats with nine chips, for every division: three layers, a folded contributor in any of them, ties of up to four. Three seats with twelve: stacks below, at and above every threshold of the code (blind, minimum raise, all-in); in the second hand players are broke, or two are left |
| `PokerRoom_hands` | hands, sessions, records, stale requests | two people, or one and a bot; three deals or moves, so that a request may be late by a turn or by a hand; the last move ends its hand |
| `PokerRoom_seats` | is an abandoned seat freed while others play on; does every settlement complete | two people, one of whom may stay away for good while the other acts, deals the next hand before a tick sees the last one end, leaves or returns to the waiting room; four deals or moves and six versions: two hands, both of them played |
| `WhoIsAI_game` | polls, score, line-up, sabotage over two games, in the normal and the debug mode | two people and two AI players, three to a table: polls of two people, of people and AI players, and with one of them away; a human or an AI infiltrator; AI players who come in during a game; the line-up changes between games; three rounds, two missions to win and two rejections scale 5, 3 and 5; a finished game takes late votes up to four results and three rejections |
| `DuelRoom_matches` | keepers, results and ends of duels | two people, two duel games and two handlers at a time, three in all: both players ready at once, a third handler that leaves or cancels between any two steps of a match, a second match; four arrivals, departures or changes of the game, two of which it takes to fill the room |
| `GameTimers_stages` | is every stage timed, does the game end without people | one game of two at the table: two people, or one and an AI player; two rounds, teams of one and two, two rejections, so that a team is rejected, a leader changes within a round and a mission is voted on by one and by two. People move while at most one timer is armed, and a handler begins while at most one other is under way: two handlers overlap, and timers of earlier stages lie about |
| `GameSessions_matches` | do game and platform agree, do snapshots go forward, does a game that is over end its sessions | two people, the timers and up to two matches in one code, whose room may die and be founded again; five changes of the game: join, start, two moves (two handlers that build snapshots, or both see the end) and a rematch or a departure; a third session for a start that is repeated |
| `WhoIsAI_flip` | *refuted*: the winner of a finished game stays | one game |
| `DuelRoom_frozen` | *refuted*: a match is played with the configurations its session froze | two people with two configurations of one game |
| `GameSessions_settled` | *refuted*: a game that is over, with no handler under way, leaves no session | two people and the timers, a room for this game only, one match; a second session for the start that is repeated |

Deadlock is not checked where a system stops by its bounds: the table when one
player has all the chips and after `MaxHands`, duels when the bounded requests
and arrivals are used up, sessions after `MaxEdits`.

Four invariants say in one what belongs together, with the types of the
module: `HandsAreKept`, `MatchesAreKept`, `GamesAreTimed` and `RoomsAgree`.

What the passing runs of the composed modules show:

* *Duels.* However two matches race, one handler keeps each running session from
  its opening to its end; a refused start or snapshot abandons it. A finished
  session has a result of its own participants, with configurations made for
  the game that was played. This covers a `RemovePlayer` that comes so late that
  its player has returned and plays.
* *Timers.* A stage of a game that the platform accepted as it began, or in which a
  person has nominated a team, always has a timer that will find it on,
  or a handler that will move it or arm that timer, though the leader and the team of a timer
  are read after the call that announced the stage. So the review's “任务行动超时默认执行，不会卡死房间”
  (`docs/reviews/multi-agent-game-experience-2026-07-20.md:137`) holds of every
  stage of such a game, not only of missions: `GamesEnd` needs no move of a person.
* *Sessions.* Nobody takes or gives up a seat in only one of the two stores
  while the match of a session is on; of two snapshots built at the same time
  the older never replaces the later; and a game that is over ends every session
  that its room opened while it, or an earlier one, was on.
* *Seats.* A seat that is abandoned in the middle of a hand is freed although
  whoever stays may deal the next hand as soon as one is done
  (`service.go:357-366` does not ask who is away) and settlements fail.

The refuted properties are statements of the documentation.

* `OutcomeIsFinal`: README.md:134 says that the first side with three missions has
  won. `MissionVote` does not look at the status, and the phase of a finished game
  is still `mission`: a further vote of the last team, from a repeated request or a
  timer, appends a result and may announce the other side.
* `PlayedAsFrozen`: README.md:140 and the architecture document, line 193, say
  that the configurations are frozen in the session's settings when both players are
  ready. `SessionSettings` copies them, but `Start` reads them again after the session is
  open; a player who is ready may ready anew with another configuration between the
  two (`Ready` refuses only while a duel runs).
* `SettledGamesHaveNoSession`: line 237 says that settlements are kept in step with
  the platform's sessions. A repeated start of a game that is on holds a copy of it;
  when the last vote ends the game and its session in between,
  `ensurePlatformSession` opens a session for a game that is over, and the room is
  closed until somebody reconnects, the host resets it or another game ends.

Three more statements of the documents do not hold of the code. The modules contain
the behaviour, and no property is about it:

* README.md:131 says that five rejections in a row lose a game. `StartGame` does not
  set `RejectStreak` back (`service.go:95-112`): a game that is started over one lost
  by rejections is lost at its first rejected team (`WhoIsAI!StartGame` leaves
  `streak` as it is).
* The architecture document, lines 46 and 178-179, ends the old session at a rematch
  and creates a new one. `rematch` does neither: after one in the middle of a game
  the next game is played in the old session (`GameSessions!Rematch`, `Ensure`).
* Lines 170-174 create the session and make it the room's before anything is
  announced. `emitGameStart`
  starts the game first; when the platform then refuses (a joiner who has a seat in
  the game but not yet in the platform, another host after a connection was lost,
  another selected game), the game stays on without session, snapshots and timers
  until a further start of the host opens a session (`service.go:71-73`,
  `server.go:866`), still without timers, or the host resets or rematches.

Behaviour that the models contain and no document forbids, so that no property
is about it: events may be appended to an ended session; a timed vote overwrites one
that was cast after the timer read the room; a snapshot that loses against another is
not built again; a game that the platform accepts only at a repeated start has no
timer until a team is nominated; somebody who has joined no room may rematch a game
whose people are all offline; the
second of two racing `startDuel` calls may, once the first has finished, play the
same configurations again.

**Fairness.** Requests are never fair: no person need do anything.
`PokerRoom!FairSpec` assumes the ticker, the passing of the turn and
retry times, and strong fairness of a successful save: a settlement that is
retried for ever succeeds at last, that is, the database is not down for ever
(without that no settlement can be promised). It assumes strong fairness of the
tick that takes an abandoned seat too (`Reclaim`): that tick finds nothing to take
while a hand is on, and the other player may deal the next hand between the end of one
and the tick; the ticker looks five times a second, and nobody asks for the next hand
within 200 ms of the end of every hand for ever. In the run the deals are bounded, so
that weak fairness would do there; without the bound it would not. `DuelRoom!FairSpec` and
`GameSessions!FairSpec` assume that a handler that has begun takes its next step:
it runs in a goroutine and waits for nothing but the locks, which every call
gives back. `GameTimers!FairTimersSpec` assumes the same of the timers' handlers
together, and that armed timers go on firing: `waitRoomDelay` counts down in a
loop of its own and ends, since nobody can pause it in the normal mode.

## Proofs

All theorems hold for every value of the constants that the modules' assumptions
allow: any finite number of people, rooms, sessions and handlers, any catalogue,
any table and team sizes, blinds and stacks, and any values of the bounds.

**Store.** `PartyStoreProofs` proves the invariants the store's runs check and
its three action properties; `PartyContractProofs` proves that the store
implements the contract. The invariants are not inductive by themselves. That
sessions belong to rooms needs that an active session is running, that two rooms
never share an id or a session, and that ids of rooms that died are not taken
again; that a successor exists when the host leaves needs that `elders` orders
the members of a room; dense numbers need that the sessions of a room form a
finite set whose greatest number is its size. `SoundRoom` gathers what holds
within one room, the link invariant what holds between rooms and sessions; each
is shown preserved by each action, with lemmas about `NextSeat`, `Successor` and
`Release` used by all actions that change a roster. The ledger needs only that
ids handed out stay below `nextEventID` and that every recorded key is in
`actionIDs`. That the host passes to an online member if there is one is a lemma
about `Release`, carried through the expiry, which releases several at once.

**Table.** `PokerTableProofs` proves all that the table's run checks. `TableInv` says that a table is in one of two conditions. Either it is
somebody's turn (`Turn`): those who are waited for are live and have chips
(`Waits`), the others who can act have matched the bet (`Matched`), and the pot
is the sum of what was put in (`Booked`). Or it is between hands (`Rests`): nobody
is to act, the pot is empty, and the payouts of a hand that is done are `Settled`.
The invariants of the run are read off it; they are not inductive one by one, since
the payouts of a settlement are fair only because the bets before it were booked
and matched. One lemma says what `Advance` may lead to (`AdvanceLeads`: a turn, or
streets dealt out up to a showdown), another what a settlement leaves (`FinishEnds`).
That a settlement pays out the pot to the last chip adds up side pots: the height
of a layer times those who reach it, over the layers, is what everybody put in
(`LayersAddUp`, `PoolIs`), and a layer is paid out whatever the remainder
(`LayerIsPaidOut`, by the rank of the winners after the dealer). Sums over finite
sets are defined by recursion on the set. What is proved of them by
induction is proved with a least counterexample (`SmallestSubset`,
`LeastNatural`, from the well-foundedness of the order), since the provers cannot
use the library's induction theorems. `HandsShorten` and conservation follow from
the same lemmas about moves; `TableIsAHand` shows that a table is the abstract hand the
service is modelled with.

**Composed modules.** `PokerRoom`, `DuelRoom` and `GameSessions` work on the
store's records. Their proofs instantiate `PartyStoreProofs`, prove its
assumptions for their constants (`StoreAssumptions`) and show that what they do
to the records is a sequence of the store's operations; what is proved of the
store then holds in them and is part of their invariants. In the two that
split their handlers at the locks every step is one operation of the store or none:
`HandlersImplementStore` proves that they implement its specification, from which
follow `RostersStayFrozen` and `MatchesStaySealed`.

`PokerRoomProofs`: `PokerInv` adds to the properties of the run that a settlement
that waits is of the room's own session and result, and recorded as this result
or not at all (`Settles`); that the session of a hand in play is the room's and seats its
players (`HasSession`); that two rooms never show the same session; and, for
`ActionsMeetTheirTurn`, that a version a client has seen tells whether it is
still the same turn as long as the room shows the same session (`ViewsAreDated`).
The last is why the code compares the version and the session.

`DuelRoomProofs`: `DuelInv` says what a handler still knows between two of its
calls (`HandlersFit`): the room whose session it opened plays that session
for the people it saw online (`Holds`), though others come and go
around it; and that each running session has exactly one such handler (`OneHolder`).
A result is published by that handler only, between `Commit` and `Finish`.

`GameSessionsProofs`: `SessionsInv` says that every session that was opened for the
match that is on, and every handler that may still open one, knows the people at
the table (`SeatsFit`), so that it does not matter how many of them a repeated start
makes; and that a handler which is
building a snapshot, and whose version is still the session's, has read a state of the
game not older than the one shown (`SnapshotsFit`). The last makes the comparison
of versions in `CommitSnapshot` sufficient although the game has a lock of its own.
`TimersTell` says where the timers' handler may be. The supplies of ids must not
run out, or a handler would stop where the code goes on: `SuppliesSuffice` asks
for a session for each match and a room id more, `StartsAgain` is bounded by the
ids that are left, and `IdsSuffice` counts: an unused one remains for every handler
that may open a session and for every match to come.

**Who-is-AI.** `WhoIsAIProofs` proves the invariants that the game's runs check and
`HonestTeamsSucceed` for any number of players, rounds and missions. The
properties of the polls and the score are inductive together with two facts: a
running game has somebody human at the table and, beyond the nomination, a team
with somebody on it (`Manned`); and every sabotage in the current mission is an
infiltrator's on the team (`DeedsAreHonest`). An open poll then follows by
counting: fewer votes than voters leave a voter without a vote, since the votes
are a finite set. `GameIsStaffed` is inductive with the types. It allows for the
automatic fill, which may seat an AI player after the roles are dealt: such a
player has a vote but no role. Table sizes, team sizes and role counts are constants of
which only `RulesAreSound` is assumed.

The last part of the module proves that the rules implement `GameLife`, one step for one
step or none. Two invariants are needed beside the types. `PlacesAreFew`: no
position reaches the number of players, so that whoever joins sits behind everybody,
although a position is only a count at the time of joining; that the players are
seated anew when somebody leaves is what keeps it. `NoGameHasNoPhase`: a phase is
open only in a game that is on or over, so that a vote does not end a game that
has not begun. Reseating keeps the order of those who stay (`ReseatedKeepsOrder`). A rematch
or a fill that is asked for without a name needs that in both specifications
nobody is online (`NobodyHosts`).

**Timers.** `TimersKeepRules` of `GameTimersProofs` shows that every step of `GameTimers` is a
step of the rules or none, so that `GameInv` and `GameIsStaffed` hold there. `GamesAreTimed` is
inductive together with them (`TimersInv`); it speaks of games with `served = "yes"`,
which a repeated start does not change: each handler that is in charge of a stage
moves it and announces the next, hands it on to what is left of its errand, or
finds that it was not in charge; a stage that goes on stays in the charge of
whoever had it, as only votes are added to it (`SameStage`). Three of the steps need more:

* the last of several people for whom a handler votes resolves the poll, so that no errand
  in charge runs out (`RestVotes`, `RestActs`); this is `PollsAreOpen` again;
* a team is nominated for an absent leader that the rules cannot refuse
  (`RotatingTeamFits`). `rotatingTeam` takes as many as the round asks for, since of
  k different places in a row the first n are taken by n players
  (`FirstOnesCount`, and no rotation lets two players meet: `TurnedPlacesDiffer`). The
  places are those of a list with the connected first (`Listed`), in which no two meet
  (`ListRanks`) because no two have the same seat (`PlacesDiffer`). It needs, too, a
  number of players that the rules are made for (`TableFits`), and a table of team sizes
  that asks for no team larger than that
  (`TeamsFitTables`, the one assumption added, true of the table in `service.go:37`);
* a mission is in one of its two sub-phases (`MissionHasSubPhase`), or no timer would
  be armed for it.

**Only model-checked.** The liveness properties,
`AbandonedSeatsAreFreed`, `SettlementsComplete`, `MatchesEnd`, `GamesEnd`
and `FinishedGamesEndSessions`: liveness under fairness, and ENABLED, are out
of the prover's reach. That a hand of the table ends is stated without liveness:
every move brings its end nearer (`HandsShorten`).

## Plan

1. Done: `PartyStore`, `PartyContract`; `PokerTable`, `PokerHand`; `PokerRoom`;
   `WhoIsAI`, `GameLife`; `DuelService`, `DuelRoom`; `GameTimers`;
   `GameSessions`; proofs of all of their invariants and refinements.
2. `HandRank`: `evaluate`, `five` and `compare` of the table against a reference
   definition.
3. `PokerRoom` with requests split at the calls of the store.
4. The debug panel (`debugSkipPhase`, `debugSubmitTeamVotes`, the pause) and the
   automatic fill in `GameTimers`.

## Not modelled

The race and sumo simulations (floating point, no state between calls), the
demo server around them, the AI client (one HTTP call), start-up and
configuration, the browser client (it appears as the environment), the history
queries and migrations of the database, and which move a bot prefers. Of the
realtime server: chat, stances, possession and AI conversation, the debug panel,
the automatic fill of test rooms, resume tokens and the map from players to
sockets (of two connections of one person the later counts), encoding and
emission. In `DuelRoom` and `GameSessions` each person has one connection at a
time, and a connection that is lost while the same person rejoins over another
is not modelled. A restart of the process drops all rooms and sessions; what survives are the
recorded hands.
