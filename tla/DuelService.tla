---------------------------- MODULE DuelService ----------------------------
(***************************************************************************)
(* The duel service (internal/duel/service.go Service): what the two       *)
(* players of a room have chosen, who is ready and the last result.  A     *)
(* caller passes the room as it read it from the store, earlier and under  *)
(* another lock: "room" below is such a copy, with its code, host, game,   *)
(* members and those of them who are online.  Each operator is one         *)
(* critical section of the service's mutex.                                *)
(***************************************************************************)
EXTENDS Naturals, FiniteSets, Functions

CONSTANTS Codes, Members, SessionIds, NoSession,
          DuelGames,   \* the games played as duels
          Styles,      \* ways to set up a contestant
          NoDuel,      \* the service knows nothing of a room
          NoResult

VARIABLE duels   \* state kept under each code, or NoDuel

Copy == [code : Codes, host : Members, game : DuelGames,
         members : SUBSET Members, online : SUBSET Members]

\* A configuration is checked against its game (ValidateConfig).
Config == [game : DuelGames, style : Styles]
Choices == UNION {[people -> Config] : people \in SUBSET Members}

\* What a match played: its game and the configuration of each contestant.
Match == [game : DuelGames, lineup : Choices]

\* "configs" has an entry for exactly the players who are ready: the code sets
\* and deletes the two maps together.
RoomState == [game : DuelGames, phase : {"configuring", "running", "finished"}, round : Nat,
              session : SessionIds \cup {NoSession}, configs : Choices,
              result : Match \cup {NoResult}]

DuelsOK == duels \in [Codes -> RoomState \cup {NoDuel}]

NoChoices == [m \in {} |-> {}]

Fresh(game) == [game |-> game, phase |-> "configuring", round |-> 0, session |-> NoSession,
                configs |-> NoChoices, result |-> NoResult]

\* The state a call works on: begun afresh when the copy names another game.
EnsuredRoom(room) ==
  IF duels[room.code] # NoDuel /\ duels[room.code].game = room.game THEN duels[room.code]
  ELSE Fresh(room.game)

Reset(stored) == [Fresh(stored.game) EXCEPT !.round = stored.round]
Without(choices, m) == Restrict(choices, DOMAIN choices \ {m})

BothReady(room, stored) ==
  /\ stored # NoDuel /\ stored.game = room.game
  /\ Cardinality(room.members) = 2
  /\ room.members \subseteq room.online \cap DOMAIN stored.configs

\* State and SessionSettings see the state as it is and create none.
IsReady(room) == BothReady(room, duels[room.code])
Settings(room) == [game |-> room.game, lineup |-> duels[room.code].configs]

Accepts(room, m) == m \in room.members /\ EnsuredRoom(room).phase # "running"

\* Ready: the first choice after a result begins the next round.
Readied(room, m, config) ==
  LET stored == EnsuredRoom(room)
      open == IF stored.phase = "finished" THEN Reset(stored) ELSE stored
  IN  [open EXCEPT !.configs = [p \in DOMAIN @ \cup {m} |-> IF p = m THEN config ELSE @[p]]]

Cancelled(room, m) == LET stored == EnsuredRoom(room)
                      IN  [stored EXCEPT !.configs = Without(@, m)]

\* RemovePlayer: a result does not outlive one of its players.
Removed(c, m) ==
  IF duels[c] = NoDuel THEN NoDuel
  ELSE IF duels[c].phase = "finished" THEN Reset(duels[c])
  ELSE [duels[c] EXCEPT !.configs = Without(@, m)]

\* Start up to its unlock; whether it is refused, and what it plays otherwise.
Startable(room) == LET stored == EnsuredRoom(room)
                   IN  stored.phase # "running" /\ BothReady(room, stored)
Begun(room, s) == [EnsuredRoom(room) EXCEPT !.phase = "running", !.session = s, !.round = @ + 1]
Lineup(room) == [game |-> room.game, lineup |-> Restrict(EnsuredRoom(room).configs, room.members)]

\* Start after the simulation.  The state it works on is the stored one unless
\* a copy with another game has replaced it in the meantime.
Keeps(c, s) == duels[c] # NoDuel /\ duels[c].session = s
Settled(c, match) == [duels[c] EXCEPT !.phase = "finished", !.result = match]
Failed(c) == [duels[c] EXCEPT !.phase = "configuring", !.session = NoSession]
=============================================================================
