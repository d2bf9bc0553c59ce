--------------------------- MODULE DuelRoomProofs ---------------------------
(***************************************************************************)
(* Proofs about DuelRoom, for any numbers of people, rooms, duel games and *)
(* handlers.  The handlers use the store of rooms by its own operations,   *)
(* so that what is proved of the store (PartyStoreProofs) holds here too.  *)
(* On top of it, what a handler that has opened a session knows stays true *)
(* until the handler itself ends the session (Holds), and no two handlers  *)
(* hold the same one.                                                      *)
(***************************************************************************)
EXTENDS DuelRoom, FiniteSetTheorems, TLAPS

P == INSTANCE PartyStoreProofs WITH
  Games <- DuelGames, Actors <- {}, ActionIds <- {}, NoAction <- NoResult,
  MaxVersion <- 1, MaxEvents <- 0,
  events <- {}, actionIDs <- [s \in SessionIds |-> {}], nextEventID <- 0

-----------------------------------------------------------------------------
(* The inductive invariant *)

Typed ==
  /\ DuelsOK
  /\ frozen \in [SessionIds -> Match \cup {NoResult}]
  /\ published \in [SessionIds -> Match \cup {NoResult}]
  /\ requests \in [Requests -> Request]
  /\ trips \in 0 .. MaxTrips /\ asked \in 0 .. MaxRequests

\* What a handler has read, once it has read anything.
Read(q) ==
  /\ q.at # "idle" => q.room \in Copy /\ q.room.online \subseteq q.room.members
  /\ q.at = "ready" => /\ q.member \in Members
                       /\ q.data \in Config /\ q.data.game = q.room.game
  /\ q.at = "open" => q.data \in Match

\* A handler between the opening and the end of its session: the room still
\* plays that session, for the people the handler saw online.
Holds(q, held, ongoing) ==
  LET c == q.room.code
  IN  /\ q.session \in SessionIds
      /\ ongoing[q.session] # NoSession
      /\ ongoing[q.session].status = "running"
      /\ ongoing[q.session].humans = q.room.online
      /\ held[c] # NoRoom /\ held[c].active = q.session

IsResult(match, people) ==
  /\ DOMAIN match.lineup = people
  /\ \A m \in people : match.lineup[m].game = match.game

\* The handler's session has a result exactly from Commit to Finish.
Plays(q, results) ==
  /\ q.at = "finish" => results[q.session] # NoResult
  /\ q.at \in Holding \ {"finish"} => results[q.session] = NoResult
  /\ q.at \in {"play", "commit"} => q.data \in Match /\ IsResult(q.data, q.room.online)

HandlersFit ==
  \A r \in Requests :
    /\ Read(requests[r])
    /\ requests[r].at \in Holding =>
         Holds(requests[r], rooms, sessions) /\ Cardinality(requests[r].room.online) = 2
    /\ Plays(requests[r], published)

Holder(s, r) == requests[r].at \in Holding /\ requests[r].session = s

OneHolder ==
  /\ \A s \in SessionIds : Store!Exists(s) /\ sessions[s].status = "running" =>
       \E r \in Requests : Holder(s, r)
  /\ \A s \in SessionIds, q, r \in Requests : Holder(s, q) /\ Holder(s, r) => q = r

ConfigsMatchGame ==
  \A c \in Codes : duels[c] # NoDuel =>
    \A m \in DOMAIN duels[c].configs : duels[c].configs[m].game = duels[c].game

ResultsFit ==
  \A s \in SessionIds :
    /\ Store!Exists(s) /\ sessions[s].status = "finished" => published[s] # NoResult
    /\ published[s] # NoResult =>
         /\ Store!Exists(s) /\ sessions[s].status \in {"running", "finished"}
         /\ IsResult(published[s], sessions[s].humans)

DuelInv == /\ P!IInv /\ P!LedgerInv
           /\ Typed /\ HandlersFit /\ OneHolder
           /\ ConfigsMatchGame /\ ResultsFit /\ RunningMatchesAreReal

-----------------------------------------------------------------------------
(* The store as DuelRoom uses it and the store that was proved correct *)

LEMMA StoreAssumptions ==
  /\ P!IsFiniteSet(Members) /\ P!IsFiniteSet(SessionIds)
  /\ Catalogue \in [DuelGames -> P!GameEntry]
  /\ \A g \in DuelGames : Catalogue[g].min <= Catalogue[g].max
  /\ 1 \in Nat /\ 0 \in Nat
  /\ NoSession \notin SessionIds \cup P!Session
  /\ \A people \in SUBSET Members : NoRoom \notin P!RoomOf(people) /\ NoSession # people
<1>1. P!IsFiniteSet(Members) /\ P!IsFiniteSet(SessionIds)
  BY FiniteSupplies DEF P!IsFiniteSet, IsFiniteSet
<1>2. /\ Catalogue \in [DuelGames -> P!GameEntry]
      /\ \A g \in DuelGames : Catalogue[g].min <= Catalogue[g].max
  BY DEF Catalogue, P!GameEntry
<1>3. NoSession \notin SessionIds \cup P!Session
  BY NullsAreDistinct DEF P!Session, Store!Session
<1>4. \A people \in SUBSET Members : NoRoom \notin P!RoomOf(people) /\ NoSession # people
  BY NullsAreDistinct
  DEF P!RoomOf, Store!RoomOf, P!Member, Store!Member, P!Connections, Store!Connections
<1> QED
  BY <1>1, <1>2, <1>3, <1>4

LEMMA SameHelpers ==
  /\ \A members : Store!NextSeat(members) = P!NextSeat(members)
  /\ \A room, gone : Store!Release(room, gone) = P!Release(room, gone)
  /\ \A id : Store!NextSequence(id) = P!NextSequence(id)
<1>1. ASSUME NEW members PROVE Store!NextSeat(members) = P!NextSeat(members)
  BY DEF Store!NextSeat, P!NextSeat, Store!Min, P!Min, Store!Cardinality, P!Cardinality
<1>2. ASSUME NEW room, NEW gone PROVE Store!Release(room, gone) = P!Release(room, gone)
  BY DEF Store!Release, P!Release, Store!Roster, P!Roster, Store!PromoteHost, P!PromoteHost,
     Store!Successor, P!Successor
<1>3. ASSUME NEW id PROVE Store!NextSequence(id) = P!NextSequence(id)
  BY DEF Store!NextSequence, P!NextSequence, Store!Max, P!Max, Store!Sequences, P!Sequences,
     Store!SessionsOf, P!SessionsOf, Store!Exists, P!Exists
<1> QED
  BY <1>1, <1>2, <1>3

LEMMA SameRoomOperations ==
  ASSUME NEW c, NEW m
  PROVE  /\ \A g, id : Store!CreateRoom(c, m, g, id) => P!CreateRoom(c, m, g, id)
         /\ Store!Rejoin(c, m) => P!Rejoin(c, m)
         /\ Store!Enter(c, m) => P!Enter(c, m)
         /\ Store!LeaveRoom(c, m) => P!LeaveRoom(c, m)
         /\ \A conn : Store!SetConnection(c, m, conn) => P!SetConnection(c, m, conn)
         /\ Store!GraceElapses(c, m) => P!GraceElapses(c, m)
         /\ Store!ExpireOfflineMembers => P!ExpireOfflineMembers
         /\ \A g : Store!SelectGame(c, m, g) => P!SelectGame(c, m, g)
<1> USE DEF Store!Idle, P!Idle, Store!Open, P!Open, Store!Exists, P!Exists,
            Store!Roster, P!Roster, Store!ledger, P!ledger
<1>1. ASSUME NEW g, NEW id, Store!CreateRoom(c, m, g, id) PROVE P!CreateRoom(c, m, g, id)
  BY <1>1 DEF Store!CreateRoom, P!CreateRoom, Store!FreshRoomId, P!FreshRoomId,
     Store!SessionsOf, P!SessionsOf
<1>2. Store!Rejoin(c, m) => P!Rejoin(c, m)
  BY DEF Store!Rejoin, P!Rejoin
<1>3. Store!Enter(c, m) => P!Enter(c, m)
  BY SameHelpers DEF Store!Enter, P!Enter, Store!Cardinality, P!Cardinality
<1>4. Store!LeaveRoom(c, m) => P!LeaveRoom(c, m)
  BY SameHelpers DEF Store!LeaveRoom, P!LeaveRoom
<1>5. ASSUME NEW conn, Store!SetConnection(c, m, conn) PROVE P!SetConnection(c, m, conn)
  BY <1>5 DEF Store!SetConnection, P!SetConnection
<1>6. Store!GraceElapses(c, m) => P!GraceElapses(c, m)
  BY DEF Store!GraceElapses, P!GraceElapses
<1>7. Store!ExpireOfflineMembers => P!ExpireOfflineMembers
  BY SameHelpers DEF Store!ExpireOfflineMembers, P!ExpireOfflineMembers
<1>8. ASSUME NEW g, Store!SelectGame(c, m, g) PROVE P!SelectGame(c, m, g)
  BY <1>8 DEF Store!SelectGame, P!SelectGame, Store!Cardinality, P!Cardinality
<1> QED
  BY <1>1, <1>2, <1>3, <1>4, <1>5, <1>6, <1>7, <1>8

LEMMA SameSessionOperations ==
  ASSUME NEW c, NEW s
  PROVE  /\ \A m, humans : Store!StartSession(c, m, humans, 0, s)
                            => P!StartSession(c, m, humans, 0, s)
         /\ \A status : Store!EndSession(c, status) => P!EndSession(c, status)
         /\ Store!CommitSnapshot(s, 0) => P!CommitSnapshot(s, 0)
<1> USE DEF Store!Idle, P!Idle, Store!Open, P!Open, Store!Exists, P!Exists,
            Store!Roster, P!Roster, Store!ledger, P!ledger
<1>1. ASSUME NEW m, NEW humans, Store!StartSession(c, m, humans, 0, s)
      PROVE  P!StartSession(c, m, humans, 0, s)
  BY <1>1, SameHelpers DEF Store!StartSession, P!StartSession, Store!Cardinality, P!Cardinality
<1>2. ASSUME NEW status, Store!EndSession(c, status) PROVE P!EndSession(c, status)
  BY <1>2 DEF Store!EndSession, P!EndSession
<1>3. Store!CommitSnapshot(s, 0) => P!CommitSnapshot(s, 0)
  BY DEF Store!CommitSnapshot, P!CommitSnapshot
<1> QED
  BY <1>1, <1>2, <1>3

-----------------------------------------------------------------------------
(* What a step does to the store *)

\* A step that leaves every running match in its room.
SparesMatches ==
  /\ UNCHANGED sessions
  /\ \A c \in Codes : rooms[c] # NoRoom /\ rooms[c].active # NoSession =>
       rooms'[c] # NoRoom /\ rooms'[c].active = rooms[c].active

LEMMA RoomStepSpares ==
  ASSUME P!IInv, P!RoomStep
  PROVE  SparesMatches
BY StoreAssumptions, P!SoundRoomIsARoom
  DEF P!RoomStep, P!Evolves, P!Idle, P!Open, SparesMatches

\* Coming, going, connections, the lobby and the choice of a game.
LEMMA RoomOperationsSpare ==
  ASSUME P!IInv, NEW c \in Codes, NEW m \in Members,
         \/ \E g \in DuelGames, id \in RoomIds : Store!CreateRoom(c, m, g, id)
         \/ Store!Rejoin(c, m) \/ Store!Enter(c, m) \/ Store!LeaveRoom(c, m)
         \/ Store!SetConnection(c, m, "offline")
         \/ Store!GraceElapses(c, m)
         \/ \E g \in DuelGames : Store!SelectGame(c, m, g)
  PROVE  P!Next /\ SparesMatches
<1>1. ASSUME NEW g \in DuelGames, NEW id \in RoomIds, Store!CreateRoom(c, m, g, id)
      PROVE  P!Next /\ SparesMatches
  <2>1. P!CreateRoom(c, m, g, id)
    BY <1>1, SameRoomOperations
  <2>2. SparesMatches
    BY <2>1 DEF P!CreateRoom, P!Open, SparesMatches, P!IInv, P!RoomsAreSound
  <2> QED
    BY <2>1, <2>2 DEF P!Next
<1>2. ASSUME \/ Store!Rejoin(c, m) \/ Store!SetConnection(c, m, "offline")
             \/ Store!GraceElapses(c, m)
      PROVE  P!Next /\ SparesMatches
  <2>1. P!Rejoin(c, m) \/ P!SetConnection(c, m, "offline") \/ P!GraceElapses(c, m)
    BY <1>2, SameRoomOperations
  <2>2. P!RoomStep
    BY <2>1, StoreAssumptions, P!ConnectionStep
    DEF P!Rejoin, P!SetConnection, P!GraceElapses, P!Connections
  <2> QED
    BY <2>1, <2>2, RoomStepSpares DEF P!Next
<1>3. ASSUME Store!Enter(c, m) PROVE P!Next /\ SparesMatches
  <2>1. P!Enter(c, m)
    BY <1>3, SameRoomOperations
  <2> QED
    BY <2>1, StoreAssumptions, P!EnterStep, RoomStepSpares DEF P!Next
<1>4. ASSUME Store!LeaveRoom(c, m) PROVE P!Next /\ SparesMatches
  <2>1. P!LeaveRoom(c, m)
    BY <1>4, SameRoomOperations
  <2> QED
    BY <2>1, StoreAssumptions, P!LeaveStep, RoomStepSpares DEF P!Next
<1>5. ASSUME NEW g \in DuelGames, Store!SelectGame(c, m, g) PROVE P!Next /\ SparesMatches
  <2>1. P!SelectGame(c, m, g)
    BY <1>5, SameRoomOperations
  <2> QED
    BY <2>1, StoreAssumptions, P!SelectGameStep, RoomStepSpares DEF P!Next
<1> QED
  BY <1>1, <1>2, <1>3, <1>4, <1>5

LEMMA ExpirySpares ==
  ASSUME P!IInv, Store!ExpireOfflineMembers
  PROVE  P!Next /\ SparesMatches
<1>1. P!ExpireOfflineMembers
  BY SameRoomOperations
<1> QED
  BY <1>1, StoreAssumptions, P!ExpireStep, RoomStepSpares DEF P!Next

-----------------------------------------------------------------------------
(* The states the duel service keeps *)

Fitting(state) ==
  /\ state \in RoomState
  /\ \A m \in DOMAIN state.configs : state.configs[m].game = state.game

LEMMA DuelsFit ==
  ASSUME DuelInv, NEW c \in Codes, duels[c] # NoDuel
  PROVE  Fitting(duels[c])
BY DEF DuelInv, Typed, DuelsOK, ConfigsMatchGame, Fitting

LEMMA FreshFits ==
  ASSUME NEW game \in DuelGames
  PROVE  Fitting(Fresh(game)) /\ Fresh(game).game = game /\ Fresh(game).phase = "configuring"
<1>1. NoChoices \in Choices /\ DOMAIN NoChoices = {}
  BY DEF NoChoices, Choices
<1> QED
  BY <1>1 DEF Fresh, Fitting, RoomState

\* A call works on a state for the game that its copy of the room names.
LEMMA EnsuredFits ==
  ASSUME DuelInv, NEW room \in Copy
  PROVE  /\ Fitting(EnsuredRoom(room)) /\ EnsuredRoom(room).game = room.game
         /\ \/ EnsuredRoom(room) = duels[room.code] /\ duels[room.code] # NoDuel
            \/ EnsuredRoom(room).phase = "configuring"
BY DuelsFit, FreshFits DEF EnsuredRoom, Copy

LEMMA ResetFits ==
  ASSUME NEW state, Fitting(state)
  PROVE  Fitting(Reset(state)) /\ Reset(state).game = state.game
         /\ Reset(state).phase = "configuring"
<1>1. state.game \in DuelGames /\ state.round \in Nat
  BY DEF Fitting, RoomState
<1>2. Fitting(Fresh(state.game)) /\ Fresh(state.game).game = state.game
      /\ Fresh(state.game).phase = "configuring"
  BY <1>1, FreshFits
<1> QED
  BY <1>1, <1>2 DEF Reset, Fitting, RoomState

LEMMA ReadiedFits ==
  ASSUME DuelInv, NEW room \in Copy, NEW m \in Members, NEW config \in Config,
         config.game = room.game, Accepts(room, m)
  PROVE  Fitting(Readied(room, m, config)) /\ Readied(room, m, config).phase # "running"
<1> DEFINE stored == EnsuredRoom(room)
           open == IF stored.phase = "finished" THEN Reset(stored) ELSE stored
           configs == [p \in DOMAIN open.configs \cup {m} |->
                         IF p = m THEN config ELSE open.configs[p]]
<1>1. Fitting(stored) /\ stored.game = room.game /\ stored.phase # "running"
  BY EnsuredFits DEF Accepts
<1>2. Fitting(open) /\ open.game = room.game /\ open.phase # "running"
  BY <1>1, ResetFits
<1> HIDE DEF open
<1>3. PICK people \in SUBSET Members : open.configs \in [people -> Config]
  BY <1>2 DEF Fitting, RoomState, Choices
<1>4. configs \in [people \cup {m} -> Config]
  BY <1>3
<1>5. configs \in Choices
  BY <1>4 DEF Choices
<1>6. \A p \in DOMAIN configs : configs[p].game = open.game
  BY <1>2 DEF Fitting
<1>7. Readied(room, m, config) = [open EXCEPT !.configs = configs]
  BY DEF Readied, open
<1> HIDE DEF configs
<1> QED
  BY <1>2, <1>5, <1>6, <1>7 DEF Fitting, RoomState

LEMMA WithoutFits ==
  ASSUME NEW state, Fitting(state), NEW m
  PROVE  Fitting([state EXCEPT !.configs = Without(state.configs, m)])
<1> DEFINE left == Without(state.configs, m)
<1>1. PICK people \in SUBSET Members : state.configs \in [people -> Config]
  BY DEF Fitting, RoomState, Choices
<1>2. left \in [people \ {m} -> Config] /\ \A p \in people \ {m} : left[p] = state.configs[p]
  BY <1>1 DEF Without, Restrict
<1>3. left \in Choices
  BY <1>2 DEF Choices
<1>4. [state EXCEPT !.configs = Without(state.configs, m)] = [state EXCEPT !.configs = left]
  OBVIOUS
<1> HIDE DEF left
<1> QED
  BY <1>1, <1>2, <1>3, <1>4 DEF Fitting, RoomState

LEMMA CancelledFits ==
  ASSUME DuelInv, NEW room \in Copy, NEW m, Accepts(room, m)
  PROVE  Fitting(Cancelled(room, m)) /\ Cancelled(room, m).phase # "running"
<1>1. Fitting(EnsuredRoom(room)) /\ EnsuredRoom(room).phase # "running"
  BY EnsuredFits DEF Accepts
<1>2. Cancelled(room, m) = [EnsuredRoom(room) EXCEPT !.configs = Without(EnsuredRoom(room).configs, m)]
  BY DEF Cancelled
<1>3. Cancelled(room, m).phase = EnsuredRoom(room).phase
  BY <1>1, <1>2 DEF Fitting, RoomState
<1> QED
  BY <1>1, <1>2, <1>3, WithoutFits

LEMMA RemovedFits ==
  ASSUME DuelInv, NEW c \in Codes, NEW m, duels[c] # NoDuel
  PROVE  /\ Fitting(Removed(c, m))
         /\ Removed(c, m).phase = "running" =>
              duels[c].phase = "running" /\ Removed(c, m).session = duels[c].session
<1>1. Fitting(duels[c])
  BY DuelsFit
<1>2. CASE duels[c].phase = "finished"
  BY <1>1, <1>2, ResetFits DEF Removed
<1>3. CASE duels[c].phase # "finished"
  <2>1. Removed(c, m) = [duels[c] EXCEPT !.configs = Without(duels[c].configs, m)]
    BY <1>3 DEF Removed
  <2>2. Removed(c, m).phase = duels[c].phase /\ Removed(c, m).session = duels[c].session
    BY <1>1, <2>1 DEF Fitting, RoomState
  <2> QED
    BY <1>1, <2>1, <2>2, WithoutFits
<1> QED
  BY <1>2, <1>3

LEMMA BegunFits ==
  ASSUME DuelInv, NEW room \in Copy, NEW s \in SessionIds
  PROVE  Fitting(Begun(room, s)) /\ Begun(room, s).session = s
<1> DEFINE stored == EnsuredRoom(room)
<1>1. Fitting(stored)
  BY EnsuredFits
<1>2. stored \in RoomState /\ stored.round + 1 \in Nat
  BY <1>1 DEF Fitting, RoomState
<1>3. Begun(room, s) = [stored EXCEPT !.phase = "running", !.session = s, !.round = stored.round + 1]
  BY DEF Begun
<1> HIDE DEF stored
<1>4. /\ Begun(room, s) \in RoomState /\ Begun(room, s).session = s
      /\ Begun(room, s).configs = stored.configs /\ Begun(room, s).game = stored.game
  BY <1>2, <1>3 DEF RoomState
<1> QED
  BY <1>1, <1>4 DEF Fitting

LEMMA PlayedFits ==
  ASSUME DuelInv, NEW c \in Codes, duels[c] # NoDuel, NEW match \in Match
  PROVE  /\ Fitting(Settled(c, match)) /\ Settled(c, match).phase = "finished"
         /\ Fitting(Failed(c)) /\ Failed(c).phase = "configuring"
<1>1. Fitting(duels[c])
  BY DuelsFit
<1> QED
  BY <1>1 DEF Settled, Failed, Fitting, RoomState

\* What Start plays: for everybody in the room, a configuration for its game.
LEMMA LineupIsResult ==
  ASSUME DuelInv, NEW room \in Copy, Startable(room), room.online \subseteq room.members
  PROVE  /\ Lineup(room) \in Match
         /\ room.online = room.members /\ IsResult(Lineup(room), room.online)
<1> DEFINE configs == EnsuredRoom(room).configs
           chosen == Restrict(configs, room.members)
<1>1. /\ Fitting(EnsuredRoom(room)) /\ EnsuredRoom(room).game = room.game
      /\ room.members \subseteq room.online \cap DOMAIN configs
  BY EnsuredFits DEF Startable, BothReady
<1>2. PICK people \in SUBSET Members : configs \in [people -> Config]
  BY <1>1 DEF Fitting, RoomState, Choices
<1>3. /\ chosen \in [room.members -> Config]
      /\ \A m \in room.members : chosen[m] = configs[m]
  BY <1>1, <1>2 DEF Restrict
<1>4. chosen \in Choices /\ room.members \in SUBSET Members /\ room.game \in DuelGames
  BY <1>3 DEF Choices, Copy
<1>5. \A m \in room.members : chosen[m].game = room.game
  BY <1>1, <1>3 DEF Fitting
<1>6. Lineup(room) = [game |-> room.game, lineup |-> chosen]
  BY DEF Lineup
<1>7. room.online = room.members
  BY <1>1
<1> HIDE DEF chosen
<1>8. Lineup(room) \in Match
  BY <1>4, <1>6 DEF Match
<1>9. IsResult(Lineup(room), room.members)
  BY <1>3, <1>5, <1>6 DEF IsResult
<1> QED
  BY <1>7, <1>8, <1>9

LEMMA KeepFits ==
  ASSUME DuelInv, NEW c \in Codes, NEW state, state = NoDuel \/ Fitting(state),
         Keep(c, state)
  PROVE  /\ DuelsOK' /\ ConfigsMatchGame'
         /\ duels'[c] = state /\ \A d \in Codes \ {c} : duels'[d] = duels[d]
BY DEF DuelInv, Typed, DuelsOK, ConfigsMatchGame, Keep, Fitting

-----------------------------------------------------------------------------
(* Handlers that neither open nor end a session *)

LEMMA CopyFits ==
  ASSUME P!IInv, NEW c \in Codes, Store!Open(c)
  PROVE  /\ CopyOf(c) \in Copy /\ CopyOf(c).online \subseteq CopyOf(c).members
         /\ CopyOf(c).code = c /\ CopyOf(c).game = rooms[c].game
<1>1. P!SoundRoom(rooms[c])
  BY DEF P!IInv, P!RoomsAreSound, P!Open, Store!Open
<1>2. /\ rooms[c].host \in Members /\ rooms[c].game \in DuelGames
      /\ Store!Roster(rooms[c]) \in SUBSET Members
  BY <1>1 DEF P!SoundRoom, P!RoomOf, P!SoundRoster, P!Roster, Store!Roster
<1> QED
  BY <1>2 DEF CopyOf, Copy

\* A handler takes a step, or begins: it keeps the session it holds, if any.
Continues(old, new) ==
  /\ new \in Request
  /\ Read(new) /\ Plays(new, published)
  /\ new.at \in Holding <=> old.at \in Holding
  /\ new.at \in Holding => new.session = old.session /\ new.room = old.room

LEMMA QuietStep ==
  ASSUME DuelInv, SparesMatches, UNCHANGED published,
         requests' = [r \in Requests |-> requests'[r]],
         \A r \in Requests : requests'[r] = requests[r] \/ Continues(requests[r], requests'[r])
  PROVE  requests' \in [Requests -> Request] /\ HandlersFit' /\ OneHolder' /\ ResultsFit'
<1>1. requests' \in [Requests -> Request]
  BY DEF DuelInv, Typed, Continues
<1>2. ASSUME NEW r \in Requests
      PROVE  /\ Read(requests'[r]) /\ Plays(requests'[r], published')
             /\ requests'[r].at \in Holding <=> requests[r].at \in Holding
             /\ requests'[r].at \in Holding =>
                  requests'[r].session = requests[r].session /\ requests'[r].room = requests[r].room
  BY DEF DuelInv, HandlersFit, Continues
<1>3. ASSUME NEW r \in Requests, requests'[r].at \in Holding
      PROVE  Holds(requests'[r], rooms', sessions') /\ Cardinality(requests'[r].room.online) = 2
  <2>1. Holds(requests[r], rooms, sessions) /\ Cardinality(requests[r].room.online) = 2
    BY <1>2, <1>3 DEF DuelInv, HandlersFit
  <2>2. requests[r].room.code \in Codes
    BY <1>2, <1>3 DEF DuelInv, HandlersFit, Read, Holding, Copy
  <2> QED
    BY <1>2, <1>3, <2>1, <2>2, StoreAssumptions DEF Holds, SparesMatches
<1>4. HandlersFit'
  BY <1>2, <1>3 DEF HandlersFit
<1>5. OneHolder'
  BY <1>2 DEF DuelInv, OneHolder, Holder, SparesMatches, Store!Exists
<1>6. ResultsFit'
  BY DEF DuelInv, ResultsFit, SparesMatches, Store!Exists
<1> QED
  BY <1>1, <1>4, <1>5, <1>6

\* The room of a running match is the room of its handler.
LEMMA HolderInRoom ==
  ASSUME DuelInv, NEW c \in Codes, rooms[c] # NoRoom,
         NEW r \in Requests, requests[r].at \in Holding, requests[r].session = rooms[c].active
  PROVE  requests[r].room.code = c
<1> DEFINE d == requests[r].room.code
<1>1. d \in Codes /\ Holds(requests[r], rooms, sessions)
  BY DEF DuelInv, HandlersFit, Read, Holding, Copy
<1>2. rooms[d] # NoRoom /\ rooms[d].active = rooms[c].active /\ rooms[c].active # NoSession
  BY <1>1, StoreAssumptions DEF Holds
<1>3. rooms[d].id = rooms[c].id
  BY <1>1, <1>2 DEF DuelInv, P!IInv, P!SessionsBelongToRooms, P!Open, P!Idle
<1> QED
  BY <1>1, <1>2, <1>3 DEF DuelInv, P!IInv, P!SessionsBelongToRooms, P!Open

\* What the service shows stays real when it showed it before and its handler
\* plays on, or when a handler begins to play.
LEMMA RunningStaysReal ==
  ASSUME DuelInv, SparesMatches,
         \A c \in Codes : duels'[c] # NoDuel /\ duels'[c].phase = "running" =>
           \/ /\ duels[c] # NoDuel /\ duels[c].phase = "running"
              /\ duels'[c].session = duels[c].session
              /\ \A r \in Requests : requests[r].at = "play" /\ requests[r].session = duels[c].session
                                     => requests'[r] = requests[r]
           \/ \E r \in Requests :
                /\ requests[r].at \in Holding /\ requests[r].room.code = c
                /\ requests'[r].at = "play"
                /\ requests'[r].session = requests[r].session
                /\ duels'[c].session = requests[r].session
  PROVE  RunningMatchesAreReal'
<1> SUFFICES ASSUME NEW c \in Codes, duels'[c] # NoDuel, duels'[c].phase = "running"
             PROVE  /\ rooms'[c] # NoRoom /\ rooms'[c].active = duels'[c].session
                    /\ \E r \in Requests : /\ requests'[r].at = "play"
                                            /\ requests'[r].session = duels'[c].session
  BY DEF RunningMatchesAreReal, Served, Holding, Store!Open
<1>1. CASE /\ duels[c] # NoDuel /\ duels[c].phase = "running"
           /\ duels'[c].session = duels[c].session
           /\ \A r \in Requests : requests[r].at = "play" /\ requests[r].session = duels[c].session
                                  => requests'[r] = requests[r]
  <2>1. /\ rooms[c] # NoRoom /\ rooms[c].active = duels[c].session
        /\ \E r \in Requests : requests[r].at = "play" /\ requests[r].session = duels[c].session
    BY <1>1 DEF DuelInv, RunningMatchesAreReal, Served, Store!Open
  <2>2. duels[c].session # NoSession
    BY <2>1, StoreAssumptions DEF DuelInv, HandlersFit, Holds, Holding
  <2> QED
    BY <1>1, <2>1, <2>2 DEF SparesMatches
<1>2. CASE \E r \in Requests :
             /\ requests[r].at \in Holding /\ requests[r].room.code = c
             /\ requests'[r].at = "play"
             /\ requests'[r].session = requests[r].session
             /\ duels'[c].session = requests[r].session
  <2>1. PICK r \in Requests : /\ requests[r].at \in Holding /\ requests[r].room.code = c
                              /\ requests'[r].at = "play"
                              /\ requests'[r].session = requests[r].session
                              /\ duels'[c].session = requests[r].session
    BY <1>2
  <2>2. Holds(requests[r], rooms, sessions)
    BY <2>1 DEF DuelInv, HandlersFit
  <2> QED
    BY <2>1, <2>2, StoreAssumptions DEF Holds, SparesMatches
<1> QED
  BY <1>1, <1>2

LEMMA StoreStepKeeps ==
  ASSUME DuelInv, [P!Next]_(P!vars)
  PROVE  P!IInv' /\ P!LedgerInv'
BY StoreAssumptions, P!NextInvariant, P!NextLedger DEF DuelInv

LEMMA QuietStore ==
  ASSUME DuelInv, UNCHANGED store
  PROVE  [P!Next]_(P!vars) /\ SparesMatches
BY DEF store, P!vars, SparesMatches

\* One handler goes on, or begins.
LEMMA HandlerStep ==
  ASSUME DuelInv, [P!Next]_(P!vars), SparesMatches, UNCHANGED <<frozen, published, trips>>,
         asked' \in 0 .. MaxRequests,
         NEW r \in Requests, NEW q, Goes(r, q), Continues(requests[r], q),
         DuelsOK', ConfigsMatchGame', RunningMatchesAreReal'
  PROVE  DuelInv'
<1>1. /\ requests' = [x \in Requests |-> requests'[x]]
      /\ \A x \in Requests : requests'[x] = requests[x] \/ Continues(requests[x], requests'[x])
  BY DEF Goes, DuelInv, Typed
<1>2. requests' \in [Requests -> Request] /\ HandlersFit' /\ OneHolder' /\ ResultsFit'
  BY <1>1, QuietStep
<1>3. Typed'
  BY <1>2 DEF DuelInv, Typed
<1> QED
  BY <1>2, <1>3, StoreStepKeeps DEF DuelInv

\* The room's trips, asked about: nothing but the store changes.
LEMMA TripStep ==
  ASSUME DuelInv, P!Next, SparesMatches, Trip
  PROVE  DuelInv'
<1>1. UNCHANGED <<duels, frozen, published, requests, asked>> /\ trips' \in 0 .. MaxTrips
  BY DuelBounds DEF Trip, DuelInv, Typed
<1>2. requests' \in [Requests -> Request] /\ HandlersFit' /\ OneHolder' /\ ResultsFit'
  BY <1>1, QuietStep DEF DuelInv, Typed
<1>3. Typed' /\ ConfigsMatchGame'
  BY <1>1 DEF DuelInv, Typed, DuelsOK, ConfigsMatchGame
<1>4. RunningMatchesAreReal'
  BY <1>1, RunningStaysReal
<1> QED
  BY <1>2, <1>3, <1>4, StoreStepKeeps DEF DuelInv

LEMMA ArriveKeeps ==
  ASSUME DuelInv, Arrive
  PROVE  DuelInv'
<1>1. PICK c \in Codes, m \in Members :
        \/ \E g \in DuelGames, id \in RoomIds : Store!CreateRoom(c, m, g, id)
        \/ Store!Rejoin(c, m) \/ Store!Enter(c, m)
        \/ \E g \in DuelGames : Store!SelectGame(c, m, g)
  BY DEF Arrive
<1>2. P!Next /\ SparesMatches
  BY <1>1, RoomOperationsSpare DEF DuelInv
<1> QED
  BY <1>2, TripStep DEF Arrive

LEMMA DropKeeps ==
  ASSUME DuelInv, Drop
  PROVE  DuelInv'
<1>1. P!Next /\ SparesMatches
  BY RoomOperationsSpare, ExpirySpares DEF Drop, DuelInv
<1> QED
  BY <1>1, TripStep DEF Drop

\* A handler that is not in charge of a session, before the step or after it.
LEMMA FreeHandler ==
  ASSUME NEW old, NEW q, old.at \notin Holding, q \in Request, q.at \notin Holding, Read(q)
  PROVE  Continues(old, q)
BY DEF Continues, Plays, Holding

LEMMA SameDuels ==
  ASSUME DuelInv, UNCHANGED duels
  PROVE  DuelsOK' /\ ConfigsMatchGame'
BY DEF DuelInv, Typed, DuelsOK, ConfigsMatchGame

\* A handler that holds nothing and does not touch the duel service.
LEMMA FreeStep ==
  ASSUME DuelInv, [P!Next]_(P!vars), SparesMatches, UNCHANGED <<duels, frozen, published, trips>>,
         asked' \in 0 .. MaxRequests,
         NEW r \in Requests, NEW q, Goes(r, q), requests[r].at \notin Holding,
         q \in Request, q.at \notin Holding, Read(q)
  PROVE  DuelInv'
<1>1. Continues(requests[r], q)
  BY FreeHandler
<1>2. \A x \in Requests : requests[x].at = "play" => requests'[x] = requests[x]
  BY DEF Goes, DuelInv, Typed, Holding
<1>3. RunningMatchesAreReal'
  BY <1>2, RunningStaysReal
<1> QED
  BY <1>1, <1>3, SameDuels, HandlerStep

LEMMA IdleIsRead == Idle \in Request /\ Read(Idle) /\ Idle.at = "idle" /\ "idle" \notin Holding
BY DEF Idle, Request, Places, Read, Holding

LEMMA AskKeeps ==
  ASSUME DuelInv, NEW r \in Requests, NEW m \in Members, NEW c \in Codes,
         \/ \E style \in Styles : AskReady(r, m, c, style)
         \/ AskCancel(r, m, c)
  PROVE  DuelInv'
<1>1. /\ UNCHANGED <<store, duels, frozen, published, trips>> /\ Begins(r) /\ Store!Open(c)
  BY DEF AskReady, AskCancel
<1>6. asked' \in 0 .. MaxRequests /\ requests[r].at \notin Holding
  BY <1>1, DuelBounds DEF Begins, At, Holding, DuelInv, Typed
<1>2. [P!Next]_(P!vars) /\ SparesMatches
  BY <1>1, QuietStore
<1>3. /\ CopyOf(c) \in Copy /\ CopyOf(c).online \subseteq CopyOf(c).members
      /\ CopyOf(c).game = rooms[c].game /\ CopyOf(c).game \in DuelGames
  BY <1>1, CopyFits DEF DuelInv, Copy
<1>4. ASSUME NEW style \in Styles, AskReady(r, m, c, style)
      PROVE  DuelInv'
  <2> DEFINE config == [game |-> rooms[c].game, style |-> style]
             q == [Idle EXCEPT !.at = "ready", !.member = m, !.room = CopyOf(c), !.data = config]
  <2>1. config \in Config /\ config.game = CopyOf(c).game
    BY <1>3 DEF Config
  <2>2. Goes(r, q)
    BY <1>4 DEF AskReady
  <2> HIDE DEF config
  <2>3. /\ q \in Request /\ q.at = "ready" /\ q.member = m /\ q.room = CopyOf(c)
        /\ q.data = config
    BY <1>3, <2>1, IdleIsRead DEF Request, Places
  <2> HIDE DEF q
  <2>4. q.at \notin Holding /\ Read(q)
    BY <1>3, <2>1, <2>3 DEF Holding, Read
  <2> QED
    BY <1>1, <1>2, <1>6, <2>2, <2>3, <2>4, FreeStep
<1>5. ASSUME AskCancel(r, m, c)
      PROVE  DuelInv'
  <2> DEFINE q == [Idle EXCEPT !.at = "cancel", !.member = m, !.room = CopyOf(c)]
  <2>1. Goes(r, q)
    BY <1>5 DEF AskCancel
  <2>2. q \in Request /\ q.at = "cancel" /\ q.room = CopyOf(c)
    BY <1>3, IdleIsRead DEF Request, Places
  <2> HIDE DEF q
  <2>3. q.at \notin Holding /\ Read(q)
    BY <1>3, <2>2 DEF Holding, Read
  <2> QED
    BY <1>1, <1>2, <1>6, <2>1, <2>2, <2>3, FreeStep
<1> QED
  BY <1>4, <1>5

LEMMA LeaveKeeps ==
  ASSUME DuelInv, NEW r \in Requests, NEW m \in Members, NEW c \in Codes, Leave(r, m, c)
  PROVE  DuelInv'
<1> DEFINE q == [Idle EXCEPT !.at = "remove", !.member = m, !.room = CopyOf(c)]
<1>1. /\ UNCHANGED <<duels, frozen, published, trips>>
      /\ asked' \in 0 .. MaxRequests /\ requests[r].at \notin Holding
      /\ Goes(r, q) /\ Store!LeaveRoom(c, m)
  BY DuelBounds DEF Leave, Begins, At, Holding, DuelInv, Typed
<1>2. P!Next /\ SparesMatches
  BY <1>1, RoomOperationsSpare DEF DuelInv
<1>3. Store!Open(c)
  BY <1>1 DEF Store!LeaveRoom, Store!Idle
<1>4. CopyOf(c) \in Copy /\ CopyOf(c).online \subseteq CopyOf(c).members
  BY <1>3, CopyFits DEF DuelInv
<1>5. q \in Request /\ q.at = "remove" /\ q.room = CopyOf(c)
  BY <1>4, IdleIsRead DEF Request, Places
<1> HIDE DEF q
<1>6. q.at \notin Holding /\ Read(q)
  BY <1>4, <1>5 DEF Holding, Read
<1> QED
  BY <1>1, <1>2, <1>5, <1>6, FreeStep

\* What a handler holds as it proceeds.
LEMMA Proceeding ==
  ASSUME NEW old \in Request, NEW place \in Places
  PROVE  LET q == [old EXCEPT !.at = place]
         IN  /\ q \in Request /\ q.at = place /\ q.room = old.room /\ q.member = old.member
             /\ q.session = old.session /\ q.data = old.data
BY DEF Request

LEMMA UnderWay ==
  ASSUME DuelInv, NEW r \in Requests
  PROVE  /\ requests[r] \in Request /\ Read(requests[r]) /\ Plays(requests[r], published)
         /\ requests[r].at # "idle" => requests[r].room \in Copy
                                       /\ requests[r].room.code \in Codes
         /\ requests[r].at \in Holding => requests[r].session \in SessionIds
BY DEF DuelInv, Typed, HandlersFit, Read, Copy, Holds

\* A handler that holds nothing changes the state of its room in the service,
\* not into one that shows a match it did not show.
LEMMA ChoiceStep ==
  ASSUME DuelInv, UNCHANGED <<store, frozen, published, trips, asked>>,
         NEW r \in Requests, NEW q, Goes(r, q), requests[r].at \notin Holding,
         q \in Request, q.at \notin Holding, Read(q),
         NEW c \in Codes, NEW state, state = NoDuel \/ Fitting(state), Keep(c, state),
         state # NoDuel /\ state.phase = "running" =>
           duels[c] # NoDuel /\ duels[c].phase = "running" /\ state.session = duels[c].session
  PROVE  DuelInv'
<1>1. [P!Next]_(P!vars) /\ SparesMatches
  BY QuietStore
<1>2. /\ DuelsOK' /\ ConfigsMatchGame'
      /\ duels'[c] = state /\ \A d \in Codes \ {c} : duels'[d] = duels[d]
  BY KeepFits
<1>3. Continues(requests[r], q)
  BY FreeHandler
<1>4. \A x \in Requests : requests[x].at = "play" => requests'[x] = requests[x]
  BY DEF Goes, DuelInv, Typed, Holding
<1>5. RunningMatchesAreReal'
  BY <1>1, <1>2, <1>4, RunningStaysReal
<1>6. asked' \in 0 .. MaxRequests
  BY DEF DuelInv, Typed
<1> QED
  BY <1>1, <1>2, <1>3, <1>5, <1>6, HandlerStep

LEMMA ReadyKeeps ==
  ASSUME DuelInv, NEW r \in Requests, Ready(r)
  PROVE  DuelInv'
<1> DEFINE q == requests[r]
           room == q.room
           c == room.code
           stored == Readied(room, q.member, q.data)
           onward == [q EXCEPT !.at = "look"]
<1>1. /\ q.at = "ready" /\ UNCHANGED <<store, frozen, published, trips, asked>>
      /\ q.at \notin Holding
  BY DEF Ready, At, bounds, Holding
<1>2. /\ q \in Request /\ room \in Copy /\ c \in Codes /\ room.online \subseteq room.members
      /\ q.member \in Members /\ q.data \in Config /\ q.data.game = room.game
  BY <1>1, UnderWay DEF Read
<1>3. onward \in Request /\ onward.at \notin Holding /\ Read(onward)
  BY <1>2, Proceeding DEF Places, Holding, Read
<1>4. CASE Accepts(room, q.member)
  <2>1. Keep(c, stored) /\ (Goes(r, onward) \/ Goes(r, Idle))
    BY <1>4 DEF Ready, Proceeds, Ends
  <2>2. Fitting(stored) /\ stored.phase # "running"
    BY <1>2, <1>4, ReadiedFits
  <2> HIDE DEF stored, onward
  <2> QED
    BY <1>1, <1>2, <1>3, <2>1, <2>2, IdleIsRead, ChoiceStep
<1>5. CASE ~Accepts(room, q.member)
  <2>1. Goes(r, Idle) /\ UNCHANGED duels
    BY <1>5 DEF Ready, Ends
  <2> QED
    BY <1>1, <2>1, IdleIsRead, QuietStore, FreeStep DEF DuelInv, Typed
<1> QED
  BY <1>4, <1>5

LEMMA CancelKeeps ==
  ASSUME DuelInv, NEW r \in Requests, Cancel(r)
  PROVE  DuelInv'
<1> DEFINE q == requests[r]
           state == Cancelled(q.room, q.member)
<1>1. /\ q.at = "cancel" /\ q.at \notin Holding /\ Goes(r, Idle)
      /\ UNCHANGED <<store, frozen, published, trips, asked>>
  BY DEF Cancel, At, Ends, bounds, Holding
<1>2. q.room \in Copy /\ q.room.code \in Codes
  BY <1>1, UnderWay
<1>3. CASE Accepts(q.room, q.member)
  <2>1. Keep(q.room.code, state)
    BY <1>3 DEF Cancel
  <2>2. Fitting(state) /\ state.phase # "running"
    BY <1>2, <1>3, CancelledFits
  <2> HIDE DEF state
  <2> QED
    BY <1>1, <1>2, <2>1, <2>2, IdleIsRead, ChoiceStep
<1>4. CASE ~Accepts(q.room, q.member)
  <2>1. UNCHANGED duels
    BY <1>4 DEF Cancel
  <2> QED
    BY <1>1, <2>1, IdleIsRead, QuietStore, FreeStep DEF DuelInv, Typed
<1> QED
  BY <1>3, <1>4

LEMMA RemoveKeeps ==
  ASSUME DuelInv, NEW r \in Requests, Remove(r)
  PROVE  DuelInv'
<1> DEFINE q == requests[r]
           c == q.room.code
           state == Removed(c, q.member)
<1>1. /\ q.at = "remove" /\ q.at \notin Holding /\ Goes(r, Idle) /\ Keep(c, state)
      /\ UNCHANGED <<store, frozen, published, trips, asked>>
  BY DEF Remove, At, Ends, bounds, Holding
<1>2. c \in Codes
  BY <1>1, UnderWay
<1>3. CASE duels[c] = NoDuel
  <2>1. state = NoDuel
    BY <1>3 DEF Removed
  <2> HIDE DEF state
  <2> QED
    BY <1>1, <1>2, <2>1, IdleIsRead, ChoiceStep
<1>4. CASE duels[c] # NoDuel
  <2>1. /\ Fitting(state)
        /\ state.phase = "running" =>
             duels[c].phase = "running" /\ state.session = duels[c].session
    BY <1>2, <1>4, RemovedFits
  <2> HIDE DEF state
  <2> QED
    BY <1>1, <1>2, <1>4, <2>1, IdleIsRead, ChoiceStep
<1> QED
  BY <1>3, <1>4

\* From the room's copy to the settings.
LEMMA LookCheckFreezeKeep ==
  ASSUME DuelInv, NEW r \in Requests, Look(r) \/ Check(r) \/ Freeze(r)
  PROVE  DuelInv'
<1> DEFINE q == requests[r]
           c == q.room.code
<1>1. /\ UNCHANGED <<store, duels, frozen, published, trips, asked>>
      /\ q.at \in {"look", "check", "freeze"}
  BY DEF Look, Check, Freeze, At, bounds
<1>2. /\ q \in Request /\ q.room \in Copy /\ c \in Codes /\ q.room.online \subseteq q.room.members
      /\ q.at \notin Holding
  BY <1>1, UnderWay DEF Read, Holding
<1>3. ASSUME NEW new, Goes(r, new), new \in Request, new.at \notin Holding, Read(new)
      PROVE  DuelInv'
  BY <1>1, <1>2, <1>3, QuietStore, FreeStep DEF DuelInv, Typed
<1>4. ASSUME Goes(r, Idle) PROVE DuelInv'
  BY <1>3, <1>4, IdleIsRead
<1>5. ASSUME Look(r) PROVE DuelInv'
  <2> DEFINE new == [Idle EXCEPT !.at = "check", !.room = CopyOf(c)]
  <2>1. CASE Store!Open(c)
    <3>1. CopyOf(c) \in Copy /\ CopyOf(c).online \subseteq CopyOf(c).members
      BY <1>2, <2>1, CopyFits DEF DuelInv
    <3>2. Goes(r, new)
      BY <1>5, <2>1 DEF Look
    <3>3. new \in Request /\ new.at = "check" /\ new.room = CopyOf(c)
      BY <3>1, IdleIsRead DEF Request, Places
    <3> HIDE DEF new
    <3>4. new.at \notin Holding /\ Read(new)
      BY <3>1, <3>3 DEF Holding, Read
    <3> QED
      BY <1>3, <3>2, <3>3, <3>4
  <2>2. CASE ~Store!Open(c)
    BY <1>4, <1>5, <2>2 DEF Look, Ends
  <2> QED
    BY <2>1, <2>2
<1>6. ASSUME Check(r) PROVE DuelInv'
  <2> DEFINE new == [q EXCEPT !.at = "freeze"]
  <2>1. new \in Request /\ new.at \notin Holding /\ Read(new)
    BY <1>2, Proceeding DEF Places, Holding, Read
  <2>2. Goes(r, new) \/ Goes(r, Idle)
    BY <1>6 DEF Check, Proceeds, Ends
  <2> HIDE DEF new
  <2> QED
    BY <1>3, <1>4, <2>1, <2>2
<1>7. ASSUME Freeze(r) PROVE DuelInv'
  <2> DEFINE settings == Settings(q.room)
             new == [q EXCEPT !.at = "open", !.data = settings]
  <2>1. CASE IsReady(q.room)
    <3>1. duels[c] # NoDuel
      BY <2>1 DEF IsReady, BothReady
    <3>2. settings \in Match
      BY <1>2, <3>1, DuelsFit DEF Settings, Match, Fitting, RoomState, Copy
    <3>3. Goes(r, new)
      BY <1>7, <2>1 DEF Freeze
    <3> HIDE DEF settings
    <3>4. new \in Request /\ new.at = "open" /\ new.room = q.room /\ new.data = settings
      BY <1>2, <3>2 DEF Request, Places
    <3> HIDE DEF new
    <3>5. new.at \notin Holding /\ Read(new)
      BY <1>2, <3>2, <3>4 DEF Holding, Read
    <3> QED
      BY <1>3, <3>3, <3>4, <3>5
  <2>2. CASE ~IsReady(q.room)
    BY <1>4, <1>7, <2>2 DEF Freeze, Ends
  <2> QED
    BY <2>1, <2>2
<1> QED
  BY <1>5, <1>6, <1>7

\* A handler in charge of a session goes on with it.
LEMMA HeldStep ==
  ASSUME DuelInv, UNCHANGED <<store, frozen, published, trips, asked>>,
         NEW r \in Requests, NEW q, Goes(r, q), requests[r].at \in Holding,
         q \in Request, q.at \in Holding, Read(q), Plays(q, published),
         q.session = requests[r].session, q.room = requests[r].room,
         NEW state, state = NoDuel \/ Fitting(state), Keep(requests[r].room.code, state),
         RunningMatchesAreReal'
  PROVE  DuelInv'
<1>1. [P!Next]_(P!vars) /\ SparesMatches
  BY QuietStore
<1>2. requests[r].room.code \in Codes
  BY UnderWay DEF Holding
<1>3. DuelsOK' /\ ConfigsMatchGame'
  BY <1>2, KeepFits
<1>4. Continues(requests[r], q)
  BY DEF Continues
<1>5. asked' \in 0 .. MaxRequests
  BY DEF DuelInv, Typed
<1> QED
  BY <1>1, <1>3, <1>4, <1>5, HandlerStep

LEMMA StartKeeps ==
  ASSUME DuelInv, NEW r \in Requests, Start(r)
  PROVE  DuelInv'
<1> DEFINE q == requests[r]
           room == q.room
           c == room.code
<1>1. /\ q.at = "start" /\ q.at \in Holding
      /\ UNCHANGED <<store, frozen, published, trips, asked>>
  BY DEF Start, At, bounds, Holding
<1>2. /\ q \in Request /\ room \in Copy /\ c \in Codes /\ room.online \subseteq room.members
      /\ q.session \in SessionIds /\ published[q.session] = NoResult
  BY <1>1, UnderWay DEF Read, Plays, Holding
<1>3. SparesMatches
  BY <1>1, QuietStore
<1>4. CASE Startable(room)
  <2> DEFINE match == Lineup(room)
             new == [q EXCEPT !.at = "play", !.data = match]
             state == Begun(room, q.session)
  <2>1. Keep(c, state) /\ Goes(r, new)
    BY <1>4 DEF Start
  <2>2. Fitting(state) /\ state.session = q.session
    BY <1>2, BegunFits
  <2>3. match \in Match /\ IsResult(match, room.online)
    BY <1>2, <1>4, LineupIsResult
  <2> HIDE DEF match, state
  <2>4. /\ new \in Request /\ new.at = "play" /\ new.data = match
        /\ new.session = q.session /\ new.room = room
    BY <1>2, <2>3 DEF Request, Places
  <2> HIDE DEF new
  <2>5. new.at \in Holding /\ Read(new) /\ Plays(new, published)
    BY <1>2, <2>3, <2>4 DEF Holding, Read, Plays
  <2>6. duels'[c] = state /\ \A d \in Codes \ {c} : duels'[d] = duels[d]
    BY <1>2, <2>1, <2>2, KeepFits
  <2>7. requests'[r] = new /\ \A x \in Requests \ {r} : requests'[x] = requests[x]
    BY <2>1 DEF Goes, DuelInv, Typed
  <2>8. RunningMatchesAreReal'
    BY <1>1, <1>3, <2>2, <2>4, <2>6, <2>7, RunningStaysReal
  <2> QED
    BY <1>1, <2>1, <2>2, <2>4, <2>5, <2>8, HeldStep
<1>5. CASE ~Startable(room)
  <2> DEFINE new == [q EXCEPT !.at = "abandon"]
             state == EnsuredRoom(room)
  <2>1. Keep(c, state) /\ Goes(r, new)
    BY <1>5 DEF Start, Proceeds
  <2>2. Fitting(state)
        /\ (state.phase = "running" => state = duels[c] /\ duels[c] # NoDuel)
    BY <1>2, EnsuredFits
  <2>3. new \in Request /\ new.at = "abandon" /\ new.session = q.session /\ new.room = room
    BY <1>2, Proceeding DEF Places
  <2> HIDE DEF new, state
  <2>4. new.at \in Holding /\ Read(new) /\ Plays(new, published)
    BY <1>2, <2>3 DEF Holding, Read, Plays
  <2>5. duels'[c] = state /\ \A d \in Codes \ {c} : duels'[d] = duels[d]
    BY <1>2, <2>1, <2>2, KeepFits
  <2>6. requests'[r] = new /\ \A x \in Requests \ {r} : requests'[x] = requests[x]
    BY <2>1 DEF Goes, DuelInv, Typed
  <2>7. RunningMatchesAreReal'
    BY <1>1, <1>3, <2>2, <2>5, <2>6, RunningStaysReal
  <2> QED
    BY <1>1, <2>1, <2>2, <2>3, <2>4, <2>7, HeldStep
<1> QED
  BY <1>4, <1>5

LEMMA PlayKeeps ==
  ASSUME DuelInv, NEW r \in Requests, Play(r)
  PROVE  DuelInv'
<1> DEFINE q == requests[r]
           c == q.room.code
           kept == Keeps(c, q.session)
<1>1. /\ q.at = "play" /\ q.at \in Holding
      /\ UNCHANGED <<store, frozen, published, trips, asked>>
  BY DEF Play, At, bounds, Holding
<1>2. /\ q \in Request /\ q.room \in Copy /\ c \in Codes
      /\ q.room.online \subseteq q.room.members
      /\ q.session \in SessionIds /\ published[q.session] = NoResult
      /\ q.data \in Match /\ IsResult(q.data, q.room.online)
  BY <1>1, UnderWay DEF Read, Plays, Holding
<1>3. SparesMatches
  BY <1>1, QuietStore
<1>4. PICK place, state :
        /\ place \in {"commit", "abandon"}
        /\ Goes(r, [q EXCEPT !.at = place]) /\ Keep(c, state)
        /\ \/ ~kept /\ state = duels[c]
           \/ kept /\ state = Settled(c, q.data)
           \/ kept /\ state = Failed(c)
  <2>1. \/ /\ Keep(c, IF kept THEN Settled(c, q.data) ELSE duels[c])
           /\ Goes(r, [q EXCEPT !.at = "commit"])
        \/ /\ Keep(c, IF kept THEN Failed(c) ELSE duels[c])
           /\ Goes(r, [q EXCEPT !.at = "abandon"])
    BY DEF Play, Proceeds
  <2> DEFINE Leads(place, state) ==
               /\ place \in {"commit", "abandon"}
               /\ Goes(r, [q EXCEPT !.at = place]) /\ Keep(c, state)
               /\ \/ ~kept /\ state = duels[c]
                  \/ kept /\ state = Settled(c, q.data)
                  \/ kept /\ state = Failed(c)
  <2> HIDE DEF kept
  <2>2. \/ Leads("commit", IF kept THEN Settled(c, q.data) ELSE duels[c])
        \/ Leads("abandon", IF kept THEN Failed(c) ELSE duels[c])
    BY <2>1
  <2>3. \E place, state : Leads(place, state)
    <3> HIDE DEF Leads
    <3> QED
      BY <2>2
  <2> QED
    BY <2>3
<1> DEFINE new == [q EXCEPT !.at = place]
<1>5. /\ new \in Request /\ new.at = place /\ new.session = q.session /\ new.room = q.room
      /\ new.data = q.data
  <2>1. place \in Places
    BY <1>4 DEF Places
  <2> QED
    BY <1>2, <2>1, Proceeding
<1>6. Goes(r, new)
  BY <1>4
<1> HIDE DEF new
<1>7. new.at \in Holding /\ Read(new) /\ Plays(new, published)
  BY <1>2, <1>4, <1>5 DEF Holding, Read, Plays
<1>8. /\ state = NoDuel \/ Fitting(state)
      /\ kept => state.phase # "running"
  BY <1>2, <1>4, DuelsFit, PlayedFits DEF Keeps
<1>9. duels'[c] = state /\ \A d \in Codes \ {c} : duels'[d] = duels[d]
  BY <1>2, <1>4, <1>8, KeepFits
<1>10. requests'[r] = new /\ \A x \in Requests \ {r} : requests'[x] = requests[x]
  BY <1>6 DEF Goes, DuelInv, Typed
<1>11. RunningMatchesAreReal'
  <2> SUFFICES ASSUME NEW d \in Codes, duels'[d] # NoDuel, duels'[d].phase = "running"
               PROVE  /\ duels[d] # NoDuel /\ duels[d].phase = "running"
                      /\ duels'[d].session = duels[d].session
                      /\ \A x \in Requests :
                           requests[x].at = "play" /\ requests[x].session = duels[d].session
                           => requests'[x] = requests[x]
    BY <1>3, RunningStaysReal
  <2>1. duels'[d] = duels[d]
    BY <1>4, <1>8, <1>9
  <2>2. duels[d].session # q.session
    <3> SUFFICES ASSUME duels[d].session = q.session PROVE FALSE
      OBVIOUS
    <3>1. rooms[d] # NoRoom /\ rooms[d].active = q.session
      BY <2>1 DEF DuelInv, RunningMatchesAreReal, Store!Open
    <3>2. d = c
      BY <1>1, <3>1, HolderInRoom
    <3>3. kept
      BY <2>1, <3>2 DEF Keeps
    <3> QED
      BY <1>8, <1>9, <2>1, <3>2, <3>3
  <2> QED
    BY <1>10, <2>1, <2>2
<1> QED
  BY <1>1, <1>4, <1>5, <1>6, <1>7, <1>8, <1>11, HeldStep

-----------------------------------------------------------------------------
(* Opening a session, committing its snapshot, ending it *)

LEMMA OpenSessionKeeps ==
  ASSUME DuelInv, NEW r \in Requests, OpenSession(r)
  PROVE  DuelInv'
<1> DEFINE q == requests[r]
           room == q.room
           c == room.code
<1>1. /\ q.at = "open" /\ q.at \notin Holding
      /\ UNCHANGED <<duels, published, trips, asked>>
  BY DEF OpenSession, At, bounds, Holding
<1>2. /\ q \in Request /\ room \in Copy /\ c \in Codes /\ room.online \subseteq room.members
      /\ q.data \in Match
  BY <1>1, UnderWay DEF Read
<1>3. CASE ~Welcomes(room)
  <2>1. Goes(r, Idle) /\ UNCHANGED <<store, frozen>>
    BY <1>3 DEF OpenSession, Ends
  <2> QED
    BY <1>1, <2>1, IdleIsRead, QuietStore, FreeStep DEF DuelInv, Typed
<1>4. CASE Welcomes(room)
  <2>1. PICK s \in SessionIds :
          /\ Store!StartSession(c, room.host, room.online, 0, s)
          /\ frozen' = [frozen EXCEPT ![s] = q.data]
          /\ Goes(r, [q EXCEPT !.at = "start", !.session = s, !.data = NoData])
    BY <1>4 DEF OpenSession
  <2> DEFINE new == [q EXCEPT !.at = "start", !.session = s, !.data = NoData]
  <2>2. /\ new \in Request /\ new.at = "start" /\ new.session = s /\ new.room = room
        /\ new.at \in Holding
    BY <1>2 DEF Request, Places, Holding
  <2>3. Goes(r, new)
    BY <2>1
  <2> HIDE DEF new
  <2>4. requests' \in [Requests -> Request] /\ requests'[r] = new
        /\ \A x \in Requests \ {r} : requests'[x] = requests[x]
    BY <2>2, <2>3 DEF Goes, DuelInv, Typed
  <2>5. P!Next
    <3>1. P!StartSession(c, room.host, room.online, 0, s)
      BY <2>1, SameSessionOperations
    <3>2. 0 \in 0 .. P!Cardinality(Members)
      <4>1. P!Cardinality(Members) \in Nat
        BY StoreAssumptions, P!FS_CardinalityType
      <4> QED
        BY <4>1
    <3>3. room.host \in Members /\ room.online \in SUBSET Members
      BY <1>2 DEF Copy
    <3> QED
      BY <1>2, <3>1, <3>2, <3>3 DEF P!Next
  <2>6. P!IInv' /\ P!LedgerInv'
    BY <2>5, StoreStepKeeps
  <2>7. /\ rooms[c] # NoRoom /\ rooms[c].active = NoSession /\ sessions[s] = NoSession
        /\ sessions'[s] # NoSession
        /\ sessions'[s].status = "running" /\ sessions'[s].humans = room.online
        /\ \A t \in SessionIds : t # s => sessions'[t] = sessions[t]
        /\ rooms'[c] # NoRoom /\ rooms'[c].active = s
        /\ \A d \in Codes : d # c => rooms'[d] = rooms[d]
    <3>1. P!StartSession(c, room.host, room.online, 0, s)
      BY <2>1, SameSessionOperations
    <3>2. P!IInv /\ room.host \in Members /\ room.online \in SUBSET Members
      BY <1>2 DEF DuelInv, Copy
    <3>3. PICK bots : bots = 0
      OBVIOUS
    <3> QED
      BY <1>2, <3>1, <3>2, <3>3, StoreAssumptions, P!StartSessionOpens, P!StartSessionSpares
  <2>8. ASSUME NEW x \in Requests, x # r, requests[x].at \in Holding
         PROVE  Holds(requests[x], rooms', sessions') /\ requests[x].session # s
    <3>1. Holds(requests[x], rooms, sessions) /\ requests[x].room.code \in Codes
      BY <2>8, UnderWay DEF DuelInv, HandlersFit, Holding
    <3> QED
      BY <2>7, <3>1, StoreAssumptions DEF Holds
  <2>9. published[s] = NoResult
    BY <2>7 DEF DuelInv, ResultsFit, Store!Exists
  <2>10. HandlersFit'
    <3>1. Read(new) /\ Holds(new, rooms', sessions') /\ Plays(new, published)
          /\ Cardinality(new.room.online) = 2
      BY <1>2, <1>4, <2>2, <2>7, <2>9 DEF Read, Holds, Plays, Welcomes
    <3> QED
      BY <1>1, <2>4, <2>8, <3>1 DEF DuelInv, HandlersFit
  <2>11. OneHolder'
    <3>1. \A x \in Requests : Holder(s, x)' <=> x = r
      BY <2>2, <2>4, <2>8 DEF Holder
    <3>2. \A x \in Requests, t \in SessionIds \ {s} : Holder(t, x)' <=> Holder(t, x)
      BY <1>1, <2>2, <2>4 DEF Holder
    <3> QED
      BY <2>7, <3>1, <3>2 DEF DuelInv, OneHolder, Store!Exists
  <2>12. ResultsFit'
    BY <1>1, <2>7, <2>9 DEF DuelInv, ResultsFit, Store!Exists
  <2>13. RunningMatchesAreReal'
    <3> SUFFICES ASSUME NEW d \in Codes, duels[d] # NoDuel, duels[d].phase = "running"
                 PROVE  /\ rooms'[d] # NoRoom /\ rooms'[d].active = duels[d].session
                        /\ \E x \in Requests : /\ requests'[x].at = "play"
                                                /\ requests'[x].session = duels[d].session
      BY <1>1 DEF RunningMatchesAreReal, Served, Holding, Store!Open
    <3>1. /\ rooms[d] # NoRoom /\ rooms[d].active = duels[d].session
          /\ \E x \in Requests : requests[x].at = "play" /\ requests[x].session = duels[d].session
      BY DEF DuelInv, RunningMatchesAreReal, Served, Store!Open
    <3>2. d # c
      BY <2>7, <3>1, UnderWay, StoreAssumptions DEF Holding
    <3> QED
      BY <1>1, <2>4, <2>7, <3>1, <3>2
  <2>14. Typed' /\ ConfigsMatchGame'
    <3>1. frozen' \in [SessionIds -> Match \cup {NoResult}]
      BY <1>2, <2>1 DEF DuelInv, Typed
    <3> QED
      BY <1>1, <2>4, <3>1 DEF DuelInv, Typed, DuelsOK, ConfigsMatchGame
  <2> QED
    BY <2>6, <2>10, <2>11, <2>12, <2>13, <2>14 DEF DuelInv
<1> QED
  BY <1>3, <1>4

LEMMA CommitKeeps ==
  ASSUME DuelInv, NEW r \in Requests, Commit(r)
  PROVE  DuelInv'
<1> DEFINE q == requests[r]
           s == q.session
           new == [q EXCEPT !.at = "finish"]
<1>1. /\ q.at = "commit" /\ q.at \in Holding
      /\ UNCHANGED <<duels, frozen, trips, asked>>
  BY DEF Commit, At, bounds, Holding
<1>2. /\ q \in Request /\ q.room \in Copy /\ q.room.online \subseteq q.room.members
      /\ s \in SessionIds /\ q.data \in Match /\ IsResult(q.data, q.room.online)
      /\ Holds(q, rooms, sessions) /\ Cardinality(q.room.online) = 2
  BY <1>1, UnderWay DEF Read, Plays, Holding, DuelInv, HandlersFit
<1>3. /\ Store!CommitSnapshot(s, 0)
      /\ published' = [published EXCEPT ![s] = q.data]
      /\ Goes(r, new)
  BY <1>2 DEF Commit, Proceeds, Holds, Store!Exists
<1>4. P!CommitSnapshot(s, 0)
  BY <1>3, SameSessionOperations
<1>5. P!IInv' /\ P!LedgerInv'
  BY <1>2, <1>4, StoreStepKeeps DEF P!Next
<1>6. /\ sessions'[s] # NoSession /\ sessions'[s].status = sessions[s].status
      /\ sessions'[s].humans = sessions[s].humans
      /\ \A t \in SessionIds : t # s => sessions'[t] = sessions[t]
      /\ UNCHANGED rooms
  BY <1>2, <1>4, StoreAssumptions, P!CommitSnapshotWrites DEF DuelInv, P!CommitSnapshot
<1>7. /\ new \in Request /\ new.at = "finish" /\ new.room = q.room /\ new.session = s
  BY <1>2, Proceeding DEF Places
<1> HIDE DEF new
<1>8. requests' \in [Requests -> Request] /\ requests'[r] = new
      /\ \A x \in Requests \ {r} : requests'[x] = requests[x]
  BY <1>3, <1>7 DEF Goes, DuelInv, Typed
<1>9. /\ published' \in [SessionIds -> Match \cup {NoResult}]
      /\ published'[s] = q.data /\ published'[s] # NoResult
      /\ \A t \in SessionIds : t # s => published'[t] = published[t]
  BY <1>2, <1>3, NullsAreDistinct DEF DuelInv, Typed
<1>10. ASSUME NEW x \in Requests, x # r, requests[x].at \in Holding
       PROVE  /\ Holds(requests[x], rooms', sessions')
              /\ requests[x].session \in SessionIds /\ requests[x].session # s
  <2>1. Holds(requests[x], rooms, sessions) /\ requests[x].session \in SessionIds
    BY <1>10, UnderWay DEF DuelInv, HandlersFit
  <2>2. requests[x].session # s
    BY <1>1, <1>2, <1>10 DEF DuelInv, OneHolder, Holder
  <2> QED
    BY <1>6, <2>1, <2>2 DEF Holds
<1>11. HandlersFit'
  <2>1. Read(new) /\ Holds(new, rooms', sessions') /\ Plays(new, published')
        /\ Cardinality(new.room.online) = 2
    BY <1>2, <1>6, <1>7, <1>9 DEF Read, Holds, Plays
  <2>2. ASSUME NEW x \in Requests, x # r PROVE Plays(requests[x], published')
    BY <1>9, <1>10, <2>2 DEF DuelInv, HandlersFit, Plays, Holding
  <2> QED
    BY <1>8, <1>10, <2>1, <2>2 DEF DuelInv, HandlersFit
<1>12. OneHolder'
  <2>1. \A x \in Requests, t \in SessionIds : Holder(t, x)' <=> Holder(t, x)
    BY <1>1, <1>7, <1>8 DEF Holder, Holding
  <2> QED
    BY <1>2, <1>6, <2>1 DEF DuelInv, OneHolder, Store!Exists, Holds
<1>13. ResultsFit'
  BY <1>2, <1>6, <1>9 DEF DuelInv, ResultsFit, Store!Exists, Holds
<1>14. RunningMatchesAreReal'
  BY <1>1, <1>6, <1>8 DEF DuelInv, RunningMatchesAreReal, Served, Holding, Store!Open
<1>15. Typed' /\ ConfigsMatchGame'
  BY <1>1, <1>8, <1>9 DEF DuelInv, Typed, DuelsOK, ConfigsMatchGame
<1> QED
  BY <1>5, <1>11, <1>12, <1>13, <1>14, <1>15 DEF DuelInv

\* The handler ends the session that the room plays: it is its own.
LEMMA EndKeeps ==
  ASSUME DuelInv, NEW r \in Requests, Finish(r) \/ Abandon(r)
  PROVE  DuelInv'
<1> DEFINE q == requests[r]
           s == q.session
           c == q.room.code
<1>1. PICK status \in {"finished", "abandoned"} :
        /\ q.at = IF status = "finished" THEN "finish" ELSE "abandon"
        /\ EndActive(r, q.at, status)
  BY DEF Finish, Abandon, EndActive, At
<1>2. /\ q.at \in Holding /\ q.at # "play" /\ q.at # "idle"
      /\ Goes(r, Idle) /\ UNCHANGED <<duels, frozen, published, trips, asked>>
  BY <1>1 DEF EndActive, Ends, bounds, Holding
<1>3. /\ c \in Codes /\ s \in SessionIds /\ Holds(q, rooms, sessions)
  BY <1>2, UnderWay DEF DuelInv, HandlersFit
<1>4. rooms[c] # NoRoom /\ rooms[c].active = s /\ s # NoSession
  BY <1>3, StoreAssumptions DEF Holds
<1>5. P!EndSession(c, status)
  BY <1>1, <1>4, SameSessionOperations DEF EndActive, Store!Open
<1>6. P!IInv' /\ P!LedgerInv'
  BY <1>3, <1>5, StoreStepKeeps DEF P!Next
<1>7. /\ sessions'[s] # NoSession /\ sessions'[s].status = status
      /\ sessions'[s].humans = sessions[s].humans
      /\ \A t \in SessionIds : t # s => sessions'[t] = sessions[t]
      /\ \A d \in Codes : d # c => rooms'[d] = rooms[d]
  BY <1>3, <1>4, <1>5, StoreAssumptions, P!EndSessionCloses DEF DuelInv
<1>8. requests' \in [Requests -> Request] /\ requests'[r] = Idle
      /\ \A x \in Requests \ {r} : requests'[x] = requests[x]
  BY <1>2, IdleIsRead DEF Goes, DuelInv, Typed
<1>9. ASSUME NEW x \in Requests, x # r, requests[x].at \in Holding
      PROVE  Holds(requests[x], rooms', sessions') /\ requests[x].session # s
  <2>1. Holds(requests[x], rooms, sessions) /\ requests[x].room.code \in Codes
    BY <1>9, UnderWay DEF DuelInv, HandlersFit, Holding
  <2>2. requests[x].session # s
    BY <1>2, <1>3, <1>9 DEF DuelInv, OneHolder, Holder
  <2>3. requests[x].room.code # c
    BY <1>4, <2>1, <2>2 DEF Holds
  <2> QED
    BY <1>7, <2>1, <2>2, <2>3 DEF Holds
<1>10. HandlersFit'
  <2>1. Plays(Idle, published)
    BY DEF Idle, Plays, Holding
  <2> QED
    BY <1>2, <1>8, <1>9, <2>1, IdleIsRead DEF DuelInv, HandlersFit
<1>11. OneHolder'
  <2>1. \A x \in Requests, t \in SessionIds : Holder(t, x)' => Holder(t, x) /\ t # s
    BY <1>8, <1>9, IdleIsRead DEF Holder
  <2>2. \A x \in Requests, t \in SessionIds : Holder(t, x) /\ t # s => Holder(t, x)'
    BY <1>8 DEF Holder
  <2> QED
    BY <1>1, <1>7, <2>1, <2>2 DEF DuelInv, OneHolder, Store!Exists
<1>12. ResultsFit'
  <2>1. IF status = "finished" THEN published[s] # NoResult ELSE published[s] = NoResult
    BY <1>1, <1>2, UnderWay DEF Plays, Holding
  <2> QED
    BY <1>2, <1>7, <2>1 DEF DuelInv, ResultsFit, Store!Exists
<1>13. RunningMatchesAreReal'
  <2> SUFFICES ASSUME NEW d \in Codes, duels[d] # NoDuel, duels[d].phase = "running"
               PROVE  /\ rooms'[d] # NoRoom /\ rooms'[d].active = duels[d].session
                      /\ \E x \in Requests : /\ requests'[x].at = "play"
                                              /\ requests'[x].session = duels[d].session
    BY <1>2 DEF RunningMatchesAreReal, Served, Holding, Store!Open
  <2>1. PICK x \in Requests : /\ rooms[d] # NoRoom /\ rooms[d].active = duels[d].session
                              /\ requests[x].at = "play" /\ requests[x].session = duels[d].session
    BY DEF DuelInv, RunningMatchesAreReal, Served, Store!Open
  <2>2. x # r /\ requests[x].session # s
    BY <1>2, <1>9, <2>1 DEF Holding
  <2>3. d # c
    BY <1>4, <2>1, <2>2
  <2> QED
    BY <1>7, <1>8, <2>1, <2>2, <2>3
<1>14. Typed' /\ ConfigsMatchGame'
  BY <1>2, <1>8 DEF DuelInv, Typed, DuelsOK, ConfigsMatchGame
<1> QED
  BY <1>6, <1>10, <1>11, <1>12, <1>13, <1>14 DEF DuelInv

-----------------------------------------------------------------------------
(* The invariant holds always *)

LEMMA InitKeeps == Init => DuelInv
<1> SUFFICES ASSUME Init PROVE DuelInv
  OBVIOUS
<1>1. P!Init
  BY DEF Init, Store!Init, P!Init
<1>2. P!IInv /\ P!LedgerInv
  BY <1>1, StoreAssumptions, P!InitInvariant, P!InitLedger
<1>3. Typed
  BY IdleIsRead, DuelBounds DEF Init, Typed, DuelsOK
<1>4. \A s \in SessionIds : ~Store!Exists(s)
  BY DEF Init, Store!Init, Store!Exists
<1>5. HandlersFit /\ OneHolder
  BY <1>4, IdleIsRead DEF Init, HandlersFit, OneHolder, Holder, Plays, Idle, Holding
<1>6. ConfigsMatchGame /\ ResultsFit /\ RunningMatchesAreReal
  BY <1>4 DEF Init, ConfigsMatchGame, ResultsFit, RunningMatchesAreReal
<1> QED
  BY <1>2, <1>3, <1>5, <1>6 DEF DuelInv

LEMMA StutterKeeps ==
  ASSUME DuelInv, UNCHANGED vars
  PROVE  DuelInv'
<1>1. /\ UNCHANGED <<store, duels, frozen, published, requests, trips, asked>>
      /\ UNCHANGED <<rooms, sessions, snapshots>>
  BY DEF vars, bounds, store
<1>2. P!IInv' /\ P!LedgerInv'
  BY <1>1, QuietStore, StoreStepKeeps
<1>3. Typed' /\ HandlersFit' /\ OneHolder'
  BY <1>1 DEF DuelInv, Typed, DuelsOK, HandlersFit, OneHolder, Holder, Store!Exists
<1>4. ConfigsMatchGame' /\ ResultsFit' /\ RunningMatchesAreReal'
  BY <1>1 DEF DuelInv, ConfigsMatchGame, ResultsFit, RunningMatchesAreReal, Served, Store!Exists,
     Store!Open
<1> QED
  BY <1>2, <1>3, <1>4 DEF DuelInv

LEMMA NextKeeps == DuelInv /\ [Next]_vars => DuelInv'
<1> SUFFICES ASSUME DuelInv, [Next]_vars PROVE DuelInv'
  OBVIOUS
<1>1. ASSUME NEW r \in Requests, Step(r) PROVE DuelInv'
  BY <1>1, ReadyKeeps, LookCheckFreezeKeep, OpenSessionKeeps, StartKeeps, PlayKeeps,
     CommitKeeps, EndKeeps, CancelKeeps, RemoveKeeps DEF Step
<1>2. ASSUME NEW r \in Requests, NEW m \in Members, NEW c \in Codes,
             \/ \E style \in Styles : AskReady(r, m, c, style)
             \/ AskCancel(r, m, c) \/ Leave(r, m, c)
      PROVE  DuelInv'
  BY <1>2, AskKeeps, LeaveKeeps
<1> QED
  BY <1>1, <1>2, ArriveKeeps, DropKeeps, StutterKeeps DEF Next

\* What the handlers, the service and the store know of each other fits in
\* every reachable state.
THEOREM DuelInvariance == Spec => []DuelInv
BY InitKeeps, NextKeeps, PTL DEF Spec

-----------------------------------------------------------------------------
(* Safety *)

LEMMA InvariantMeansKept == DuelInv => MatchesAreKept
<1> SUFFICES ASSUME DuelInv PROVE TypeOK /\ MatchesHaveOneKeeper
  BY DEF MatchesAreKept, DuelInv
<1>1. TypeOK
  <2>1. P!TypeOK
    BY StoreAssumptions, P!InvariantsImplyTypes DEF DuelInv
  <2>2. Store!TypeOK
    BY <2>1 DEF P!TypeOK, Store!TypeOK, P!Open, Store!Open, P!RoomOf, Store!RoomOf,
       P!Member, Store!Member, P!Connections, Store!Connections, P!Session, Store!Session,
       P!Event, Store!Event
  <2> QED
    BY <2>2 DEF TypeOK, DuelInv, Typed
<1>2. ASSUME NEW s \in SessionIds, Store!Exists(s)
      PROVE  IF sessions[s].status = "running" THEN Cardinality(Served(s)) = 1
             ELSE Served(s) = {}
  <2>1. Served(s) = {r \in Requests : Holder(s, r)}
    BY DEF Served, Holder
  <2>2. CASE sessions[s].status = "running"
    <3>1. PICK r \in Requests : Holder(s, r)
      BY <1>2, <2>2 DEF DuelInv, OneHolder
    <3>2. Served(s) = {r}
      BY <2>1, <3>1 DEF DuelInv, OneHolder
    <3> QED
      BY <2>2, <3>2, FS_Singleton
  <2>3. CASE sessions[s].status # "running"
    BY <2>1, <2>3 DEF DuelInv, HandlersFit, Holds, Holder
  <2> QED
    BY <2>2, <2>3
<1> QED
  BY <1>1, <1>2 DEF MatchesHaveOneKeeper

\* However readying, leaving, failing and ending interleave, a running match
\* has exactly one handler that will end it, and the service shows a match only
\* while its handler plays it in the room's own session.
THEOREM MatchesStayKept == Spec => []MatchesAreKept
BY DuelInvariance, InvariantMeansKept, PTL

\* A finished match has a result for its own participants and its own game; an
\* abandoned one has none.
THEOREM FinishedMatchesAlwaysHaveResults == Spec => []FinishedMatchesHaveResults
<1>1. DuelInv => FinishedMatchesHaveResults
  BY DEF DuelInv, ResultsFit, FinishedMatchesHaveResults, IsResult
<1> QED
  BY <1>1, DuelInvariance, PTL

-----------------------------------------------------------------------------
(* The handlers change the store by its own operations only *)

LEMMA StoreStep == DuelInv /\ [Next]_vars => [P!Next]_(P!vars)
<1> SUFFICES ASSUME DuelInv, [Next]_vars PROVE [P!Next]_(P!vars)
  OBVIOUS
<1>1. CASE UNCHANGED store
  BY <1>1, QuietStore
<1>2. CASE Arrive \/ Drop
  BY <1>2, RoomOperationsSpare, ExpirySpares DEF Arrive, Drop, DuelInv
<1>3. ASSUME NEW r \in Requests, NEW m \in Members, NEW c \in Codes, Leave(r, m, c)
      PROVE  P!Next
  BY <1>3, RoomOperationsSpare DEF Leave, DuelInv
<1>4. ASSUME NEW r \in Requests, OpenSession(r), ~UNCHANGED store PROVE P!Next
  <2> DEFINE room == requests[r].room
  <2>1. PICK s \in SessionIds : Store!StartSession(room.code, room.host, room.online, 0, s)
    BY <1>4 DEF OpenSession
  <2>2. P!StartSession(room.code, room.host, room.online, 0, s)
    BY <2>1, SameSessionOperations
  <2>3. room.code \in Codes /\ room.host \in Members /\ room.online \in SUBSET Members
    BY <1>4, UnderWay DEF OpenSession, At, Copy
  <2>4. P!Cardinality(Members) \in Nat
    BY StoreAssumptions, P!FS_CardinalityType
  <2>5. 0 \in 0 .. P!Cardinality(Members)
    BY <2>4
  <2> QED
    BY <2>2, <2>3, <2>5 DEF P!Next
<1>5. ASSUME NEW r \in Requests, Commit(r), ~UNCHANGED store PROVE P!Next
  <2>1. Store!CommitSnapshot(requests[r].session, 0) /\ requests[r].session \in SessionIds
    BY <1>5, UnderWay DEF Commit, At, Holding
  <2>2. P!CommitSnapshot(requests[r].session, 0)
    BY <2>1, SameSessionOperations
  <2> QED
    BY <2>1, <2>2 DEF P!Next
<1>6. ASSUME NEW r \in Requests, Finish(r) \/ Abandon(r), ~UNCHANGED store PROVE P!Next
  <2>1. PICK status \in {"finished", "abandoned"} :
          Store!EndSession(requests[r].room.code, status) /\ requests[r].room.code \in Codes
    BY <1>6, UnderWay DEF Finish, Abandon, EndActive, At
  <2> QED
    BY <2>1, SameSessionOperations DEF P!Next
<1>7. ASSUME NEW r \in Requests, Ready(r) \/ Look(r) \/ Check(r) \/ Freeze(r) \/ Start(r)
                                 \/ Play(r) \/ Cancel(r) \/ Remove(r)
      PROVE  UNCHANGED store
  BY <1>7 DEF Ready, Look, Check, Freeze, Start, Play, Cancel, Remove
<1>8. ASSUME NEW r \in Requests, NEW m \in Members, NEW c \in Codes,
             (\E style \in Styles : AskReady(r, m, c, style)) \/ AskCancel(r, m, c)
      PROVE  UNCHANGED store
  BY <1>8 DEF AskReady, AskCancel
<1>9. UNCHANGED vars => UNCHANGED store
  BY DEF vars
<1> QED
  BY <1>1, <1>2, <1>3, <1>4, <1>5, <1>6, <1>7, <1>8, <1>9 DEF Next, Step

\* Interleaved handlers drive the store only through its own operations, with
\* arguments it may be given: every theorem about the store holds of a duel room.
THEOREM HandlersImplementStore == Spec => P!Spec
<1>1. Init => P!Init
  BY DEF Init, Store!Init, P!Init
<1> QED
  BY <1>1, StoreStep, DuelInvariance, PTL DEF Spec, P!Spec

\* While handlers play a match nobody joins its room, leaves it or changes seat.
THEOREM RostersStayFrozen == Spec => P!RosterIsFrozenDuringMatch
BY HandlersImplementStore, StoreAssumptions, P!RosterStaysFrozen
=============================================================================
