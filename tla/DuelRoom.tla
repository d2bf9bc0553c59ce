------------------------------ MODULE DuelRoom ------------------------------
(***************************************************************************)
(* Duels in social rooms: the socket handlers of internal/realtime/        *)
(* server.go that carry a duel from "ready" to its result, on top of the   *)
(* store of rooms (PartyStore) and the duel service (DuelService).  A      *)
(* handler holds no lock of its own: every call of the store or of the     *)
(* service is a step, and anybody may act between two of them.             *)
(*                                                                         *)
(* Rooms keep to duel games.  When the host switches between a duel and    *)
(* another game, that game's handlers (resetRoom, commitAndEmitSnapshot,   *)
(* finishPlatformSession) act on whatever session the room plays: they are *)
(* left out, and with them the version conflict they could cause here.     *)
(***************************************************************************)
EXTENDS DuelService

CONSTANTS RoomIds, NoRoom,
          Requests,      \* handlers that can be under way at once
          NoMember, NoCopy, NoData,
          MaxTrips,      \* bound on what happens to the room besides the handlers
          MaxRequests    \* bound on the handlers begun

ASSUME DuelBounds == MaxTrips \in Nat /\ MaxRequests \in Nat
ASSUME FiniteSupplies == IsFiniteSet(Members) /\ IsFiniteSet(SessionIds)

VARIABLES
  rooms, sessions, snapshots,  \* of the store
  frozen,                      \* settings of each session, or NoResult
  published,                   \* match in the snapshot of each session, or NoResult
  requests,                    \* what each handler is about to do and what it holds
  trips, asked                 \* how often the bounded actions have been taken

store == <<rooms, sessions, snapshots>>
bounds == <<trips, asked>>
vars == <<store, duels, frozen, published, requests, bounds>>

Catalogue == [g \in DuelGames |-> [status |-> "active", min |-> 2, max |-> 2]]

\* One snapshot ends a duel and nobody appends events.
Store == INSTANCE PartyStore WITH
  Games <- DuelGames, Actors <- {}, ActionIds <- {}, NoAction <- NoResult,
  MaxVersion <- 1, MaxEvents <- 0,
  events <- {}, actionIDs <- [s \in SessionIds |-> {}], nextEventID <- 0

Places == {"idle", "ready", "look", "check", "freeze", "open", "start", "play",
           "commit", "finish", "abandon", "cancel", "remove"}
Request == [at : Places, member : Members \cup {NoMember}, room : Copy \cup {NoCopy},
            session : SessionIds \cup {NoSession}, data : Config \cup Match \cup {NoData}]
Idle == [at |-> "idle", member |-> NoMember, room |-> NoCopy, session |-> NoSession,
         data |-> NoData]

TypeOK ==
  /\ Store!TypeOK
  /\ DuelsOK
  /\ frozen \in [SessionIds -> Match \cup {NoResult}]
  /\ published \in [SessionIds -> Match \cup {NoResult}]
  /\ requests \in [Requests -> Request]
  /\ trips \in 0 .. MaxTrips /\ asked \in 0 .. MaxRequests

\* The copy of a room that RoomByCode returns.
CopyOf(c) ==
  LET people == Store!Roster(rooms[c])
  IN  [code |-> c, host |-> rooms[c].host, game |-> rooms[c].game, members |-> people,
       online |-> {m \in people : rooms[c].members[m].conn = "online"}]

ASSUME NullsAreDistinct ==
  /\ NoSession \notin SessionIds \cup Store!Session
  /\ \A people \in SUBSET Members : NoRoom \notin Store!RoomOf(people) /\ NoSession # people
  /\ NoDuel \notin RoomState /\ NoResult \notin Match /\ NoCopy \notin Copy

At(r, place) == requests[r].at = place
Goes(r, request) == requests' = [requests EXCEPT ![r] = request]
Proceeds(r, place) == Goes(r, [requests[r] EXCEPT !.at = place])
Ends(r) == Goes(r, Idle)

Init == /\ Store!Init
        /\ duels = [c \in Codes |-> NoDuel]
        /\ frozen = [s \in SessionIds |-> NoResult]
        /\ published = [s \in SessionIds |-> NoResult]
        /\ requests = [r \in Requests |-> Idle]
        /\ trips = 0 /\ asked = 0

-----------------------------------------------------------------------------
(* One call of the store and no more: opening, joining and switching the    *)
(* game (handleJoinDuelRoom, selectGame), a lost connection (disconnect),   *)
(* the lobby.                                                               *)

Trip == /\ trips < MaxTrips
        /\ trips' = trips + 1
        /\ UNCHANGED <<duels, frozen, published, requests, asked>>

Arrive == /\ \E c \in Codes, m \in Members :
               \/ \E g \in DuelGames, id \in RoomIds : Store!CreateRoom(c, m, g, id)
               \/ Store!Rejoin(c, m)
               \/ Store!Enter(c, m)
               \/ \E g \in DuelGames : Store!SelectGame(c, m, g)
          /\ Trip

Drop == /\ \/ \E c \in Codes, m \in Members : \/ Store!SetConnection(c, m, "offline")
                                              \/ Store!GraceElapses(c, m)
           \/ Store!ExpireOfflineMembers
        /\ Trip

-----------------------------------------------------------------------------
(* The beginnings of the handlers: duelReady and duelCancelReady read the   *)
(* room; leaveRoom gives up the seat.                                       *)

Begins(r) == /\ At(r, "idle")
             /\ asked < MaxRequests
             /\ asked' = asked + 1

AskReady(r, m, c, style) ==
  /\ Begins(r)
  /\ Store!Open(c)
  /\ Goes(r, [Idle EXCEPT !.at = "ready", !.member = m, !.room = CopyOf(c),
                          !.data = [game |-> rooms[c].game, style |-> style]])
  /\ UNCHANGED <<store, trips, duels, frozen, published>>

AskCancel(r, m, c) ==
  /\ Begins(r)
  /\ Store!Open(c)
  /\ Goes(r, [Idle EXCEPT !.at = "cancel", !.member = m, !.room = CopyOf(c)])
  /\ UNCHANGED <<store, trips, duels, frozen, published>>

Leave(r, m, c) ==
  /\ Begins(r)
  /\ Store!LeaveRoom(c, m)
  /\ Goes(r, [Idle EXCEPT !.at = "remove", !.member = m, !.room = CopyOf(c)])
  /\ UNCHANGED <<trips, duels, frozen, published>>

-----------------------------------------------------------------------------
(* duelReady, then startDuel step by step *)

Keep(c, stored) == duels' = [duels EXCEPT ![c] = stored]

\* A call that is refused may still have begun the room's state afresh.
Ready(r) ==
  LET q == requests[r]
      stored == Readied(q.room, q.member, q.data)
  IN  /\ At(r, "ready")
      /\ IF Accepts(q.room, q.member)
         THEN /\ Keep(q.room.code, stored)
              /\ IF BothReady(q.room, stored) THEN Proceeds(r, "look") ELSE Ends(r)
         ELSE /\ Ends(r)
              /\ UNCHANGED duels
      /\ UNCHANGED <<store, frozen, published, bounds>>

Look(r) ==
  LET c == requests[r].room.code
  IN  /\ At(r, "look")
      /\ IF Store!Open(c)
         THEN Goes(r, [Idle EXCEPT !.at = "check", !.room = CopyOf(c)])
         ELSE Ends(r)
      /\ UNCHANGED <<store, duels, frozen, published, bounds>>

Check(r) ==
  /\ At(r, "check")
  /\ IF IsReady(requests[r].room) THEN Proceeds(r, "freeze") ELSE Ends(r)
  /\ UNCHANGED <<store, duels, frozen, published, bounds>>

Freeze(r) ==
  LET room == requests[r].room
  IN  /\ At(r, "freeze")
      /\ IF IsReady(room)
         THEN Goes(r, [requests[r] EXCEPT !.at = "open", !.data = Settings(room)])
         ELSE Ends(r)
      /\ UNCHANGED <<store, duels, frozen, published, bounds>>

\* The room as it is now against the copy: same host, both still members.
Welcomes(room) ==
  LET c == room.code
  IN  /\ Store!Idle(c)
      /\ rooms[c].host = room.host
      /\ room.online \subseteq Store!Roster(rooms[c])
      /\ Cardinality(room.online) = 2

OpenSession(r) ==
  LET q == requests[r]
      c == q.room.code
  IN  /\ At(r, "open")
      /\ IF Welcomes(q.room)
         THEN \E s \in SessionIds :
                /\ Store!StartSession(c, q.room.host, q.room.online, 0, s)
                /\ frozen' = [frozen EXCEPT ![s] = q.data]
                /\ Goes(r, [q EXCEPT !.at = "start", !.session = s, !.data = NoData])
         ELSE Ends(r) /\ UNCHANGED <<store, frozen>>
      /\ UNCHANGED <<duels, published, bounds>>

\* Faulty variants, each named for its fault, stand before the definition they
\* vary; no specification uses them.
StartOrForget(r) ==
  LET q == requests[r]
  IN  /\ At(r, "start")
      /\ IF Startable(q.room)
         THEN /\ Keep(q.room.code, Begun(q.room, q.session))
              /\ Goes(r, [q EXCEPT !.at = "play", !.data = Lineup(q.room)])
         ELSE Ends(r) /\ UNCHANGED duels
      /\ UNCHANGED <<store, frozen, published, bounds>>

StartWhenReady(r) ==
  LET q == requests[r]
  IN  /\ At(r, "start")
      /\ Startable(q.room)
      /\ Keep(q.room.code, Begun(q.room, q.session))
      /\ Goes(r, [q EXCEPT !.at = "play", !.data = Lineup(q.room)])
      /\ UNCHANGED <<store, frozen, published, bounds>>

Start(r) ==
  LET q == requests[r]
  IN  /\ At(r, "start")
      /\ IF Startable(q.room)
         THEN /\ Keep(q.room.code, Begun(q.room, q.session))
              /\ Goes(r, [q EXCEPT !.at = "play", !.data = Lineup(q.room)])
         ELSE /\ Keep(q.room.code, EnsuredRoom(q.room))
              /\ Proceeds(r, "abandon")
      /\ UNCHANGED <<store, frozen, published, bounds>>

PlayUnpublished(r) ==
  LET q == requests[r]
  IN  /\ At(r, "play")
      /\ \/ /\ Keep(q.room.code, IF Keeps(q.room.code, q.session)
                                 THEN Settled(q.room.code, q.data) ELSE duels[q.room.code])
            /\ Proceeds(r, "finish")
         \/ /\ Keep(q.room.code, IF Keeps(q.room.code, q.session)
                                 THEN Failed(q.room.code) ELSE duels[q.room.code])
            /\ Proceeds(r, "abandon")
      /\ UNCHANGED <<store, frozen, published, bounds>>

\* The simulation has run, or has refused its input.
Play(r) ==
  LET q == requests[r]
      c == q.room.code
  IN  /\ At(r, "play")
      /\ \/ /\ Keep(c, IF Keeps(c, q.session) THEN Settled(c, q.data) ELSE duels[c])
            /\ Proceeds(r, "commit")
         \/ /\ Keep(c, IF Keeps(c, q.session) THEN Failed(c) ELSE duels[c])
            /\ Proceeds(r, "abandon")
      /\ UNCHANGED <<store, frozen, published, bounds>>

Commit(r) ==
  LET q == requests[r]
  IN  /\ At(r, "commit")
      /\ IF Store!Exists(q.session) /\ sessions[q.session].status = "running"
         THEN /\ Store!CommitSnapshot(q.session, 0)
              /\ published' = [published EXCEPT ![q.session] = q.data]
              /\ Proceeds(r, "finish")
         ELSE Proceeds(r, "abandon") /\ UNCHANGED <<store, published>>
      /\ UNCHANGED <<duels, frozen, bounds>>

\* FinishSession and AbandonSession end whatever session the room plays.
EndActive(r, place, status) ==
  LET c == requests[r].room.code
  IN  /\ At(r, place)
      /\ IF Store!Open(c) /\ rooms[c].active # NoSession
         THEN Store!EndSession(c, status)
         ELSE UNCHANGED store
      /\ Ends(r)
      /\ UNCHANGED <<duels, frozen, published, bounds>>

Finish(r) == EndActive(r, "finish", "finished")
Abandon(r) == EndActive(r, "abandon", "abandoned")

-----------------------------------------------------------------------------
(* The second halves of duelCancelReady and leaveRoom *)

Cancel(r) ==
  LET q == requests[r]
  IN  /\ At(r, "cancel")
      /\ IF Accepts(q.room, q.member)
         THEN Keep(q.room.code, Cancelled(q.room, q.member))
         ELSE UNCHANGED duels
      /\ Ends(r)
      /\ UNCHANGED <<store, frozen, published, bounds>>

Remove(r) ==
  LET q == requests[r]
  IN  /\ At(r, "remove")
      /\ Keep(q.room.code, Removed(q.room.code, q.member))
      /\ Ends(r)
      /\ UNCHANGED <<store, frozen, published, bounds>>

Step(r) == \/ Ready(r) \/ Look(r) \/ Check(r) \/ Freeze(r) \/ OpenSession(r)
           \/ Start(r) \/ Play(r) \/ Commit(r) \/ Finish(r) \/ Abandon(r)
           \/ Cancel(r) \/ Remove(r)

Next == \/ Arrive
        \/ Drop
        \/ \E r \in Requests :
             \/ Step(r)
             \/ \E m \in Members, c \in Codes :
                  \/ \E style \in Styles : AskReady(r, m, c, style)
                  \/ AskCancel(r, m, c)
                  \/ Leave(r, m, c)

Spec == Init /\ [][Next]_vars

\* A handler that has begun goes on: its goroutine is scheduled.
FairSpec == Spec /\ \A r \in Requests : WF_vars(Step(r))

-----------------------------------------------------------------------------
(* Properties *)

Holding == {"start", "play", "commit", "finish", "abandon"}
Served(s) == {r \in Requests : requests[r].session = s /\ requests[r].at \in Holding}

\* A match that runs is in the hands of exactly one handler, through every
\* refusal and failure on the way (startDuel): none is left running for good,
\* and none is ended by two.
MatchesHaveOneKeeper ==
  \A s \in SessionIds : Store!Exists(s) =>
    IF sessions[s].status = "running" THEN Cardinality(Served(s)) = 1 ELSE Served(s) = {}

\* A match counts as finished only with a result in its snapshot, played by
\* its own participants with configurations made for the game that was played;
\* an abandoned one has none (CommitSnapshot before FinishSession).
FinishedMatchesHaveResults ==
  \A s \in SessionIds :
    /\ Store!Exists(s) /\ sessions[s].status = "finished" => published[s] # NoResult
    /\ published[s] # NoResult =>
         /\ sessions[s].status \in {"running", "finished"}
         /\ DOMAIN published[s].lineup = sessions[s].humans
         /\ \A m \in sessions[s].humans : published[s].lineup[m].game = published[s].game

\* The service shows a running match exactly while a handler plays it for the
\* session the room is in; no failure leaves the room closed to the next round.
RunningMatchesAreReal ==
  \A c \in Codes : duels[c] # NoDuel /\ duels[c].phase = "running" =>
    /\ Store!Open(c) /\ rooms[c].active = duels[c].session
    /\ \E r \in Served(duels[c].session) : requests[r].at = "play"

\* No order of readying, leaving, failing and ending leaves a match without the
\* handler that will end it, with two, or with a room that only looks busy
\* (startDuel, leaveRoom, RemovePlayer).
MatchesAreKept == TypeOK /\ MatchesHaveOneKeeper /\ RunningMatchesAreReal

\* Every match that starts comes to an end and frees its room.
MatchesEnd ==
  \A s \in SessionIds :
    (Store!Exists(s) /\ sessions[s].status = "running") ~> Store!Ended(s)

\* When both players are ready their configurations are frozen in the session's
\* settings (README.md:140, docs/architecture/social-game-platform.md:193): these
\* are the ones that the match is played with.
PlayedAsFrozen ==
  \A s \in SessionIds : published[s] # NoResult =>
    \A m \in sessions[s].humans : published[s].lineup[m] = frozen[s].lineup[m]
=============================================================================
