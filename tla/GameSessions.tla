---------------------------- MODULE GameSessions ----------------------------
(***************************************************************************)
(* Games of "Who is AI" in social rooms: the socket handlers of            *)
(* internal/realtime/server.go keep two stores in step, that of the games  *)
(* (GameLife) and that of rooms and sessions (PartyStore).  A handler      *)
(* calls one store and then the other, and holds no lock in between, so    *)
(* each call is a step and others act between two of them.  What a person  *)
(* asks for is handled one after another; `Clock` stands for the timers,   *)
(* which move for people.                                                  *)
(*                                                                         *)
(* Requests without a session id are let through (validateActiveSession),  *)
(* so the id takes no behaviour away.  All rooms are in the normal mode,   *)
(* and no AI players are called in.                                        *)
(***************************************************************************)
EXTENDS Naturals, FiniteSets

CONSTANTS
  Code, RoomIds, Members, SessionIds, Clock,
  WhoIsAI, OtherGame, Catalogue,  \* the games a room can be for
  NoRoom, NoSession, Nobody,
  MinHumans, MaxMatches,
  MaxEdits   \* bound on the changes of the game

Actors == Members \cup {Clock}
Games == {WhoIsAI, OtherGame}

ASSUME ActorsAreTold == {Clock, Nobody} \cap Members = {}
ASSUME BoundsAreNumbers == {MinHumans, MaxMatches, MaxEdits} \subseteq Nat /\ MinHumans > 0
ASSUME FiniteSupplies == IsFiniteSet(Members) /\ IsFiniteSet(SessionIds) /\ IsFiniteSet(RoomIds)
ASSUME SuppliesSuffice ==
  MaxMatches <= Cardinality(SessionIds) /\ Cardinality(SessionIds) < Cardinality(RoomIds)

VARIABLES
  status, mode, people, ahead, offline, match,  \* of the game's store (GameLife)
  rooms, sessions, snapshots,           \* of the platform's store (PartyStore)
  joined,    \* members whose connection is in the room (joinedRoomID)
  handlers,  \* what each actor's handler does next, and what it has read
  edits,     \* history: changes of the game so far
  shown,     \* edits as the latest snapshot of each session shows them
  serves,    \* match that each session was opened for, 0 if no game was on any more
  told       \* last match that people have been told of

game == <<status, mode, people, ahead, offline, match>>
platform == <<rooms, sessions, snapshots>>
history == <<shown, serves, told>>
vars == <<game, platform, joined, handlers, edits, history>>

Life == INSTANCE GameLife WITH Humans <- Members, Modes <- {"normal"}

Store == INSTANCE PartyStore WITH
  Codes <- {Code}, Actors <- {}, ActionIds <- {}, NoAction <- Nobody,
  MaxVersion <- MaxEdits, MaxEvents <- 0,
  events <- {}, actionIDs <- [s \in SessionIds |-> {}], nextEventID <- 0

ASSUME CatalogueIsValid ==
  /\ Catalogue \in [Games -> Store!GameEntry]
  /\ \A g \in Games : Catalogue[g].min <= Catalogue[g].max
ASSUME NullsAreDistinct ==
  /\ NoSession \notin SessionIds \cup Store!Session
  /\ \A members \in SUBSET Members :
       NoRoom \notin Store!RoomOf(members) /\ NoSession # members

Places == {"idle", "route", "found", "switch", "join", "welcome", "leave", "drop",
           "ensure", "open", "look", "read", "commit", "finish", "abandon"}
Handler == [at : Places,
            back : BOOLEAN,     \* had a seat before (reconnected); starts a game that is on
            over : BOOLEAN,     \* holds a gameFinished event
            people : SUBSET Members, match : Nat,  \* of the game it started
            session : SessionIds \cup {NoSession}, version : Nat, seen : Nat]
Resting == [at |-> "idle", back |-> FALSE, over |-> FALSE, people |-> {}, match |-> 0,
            session |-> NoSession, version |-> 0, seen |-> 0]

TypeOK ==
  /\ Life!TypeOK /\ Store!TypeOK
  /\ joined \subseteq Members
  /\ handlers \in [Actors -> Handler]
  /\ edits \in Nat /\ told \in Nat
  /\ shown \in [SessionIds -> Nat] /\ serves \in [SessionIds -> Nat]

At(a, place) == handlers[a].at = place
Goes(a, handler) == handlers' = [handlers EXCEPT ![a] = handler]
Proceeds(a, place) == Goes(a, [handlers[a] EXCEPT !.at = place])
Ends(a) == Goes(a, Resting)

\* The room now, against what a handler needs of it.
Present == Store!Open(Code)
Active == IF Present THEN rooms[Code].active ELSE NoSession
IsMember(p) == Present /\ p \in Store!Roster(rooms[Code])

\* Ids are opaque, so it does not matter which of the unused ones is next.
NewRoomId == CHOOSE id \in RoomIds : Store!FreshRoomId(id)
NewSessionId == CHOOSE s \in SessionIds : ~Store!Exists(s)

Init ==
  /\ Life!Init /\ Store!Init
  /\ joined = {} /\ handlers = [a \in Actors |-> Resting]
  /\ edits = 0 /\ told = 0
  /\ shown = [s \in SessionIds |-> 0] /\ serves = [s \in SessionIds |-> 0]

-----------------------------------------------------------------------------
(* The first call of each handler *)

Begins(a) == At(a, "idle") /\ edits < MaxEdits
Edits == edits' = edits + 1

\* handleJoinRoom with createNew: the code is a new one, so nobody gets between
\* the calls.
OpenRoom(p) ==
  /\ Begins(p) /\ p \notin joined
  /\ status = "absent" /\ ~Present
  /\ Store!CreateRoom(Code, p, WhoIsAI, NewRoomId)
  /\ status' = "waiting" /\ mode' = "normal"
  /\ people' = {p} /\ ahead' = {} /\ offline' = {}
  /\ joined' = joined \cup {p}
  /\ Edits
  /\ UNCHANGED <<match, handlers, history>>

\* handleJoinRoom: the seat in the game comes first.
JoinRoom(p) ==
  /\ Begins(p) /\ p \notin joined
  /\ Life!Rejoin(p) \/ Life!JoinPlayer(p, "normal")
  /\ Goes(p, [Resting EXCEPT !.at = "route", !.back = (p \in people)])
  /\ Edits
  /\ UNCHANGED <<platform, joined, history>>

LeaveRoom(p) ==
  /\ Begins(p) /\ p \in joined
  /\ Life!LeavePlayer(p)
  /\ Goes(p, [Resting EXCEPT !.at = "leave"])
  /\ Edits
  /\ UNCHANGED <<platform, joined, history>>

Disconnect(p) ==
  /\ Begins(p) /\ p \in joined
  /\ joined' = joined \ {p}
  /\ IF IsMember(p) THEN Store!SetConnection(Code, p, "offline") ELSE UNCHANGED platform
  /\ Goes(p, [Resting EXCEPT !.at = "drop"])
  /\ UNCHANGED <<game, edits, history>>

SelectGame(p, g) ==
  /\ At(p, "idle") /\ p \in joined
  /\ Store!SelectGame(Code, p, g)
  /\ UNCHANGED <<game, joined, handlers, edits, history>>

Starting == {a \in Actors : handlers[a].at \in {"ensure", "open"}}
UnusedIds == {s \in SessionIds : ~Store!Exists(s)}

\* Bound on the games that are started once more while they are on: an unused id
\* remains for everybody who may open a session, and for the matches to come.
StartsAgain(p) ==
  /\ status = "playing" /\ Life!IsHost(p)
  /\ Cardinality(UnusedIds) > Cardinality(Starting) + (MaxMatches - match)
  /\ UNCHANGED <<game, edits>>

\* startGame; the handler holds the room that StartGame returned, of a game that is
\* on also when it is not the one to begin it.
StartGame(p) ==
  /\ Begins(p) /\ p \in joined
  /\ \/ /\ (Life!StartGame(p) /\ Edits) \/ StartsAgain(p)
        /\ Goes(p, [Resting EXCEPT !.at = "ensure", !.people = people', !.match = match',
                                   !.back = (status = "playing")])
     \/ Life!RefusedStart(p) /\ Edits /\ UNCHANGED handlers
  /\ UNCHANGED <<platform, joined, history>>

ResetRoom(p) ==
  /\ Begins(p) /\ p \in joined
  /\ Life!ResetRoomByHost(p)
  /\ Goes(p, [Resting EXCEPT !.at = "abandon"])
  /\ Edits
  /\ UNCHANGED <<platform, joined, history>>

\* A connection that has joined no room has no name (joinedPlayerID is empty).
Rematch(p) ==
  /\ Begins(p)
  /\ Life!PrepareRematchByHost(IF p \in joined THEN p ELSE Nobody)
  /\ Edits
  /\ UNCHANGED <<platform, joined, handlers, history>>

\* Faulty variants, each named for its fault, stand before the definition they
\* vary; no specification uses them.
MoveWithoutEnd(a) ==
  /\ Begins(a)
  /\ a = Clock \/ a \in joined \cap people
  /\ match > 0 /\ told = match
  /\ \/ Life!EndGame
     \/ status \in {"playing", "finished"} /\ UNCHANGED game
  /\ Goes(a, [Resting EXCEPT !.at = "look"])
  /\ Edits
  /\ UNCHANGED <<platform, joined, history>>

\* A nomination or a vote, of somebody at the table or of a timer, in a game
\* that people know of; one that comes late may decide a game once more.
Move(a) ==
  /\ Begins(a)
  /\ a = Clock \/ a \in joined \cap people
  /\ match > 0 /\ told = match
  /\ \E over \in BOOLEAN :
       /\ \/ over /\ Life!EndGame
          \/ status = "playing" /\ ~over /\ UNCHANGED game
          \/ status = "finished" /\ UNCHANGED game
       /\ Goes(a, [Resting EXCEPT !.at = "look", !.over = over])
  /\ Edits
  /\ UNCHANGED <<platform, joined, history>>

-----------------------------------------------------------------------------
(* The second calls: joinPartyRoom, and what follows a seat that was given   *)
(* up or lost.                                                               *)

Quietly(a) == UNCHANGED <<game, edits, history>>

\* Who is refused by the platform keeps his seat in the game, but his
\* connection is not in the room.
Route(p) ==
  /\ At(p, "route")
  /\ IF ~Present THEN Proceeds(p, "found")
     ELSE IF rooms[Code].game = WhoIsAI THEN Proceeds(p, "join")
     ELSE IF rooms[Code].host = p THEN Proceeds(p, "switch") ELSE Ends(p)
  /\ UNCHANGED <<platform, joined>> /\ Quietly(p)

Found(p) ==
  /\ At(p, "found")
  /\ IF Present THEN Ends(p) /\ UNCHANGED <<platform, joined>>
     ELSE /\ Store!CreateRoom(Code, p, WhoIsAI, NewRoomId)
          /\ joined' = joined \cup {p}
          /\ Proceeds(p, "welcome")
  /\ Quietly(p)

Switch(p) ==
  /\ At(p, "switch")
  /\ \/ Store!SelectGame(Code, p, WhoIsAI) /\ Proceeds(p, "join")
     \/ /\ ~(Store!Idle(Code) /\ rooms[Code].host = p)
        /\ Ends(p) /\ UNCHANGED platform
  /\ UNCHANGED joined /\ Quietly(p)

HasPlace == Cardinality(Store!Roster(rooms[Code])) < Catalogue[rooms[Code].game].max

Join(p) ==
  /\ At(p, "join")
  /\ \/ /\ Store!Rejoin(Code, p) \/ Store!Enter(Code, p)
        /\ joined' = joined \cup {p} /\ Proceeds(p, "welcome")
     \/ /\ ~IsMember(p) /\ ~(Store!Idle(Code) /\ HasPlace)
        /\ Ends(p) /\ UNCHANGED <<platform, joined>>
  /\ Quietly(p)

\* ReconnectEvents tells who comes back of his game, and that it is over.
Welcome(p) ==
  /\ At(p, "welcome")
  /\ IF handlers[p].back /\ status \in {"playing", "finished"}
     THEN /\ Goes(p, [Resting EXCEPT !.at = "look", !.over = (status = "finished")])
          /\ told' = match
     ELSE Ends(p) /\ UNCHANGED told
  /\ UNCHANGED <<game, platform, joined, edits, shown, serves>>

Leave(p) ==
  /\ At(p, "leave")
  /\ \/ Store!LeaveRoom(Code, p) /\ joined' = joined \ {p}
     \/ ~(Store!Idle(Code) /\ IsMember(p)) /\ UNCHANGED <<platform, joined>>
  /\ Ends(p) /\ Quietly(p)

Drop(p) ==
  /\ At(p, "drop")
  /\ \/ Life!SetPlayerDisconnected(p) /\ Edits
     \/ p \notin people /\ UNCHANGED <<game, edits>>
  /\ Ends(p)
  /\ UNCHANGED <<platform, joined, history>>

-----------------------------------------------------------------------------
(* emitGameStart: ensurePlatformSession looks for a session, then opens one  *)
(* for the people it was given.                                              *)

\* Of a game that was on already, StartGame returned no events.
Announces(p) ==
  /\ told' = handlers[p].match
  /\ IF handlers[p].back THEN Ends(p) ELSE Proceeds(p, "look")

Ensure(p) ==
  /\ At(p, "ensure")
  /\ IF Active # NoSession THEN Announces(p)
     ELSE Proceeds(p, "open") /\ UNCHANGED told
  /\ UNCHANGED <<game, platform, joined, edits, shown, serves>>

MatchServed(p) == IF status = "playing" THEN handlers[p].match ELSE 0

Admitted(p, guests) ==
  /\ Store!Idle(Code) /\ rooms[Code].host = p
  /\ guests \subseteq Store!Roster(rooms[Code])
  /\ Cardinality(guests) \in Catalogue[rooms[Code].game].min .. Catalogue[rooms[Code].game].max

OpenForMembers(p) ==
  LET h == handlers[p]
      everybody == IF Present THEN Store!Roster(rooms[Code]) ELSE {}
  IN  /\ At(p, "open")
      /\ IF Admitted(p, everybody)
         THEN /\ Store!StartSession(Code, p, everybody, 0, NewSessionId)
              /\ serves' = [serves EXCEPT ![NewSessionId] = MatchServed(p)]
              /\ Announces(p)
         ELSE Ends(p) /\ UNCHANGED <<platform, serves, told>>
      /\ UNCHANGED <<game, joined, edits, shown>>

\* When the platform refuses, the game stays begun.
OpenSession(p) ==
  LET h == handlers[p]
  IN  /\ At(p, "open")
      /\ IF Admitted(p, h.people)
         THEN /\ Store!StartSession(Code, p, h.people, 0, NewSessionId)
              /\ serves' = [serves EXCEPT ![NewSessionId] = MatchServed(p)]
              /\ Announces(p)
         ELSE Ends(p) /\ UNCHANGED <<platform, serves, told>>
      /\ UNCHANGED <<game, joined, edits, shown>>

-----------------------------------------------------------------------------
(* emitEvents: the snapshot is committed for the version that was read       *)
(* before the game was; then a game that is over ends its session.           *)

Closes(a) == IF handlers[a].over THEN Proceeds(a, "finish") ELSE Ends(a)

Look(a) ==
  /\ At(a, "look")
  /\ IF Active = NoSession THEN Closes(a)
     ELSE Goes(a, [handlers[a] EXCEPT !.at = "read", !.session = Active,
                                      !.version = sessions[Active].stateVersion])
  /\ UNCHANGED <<platform, joined>> /\ Quietly(a)

\* Without people there is nobody to show a snapshot to.
Read(a) ==
  /\ At(a, "read")
  /\ IF people = {} THEN Closes(a)
     ELSE Goes(a, [handlers[a] EXCEPT !.at = "commit", !.seen = edits])
  /\ UNCHANGED <<platform, joined>> /\ Quietly(a)

CommitInAnyOrder(a) ==
  LET h == handlers[a]
      s == h.session
  IN  /\ At(a, "commit")
      /\ IF shown[s] # h.seen /\ sessions[s].status = "running"
         THEN /\ Store!CommitSnapshot(s, sessions[s].stateVersion)
              /\ shown' = [shown EXCEPT ![s] = h.seen]
         ELSE UNCHANGED <<platform, shown>>
      /\ Closes(a)
      /\ UNCHANGED <<game, joined, edits, serves, told>>

\* A snapshot that shows nothing new is not committed, one of another version
\* is refused.
Commit(a) ==
  LET h == handlers[a]
      s == h.session
  IN  /\ At(a, "commit")
      /\ IF shown[s] # h.seen /\ sessions[s].stateVersion = h.version
            /\ sessions[s].status = "running"
         THEN /\ Store!CommitSnapshot(s, h.version)
              /\ shown' = [shown EXCEPT ![s] = h.seen]
         ELSE UNCHANGED <<platform, shown>>
      /\ Closes(a)
      /\ UNCHANGED <<game, joined, edits, serves, told>>

\* FinishSession and AbandonSession end whatever session the room plays.
EndActive(a, place, outcome) ==
  /\ At(a, place)
  /\ IF Active # NoSession THEN Store!EndSession(Code, outcome) ELSE UNCHANGED platform
  /\ Ends(a)
  /\ UNCHANGED joined /\ Quietly(a)

Finish(a) == EndActive(a, "finish", "finished")
Abandon(a) == EndActive(a, "abandon", "abandoned")

-----------------------------------------------------------------------------
\* The lobby takes the seats of members who are away for long (WaitingRooms).
Lobby ==
  /\ (\E p \in Members : Store!GraceElapses(Code, p)) \/ Store!ExpireOfflineMembers
  /\ UNCHANGED <<game, joined, handlers, edits, history>>

Request(p) ==
  \/ OpenRoom(p) \/ JoinRoom(p) \/ LeaveRoom(p) \/ Disconnect(p)
  \/ \E g \in Games : SelectGame(p, g)
  \/ StartGame(p) \/ ResetRoom(p) \/ Rematch(p)

Step(a) ==
  \/ Route(a) \/ Found(a) \/ Switch(a) \/ Join(a) \/ Welcome(a)
  \/ Leave(a) \/ Drop(a) \/ Ensure(a) \/ OpenSession(a)
  \/ Look(a) \/ Read(a) \/ Commit(a) \/ Finish(a) \/ Abandon(a)

Next ==
  \/ Lobby \/ \E p \in Members : Request(p)
  \/ \E a \in Actors : Move(a) \/ Step(a)

Spec == Init /\ [][Next]_vars

\* A handler that has begun goes on: its goroutine is scheduled.
FairSpec == Spec /\ \A a \in Actors : WF_vars(Step(a))

-----------------------------------------------------------------------------
(* Properties *)

Running(s) == Store!Exists(s) /\ sessions[s].status = "running"

\* A later snapshot of a session never shows an older state of the game, though
\* handlers build theirs at the same time and commit them in any order
\* (commitAndEmitSnapshot reads the version first).
SnapshotsNeverGoBack == [][\A s \in SessionIds : shown'[s] >= shown[s]]_vars

\* While the match that a session was opened for is on, its participants are the
\* people at the table, and all of them are members of the room: nobody takes or
\* gives up a place in only one of the two stores (ensurePlatformSession,
\* leaveRoom, joinRoom).
SessionsSeatTheTable ==
  \A s \in SessionIds : Running(s) /\ status = "playing" /\ serves[s] = match =>
    /\ sessions[s].humans = people
    /\ Active = s

\* The room of the platform and the room of the game are two records of the same
\* people (joinRoom, leaveRoom, emitGameStart).
RoomsAgree == TypeOK /\ SessionsSeatTheTable

\* A game that is over ends every session that its room opened while it, or an
\* earlier one, was on: else the room would stay closed to newcomers, to leavers and
\* to other games (emitEvents, finishPlatformSession).
FinishedGamesEndSessions ==
  \A s \in SessionIds :
    (status = "finished" /\ Running(s) /\ serves[s] # 0) ~> (status # "finished" \/ ~Running(s))

Quiet == \A a \in Actors : At(a, "idle")

\* Settlements are kept in step with the platform's sessions (docs/architecture/
\* social-game-platform.md:237): when a game is over and no handler is under way, its
\* room plays no session any more.
SettledGamesHaveNoSession == status = "finished" /\ Quiet => Active = NoSession
=============================================================================
