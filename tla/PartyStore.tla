----------------------------- MODULE PartyStore -----------------------------
(***************************************************************************)
(* The store of social rooms and game sessions                             *)
(* (internal/platform/store.go, MemoryStore).  Every operation holds the   *)
(* store's single lock from its first check to its last write, so each is  *)
(* one action here; calls that return an error change nothing and have no  *)
(* step.                                                                   *)
(***************************************************************************)
EXTENDS Naturals, FiniteSets, FiniteSetsExt

CONSTANTS
  Codes,       \* room codes that can be asked for
  RoomIds,     \* supply of internal room ids (newID never repeats one)
  Members,     \* member ids
  Games,       \* ids of the game catalogue
  Catalogue,   \* catalogue entry of each game
  SessionIds,  \* supply of session ids
  Actors,      \* participants that act in a session
  ActionIds,   \* idempotency keys a client attaches to an action
  NoRoom, NoSession, NoAction,
  MaxVersion,  \* bound on the snapshots of one session
  MaxEvents    \* bound on the events ever appended

GameEntry == [status : {"active", "coming_soon", "disabled"},
              min : Nat \ {0}, max : Nat \ {0}]

ASSUME FiniteSupplies == /\ IsFiniteSet(Members)
                         /\ IsFiniteSet(SessionIds)
ASSUME CatalogueIsValid ==
  /\ Catalogue \in [Games -> GameEntry]
  /\ \A g \in Games : Catalogue[g].min <= Catalogue[g].max
ASSUME BoundsAreNaturals == MaxVersion \in Nat /\ MaxEvents \in Nat

VARIABLES
  rooms,      \* room held under each code (roomsByCode), or NoRoom
  sessions,   \* session of each id, or NoSession
  snapshots,  \* version of the latest snapshot of each session, 0 when none
  events,     \* events appended so far, each with its global id
  actionIDs,  \* <<actor, action>> keys already taken in each session
  nextEventID

vars == <<rooms, sessions, snapshots, events, actionIDs, nextEventID>>
ledger == <<events, actionIDs, nextEventID>>

-----------------------------------------------------------------------------
(* Records.  JoinedAt is only ever compared between members of one room:   *)
(* "elders" holds the members already seated when this one joined.         *)
(* LastSeenAt is only compared with the 90 s cutoff: "expired" is offline  *)
(* for longer than that.                                                   *)

Connections == {"online", "offline", "expired"}
Member == [seat : Nat, role : {"host", "player"}, conn : Connections,
           elders : SUBSET Members]
RoomOf(people) == [id : RoomIds, host : Members, game : Games,
                   active : SessionIds \cup {NoSession},
                   status : {"open", "in_game", "closed"},
                   members : [people -> Member]]
Session == [room : RoomIds, game : Games, sequence : Nat,
            status : {"created", "confirming", "running", "finished", "abandoned"},
            humans : SUBSET Members, stateVersion : Nat]
ASSUME NullsAreDistinct ==
  /\ NoSession \notin SessionIds \cup Session
  /\ \A people \in SUBSET Members : NoRoom \notin RoomOf(people) /\ NoSession # people

Event == [id : Nat, session : SessionIds, actor : Actors,
          action : ActionIds \cup {NoAction}]

Open(c) == rooms[c] # NoRoom

TypeOK ==
  /\ rooms = [c \in Codes |-> rooms[c]]
  /\ \A c \in Codes : Open(c) => \E people \in SUBSET Members : rooms[c] \in RoomOf(people)
  /\ sessions \in [SessionIds -> Session \cup {NoSession}]
  /\ snapshots \in [SessionIds -> Nat]
  /\ events \subseteq Event
  /\ actionIDs \in [SessionIds -> SUBSET (Actors \X ActionIds)]
  /\ nextEventID \in Nat

Exists(s) == sessions[s] # NoSession
Roster(room) == DOMAIN room.members
Ended(s) == Exists(s) /\ sessions[s].status \in {"finished", "abandoned"}
Idle(c) == Open(c) /\ rooms[c].active = NoSession
SessionsOf(id) == {s \in SessionIds : Exists(s) /\ sessions[s].room = id}
Sequences(id) == {sessions[s].sequence : s \in SessionsOf(id)}

FreshRoomId(id) == /\ \A c \in Codes : Open(c) => rooms[c].id # id
                   /\ SessionsOf(id) = {}

-----------------------------------------------------------------------------
(* Helpers of the operations *)

\* Faulty variants of the operations, each named for its fault, stand before
\* the definition they vary; no specification uses them.
SeatByCount(members) == Cardinality(DOMAIN members)

NextSeat(members) ==
  Min({seat \in 0 .. Cardinality(DOMAIN members) :
         \A m \in DOMAIN members : members[m].seat # seat})

SequenceByFinished(id) ==
  Cardinality({s \in SessionsOf(id) : sessions[s].status # "abandoned"}) + 1

NextSequence(id) == Max({0} \cup Sequences(id)) + 1

OldestOfAll(members) == CHOOSE m \in DOMAIN members : members[m].elders = {}

\* The oldest of the online members, or the oldest of all when none is online.
Successor(members) ==
  LET online == {m \in DOMAIN members : members[m].conn = "online"}
      pool   == IF online = {} THEN DOMAIN members ELSE online
  IN  CHOOSE m \in pool : members[m].elders \cap pool = {}

PromoteHost(room) ==
  LET next == Successor(room.members)
  IN  [room EXCEPT
         !.host = next,
         !.members = [m \in Roster(room) |->
           [room.members[m] EXCEPT !.role = IF m = next THEN "host" ELSE "player"]]]

ReleaseWithoutPromotion(room, gone) ==
  LET kept == Roster(room) \ gone
  IN  IF kept = {} THEN NoRoom
      ELSE [room EXCEPT !.members =
              [m \in kept |-> [room.members[m] EXCEPT !.elders = @ \cap kept]]]

\* The room without the members in "gone": deleted when empty, under a new
\* host when the host is among them.
Release(room, gone) ==
  LET kept == Roster(room) \ gone
      left == [room EXCEPT !.members =
                 [m \in kept |-> [room.members[m] EXCEPT !.elders = @ \cap kept]]]
  IN  IF kept = {} THEN NoRoom
      ELSE IF room.host \in gone THEN PromoteHost(left) ELSE left

-----------------------------------------------------------------------------
Init ==
  /\ rooms = [c \in Codes |-> NoRoom]
  /\ sessions = [s \in SessionIds |-> NoSession]
  /\ snapshots = [s \in SessionIds |-> 0]
  /\ events = {}
  /\ actionIDs = [s \in SessionIds |-> {}]
  /\ nextEventID = 0

CreateRoom(c, m, g, id) ==
  /\ Catalogue[g].status = "active"
  /\ ~Open(c)
  /\ FreshRoomId(id)
  /\ rooms' = [rooms EXCEPT ![c] =
       [id |-> id, host |-> m, game |-> g, active |-> NoSession, status |-> "open",
        members |-> [x \in {m} |-> [seat |-> 0, role |-> "host", conn |-> "online",
                                    elders |-> {}]]]]
  /\ UNCHANGED <<sessions, snapshots, ledger>>

\* JoinRoom by a member who already has a seat: allowed at any time.
Rejoin(c, m) ==
  /\ Open(c) /\ rooms[c].status # "closed"
  /\ m \in Roster(rooms[c])
  /\ rooms' = [rooms EXCEPT ![c].members[m].conn = "online"]
  /\ UNCHANGED <<sessions, snapshots, ledger>>

EnterDuringMatch(c, m) ==
  /\ Open(c)
  /\ m \notin Roster(rooms[c])
  /\ Cardinality(Roster(rooms[c])) < Catalogue[rooms[c].game].max
  /\ LET old == rooms[c].members
         new == [seat |-> NextSeat(old), role |-> "player", conn |-> "online",
                 elders |-> DOMAIN old]
     IN  rooms' = [rooms EXCEPT ![c].members =
           [x \in DOMAIN old \cup {m} |-> IF x = m THEN new ELSE old[x]]]
  /\ UNCHANGED <<sessions, snapshots, ledger>>

\* JoinRoom by somebody new: needs an idle room with a free place.
Enter(c, m) ==
  /\ Idle(c) /\ rooms[c].status # "closed"
  /\ m \notin Roster(rooms[c])
  /\ Cardinality(Roster(rooms[c])) < Catalogue[rooms[c].game].max
  /\ LET old == rooms[c].members
         new == [seat |-> NextSeat(old), role |-> "player", conn |-> "online",
                 elders |-> DOMAIN old]
     IN  rooms' = [rooms EXCEPT ![c].members =
           [x \in DOMAIN old \cup {m} |-> IF x = m THEN new ELSE old[x]]]
  /\ UNCHANGED <<sessions, snapshots, ledger>>

LeaveDuringMatch(c, m) ==
  /\ Open(c)
  /\ m \in Roster(rooms[c])
  /\ rooms' = [rooms EXCEPT ![c] = Release(rooms[c], {m})]
  /\ UNCHANGED <<sessions, snapshots, ledger>>

LeaveRoom(c, m) ==
  /\ Idle(c)
  /\ m \in Roster(rooms[c])
  /\ rooms' = [rooms EXCEPT ![c] = Release(rooms[c], {m})]
  /\ UNCHANGED <<sessions, snapshots, ledger>>

SetConnection(c, m, conn) ==
  /\ Open(c)
  /\ m \in Roster(rooms[c])
  /\ conn \in {"online", "offline"}
  /\ rooms' = [rooms EXCEPT ![c].members[m].conn = conn]
  /\ UNCHANGED <<sessions, snapshots, ledger>>

\* The clock: an offline member's LastSeenAt falls behind OfflineSeatGrace.
GraceElapses(c, m) ==
  /\ Open(c)
  /\ m \in Roster(rooms[c])
  /\ rooms[c].members[m].conn = "offline"
  /\ rooms' = [rooms EXCEPT ![c].members[m].conn = "expired"]
  /\ UNCHANGED <<sessions, snapshots, ledger>>

ExpireDuringMatch ==
  /\ rooms' = [c \in Codes |->
       IF Open(c)
       THEN Release(rooms[c], {m \in Roster(rooms[c]) :
                                 rooms[c].members[m].conn = "expired"})
       ELSE rooms[c]]
  /\ UNCHANGED <<sessions, snapshots, ledger>>

\* WaitingRooms lists the lobby after reclaiming seats in every idle room.
ExpireOfflineMembers ==
  /\ rooms' = [c \in Codes |->
       IF Idle(c)
       THEN Release(rooms[c], {m \in Roster(rooms[c]) :
                                 rooms[c].members[m].conn = "expired"})
       ELSE rooms[c]]
  /\ UNCHANGED <<sessions, snapshots, ledger>>

SelectGameOfAnySize(c, m, g) ==
  /\ Catalogue[g].status = "active"
  /\ Idle(c)
  /\ rooms[c].host = m
  /\ rooms' = [rooms EXCEPT ![c].game = g]
  /\ UNCHANGED <<sessions, snapshots, ledger>>

SelectGame(c, m, g) ==
  /\ Catalogue[g].status = "active"
  /\ Idle(c)
  /\ rooms[c].host = m
  /\ Cardinality(Roster(rooms[c])) <= Catalogue[g].max
  /\ rooms' = [rooms EXCEPT ![c].game = g]
  /\ UNCHANGED <<sessions, snapshots, ledger>>

StartWithStrangers(c, m, humans, bots, s) ==
  /\ Idle(c)
  /\ rooms[c].host = m
  /\ Cardinality(humans) + bots \in Catalogue[rooms[c].game].min .. Catalogue[rooms[c].game].max
  /\ ~Exists(s)
  /\ sessions' = [sessions EXCEPT ![s] =
       [room |-> rooms[c].id, game |-> rooms[c].game,
        sequence |-> NextSequence(rooms[c].id), status |-> "running",
        humans |-> humans, stateVersion |-> 0]]
  /\ rooms' = [rooms EXCEPT ![c].active = s, ![c].status = "in_game"]
  /\ UNCHANGED <<snapshots, ledger>>

\* The participants are room members ("humans") and bots that have no member;
\* only the number of the bots matters.
StartSession(c, m, humans, bots, s) ==
  /\ Idle(c)
  /\ rooms[c].host = m
  /\ LET game == Catalogue[rooms[c].game]
     IN  /\ game.status = "active"
         /\ Cardinality(humans) + bots \in game.min .. game.max
  /\ humans \subseteq Roster(rooms[c])
  /\ ~Exists(s)
  /\ sessions' = [sessions EXCEPT ![s] =
       [room |-> rooms[c].id, game |-> rooms[c].game,
        sequence |-> NextSequence(rooms[c].id), status |-> "running",
        humans |-> humans, stateVersion |-> 0]]
  /\ rooms' = [rooms EXCEPT ![c].active = s, ![c].status = "in_game"]
  /\ UNCHANGED <<snapshots, ledger>>

EndWithSessionStatus(c, status) ==
  /\ Open(c)
  /\ rooms[c].active # NoSession
  /\ sessions' = [sessions EXCEPT ![rooms[c].active].status = status]
  /\ rooms' = [rooms EXCEPT ![c].active = NoSession, ![c].status = status]
  /\ UNCHANGED <<snapshots, ledger>>

\* FinishSession and AbandonSession
EndSession(c, status) ==
  /\ Open(c)
  /\ rooms[c].active # NoSession
  /\ status \in {"finished", "abandoned"}
  /\ sessions' = [sessions EXCEPT ![rooms[c].active].status = status]
  /\ rooms' = [rooms EXCEPT ![c].active = NoSession, ![c].status = "open"]
  /\ UNCHANGED <<snapshots, ledger>>

CommitToAnySession(s, expected) ==
  /\ Exists(s)
  /\ sessions[s].stateVersion = expected
  /\ expected < MaxVersion
  /\ sessions' = [sessions EXCEPT ![s].stateVersion = expected + 1]
  /\ snapshots' = [snapshots EXCEPT ![s] = expected + 1]
  /\ UNCHANGED <<rooms, ledger>>

CommitSnapshot(s, expected) ==
  /\ Exists(s)
  /\ sessions[s].stateVersion = expected
  /\ sessions[s].status \in {"running", "confirming"}
  /\ expected < MaxVersion
  /\ sessions' = [sessions EXCEPT ![s].stateVersion = expected + 1]
  /\ snapshots' = [snapshots EXCEPT ![s] = expected + 1]
  /\ UNCHANGED <<rooms, ledger>>

AppendForgettingKey(s, actor, action) ==
  /\ Exists(s)
  /\ action # NoAction => <<actor, action>> \notin actionIDs[s]
  /\ nextEventID < MaxEvents
  /\ nextEventID' = nextEventID + 1
  /\ events' = events \cup {[id |-> nextEventID + 1, session |-> s,
                             actor |-> actor, action |-> action]}
  /\ UNCHANGED <<rooms, sessions, snapshots, actionIDs>>

AppendEvent(s, actor, action) ==
  /\ Exists(s)
  /\ action # NoAction => <<actor, action>> \notin actionIDs[s]
  /\ nextEventID < MaxEvents
  /\ actionIDs' = [actionIDs EXCEPT
       ![s] = IF action = NoAction THEN @ ELSE @ \cup {<<actor, action>>}]
  /\ nextEventID' = nextEventID + 1
  /\ events' = events \cup {[id |-> nextEventID + 1, session |-> s,
                             actor |-> actor, action |-> action]}
  /\ UNCHANGED <<rooms, sessions, snapshots>>

Next ==
  \/ ExpireOfflineMembers
  \/ \E c \in Codes, m \in Members :
       \/ \E g \in Games, id \in RoomIds : CreateRoom(c, m, g, id)
       \/ Rejoin(c, m)
       \/ Enter(c, m)
       \/ LeaveRoom(c, m)
       \/ \E conn \in {"online", "offline"} : SetConnection(c, m, conn)
       \/ GraceElapses(c, m)
       \/ \E g \in Games : SelectGame(c, m, g)
       \/ \E humans \in SUBSET Members, bots \in 0 .. Cardinality(Members), s \in SessionIds :
            StartSession(c, m, humans, bots, s)
  \/ \E c \in Codes, status \in {"finished", "abandoned"} : EndSession(c, status)
  \/ \E s \in SessionIds, expected \in 0 .. MaxVersion : CommitSnapshot(s, expected)
  \/ \E s \in SessionIds, actor \in Actors, action \in ActionIds \cup {NoAction} :
       AppendEvent(s, actor, action)

Spec == Init /\ [][Next]_vars

-----------------------------------------------------------------------------
(* Properties *)

\* The host of a room is one of its members and the only one with the host
\* role (HostMemberID and the roles of promoteHost, LeaveRoom, JoinRoom).
HostIsSeated ==
  \A c \in Codes : Open(c) =>
    /\ rooms[c].host \in Roster(rooms[c])
    /\ \A m \in Roster(rooms[c]) :
         rooms[c].members[m].role = "host" <=> m = rooms[c].host

\* No two members of a room share a seat, however members come and go
\* (nextSeat; the partial unique index party_room_members_active_seat).
SeatsAreDistinct ==
  \A c \in Codes : Open(c) =>
    \A m, n \in Roster(rooms[c]) :
      rooms[c].members[m].seat = rooms[c].members[n].seat => m = n

\* A room never holds more people than its selected game takes, through joins
\* and changes of game, and a running match is of the selected game.
RoomFitsGame ==
  \A c \in Codes : Open(c) =>
    /\ Cardinality(Roster(rooms[c])) <= Catalogue[rooms[c].game].max
    /\ ~Idle(c) => sessions[rooms[c].active].game = rooms[c].game

\* Rooms and sessions agree: a room in a game points to a running session of
\* its own, and every running session is the one its room points to, so a
\* room runs at most one and none is orphaned by a room's deletion.
SessionsBelongToRooms ==
  /\ \A c \in Codes : Open(c) =>
       /\ rooms[c].status = (IF Idle(c) THEN "open" ELSE "in_game")
       /\ ~Idle(c) => /\ Exists(rooms[c].active)
                      /\ sessions[rooms[c].active].status = "running"
                      /\ sessions[rooms[c].active].room = rooms[c].id
  /\ \A s \in SessionIds : Exists(s) /\ sessions[s].status = "running" =>
       \E c \in Codes : Open(c) /\ rooms[c].active = s
  /\ \A c, d \in Codes : Open(c) /\ Open(d) /\ rooms[c].id = rooms[d].id => c = d

\* Every human participant of a running match still has a seat in the room, so
\* that a player who lost the connection can come back to it.
HumansStaySeated ==
  \A c \in Codes : Open(c) /\ ~Idle(c) =>
    sessions[rooms[c].active].humans \subseteq Roster(rooms[c])

\* The sessions of a room are numbered 1, 2, 3, ... without gap or repetition
\* (nextSequence; UNIQUE (room_id, sequence)).
SequencesAreDense ==
  \A id \in RoomIds : Sequences(id) = 1 .. Cardinality(SessionsOf(id))

\* An event with an action id is recorded once per session and actor, and no
\* two events share a global id (AppendEvent; game_events_action_idempotency).
EventsAreIdempotent ==
  \A e, f \in events :
    e # f =>
      /\ e.id # f.id
      /\ e.action # NoAction =>
           <<e.session, e.actor, e.action>> # <<f.session, f.actor, f.action>>

\* While a match runs nobody joins, leaves, is expired or changes seat.
FreezesRosters ==
  \A c \in Codes : Open(c) /\ ~Idle(c) =>
    /\ Open(c)'
    /\ Roster(rooms'[c]) = Roster(rooms[c])
    /\ \A m \in Roster(rooms[c]) : rooms'[c].members[m].seat = rooms[c].members[m].seat

RosterIsFrozenDuringMatch == [][FreezesRosters]_vars

\* A session that has ended is never changed again: not its status, its
\* participants, its version or its snapshot.
SparesEndedSessions ==
  \A s \in SessionIds : Ended(s) =>
    /\ sessions'[s] = sessions[s]
    /\ snapshots'[s] = snapshots[s]

EndedSessionsAreSealed == [][SparesEndedSessions]_vars

\* A room's host changes only when the host's seat is given up, and then to
\* somebody online if anybody is.
PassesHost ==
  \A c \in Codes :
    LET old == rooms[c]
        new == rooms'[c]
        online == {m \in Roster(new) : new.members[m].conn = "online"}
    IN  Open(c) /\ Open(c)' /\ new.id = old.id /\ new.host # old.host =>
          /\ old.host \notin Roster(new)
          /\ online # {} => new.host \in online

HostPassesToOnlineMember == [][PassesHost]_vars

\* The store keeps the promise of PartyContract: two linked tables behave as
\* one room that plays numbered matches with a fixed line-up.
RoomWithId(id) == {c \in Codes : Open(c) /\ rooms[c].id = id}
Running(id) == {s \in SessionsOf(id) : sessions[s].status = "running"}
RosterOf(id) == UNION {Roster(rooms[c]) : c \in RoomWithId(id)}
PlayingOf(id) == IF Running(id) = {} THEN NoSession
                 ELSE UNION {sessions[s].humans : s \in Running(id)}

Contract == INSTANCE PartyContract WITH
  NoMatch <- NoSession,
  roster  <- [id \in RoomIds |-> RosterOf(id)],
  playing <- [id \in RoomIds |-> PlayingOf(id)],
  played  <- [id \in RoomIds |-> Cardinality(SessionsOf(id))]

KeepsContract == Contract!Spec
=============================================================================
