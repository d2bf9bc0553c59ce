------------------------ MODULE PartyContractProofs ------------------------
(***************************************************************************)
(* PartyStore implements PartyContract: under the mapping of Contract each *)
(* step of the store is a step of the contract or a stutter.               *)
(***************************************************************************)
EXTENDS PartyStoreProofs

-----------------------------------------------------------------------------
(* The mapped variables, room by room *)

LEMMA RosterOfOpenRoom ==
  ASSUME IInv, NEW c \in Codes, Open(c)
  PROVE  RosterOf(rooms[c].id) = Roster(rooms[c])
<1>1. RoomWithId(rooms[c].id) = {c}
  BY DEF IInv, SessionsBelongToRooms, RoomWithId
<1> QED
  BY <1>1 DEF RosterOf

LEMMA RosterOfNoRoom ==
  ASSUME NEW id, \A c \in Codes : Open(c) => rooms[c].id # id
  PROVE  RosterOf(id) = {}
BY DEF RosterOf, RoomWithId

\* A room's running session is the one it points to.
LEMMA RunningInOpenRoom ==
  ASSUME IInv, NEW c \in Codes, Open(c)
  PROVE  Running(rooms[c].id) = IF Idle(c) THEN {} ELSE {rooms[c].active}
<1> DEFINE id == rooms[c].id
<1>1. ASSUME NEW s \in Running(id) PROVE ~Idle(c) /\ s = rooms[c].active
  <2>1. s \in SessionIds /\ Exists(s) /\ sessions[s].status = "running" /\ sessions[s].room = id
    BY <1>1 DEF Running, SessionsOf
  <2>2. PICK d \in Codes : Open(d) /\ rooms[d].active = s
    BY <2>1 DEF IInv, SessionsBelongToRooms
  <2>3. ~Idle(d)
    BY <2>1, <2>2, NullsAreDistinct DEF Idle
  <2>4. c = d
    BY <2>1, <2>2, <2>3 DEF IInv, SessionsBelongToRooms
  <2> QED
    BY <2>2, <2>3, <2>4
<1>2. ASSUME ~Idle(c) PROVE rooms[c].active \in Running(id)
  BY <1>2 DEF IInv, SessionsBelongToRooms, RoomsAreSound, SoundRoom, RoomOf,
     Idle, Running, SessionsOf
<1> QED
  BY <1>1, <1>2

LEMMA PlayingInOpenRoom ==
  ASSUME IInv, NEW c \in Codes, Open(c)
  PROVE  PlayingOf(rooms[c].id) =
           IF Idle(c) THEN NoSession ELSE sessions[rooms[c].active].humans
BY RunningInOpenRoom DEF PlayingOf

\* The matches of a room are counted and seated by its sessions alone.
LEMMA SameSessions ==
  ASSUME UNCHANGED sessions, NEW id
  PROVE  PlayingOf(id)' = PlayingOf(id) /\ SessionsOf(id)' = SessionsOf(id)
BY DEF PlayingOf, Running, SessionsOf, Exists

-----------------------------------------------------------------------------
(* Steps *)

\* Leaving, expiring, reconnecting and choosing a game are departures of
\* nobody or somebody.
LEMMA ShrinkingDeparts ==
  ASSUME IInv, IInv', RoomStep, Shrinks
  PROVE  Contract!Depart
<1>1. ASSUME NEW id \in RoomIds
      PROVE  /\ RosterOf(id)' \subseteq RosterOf(id)
             /\ RosterOf(id)' # RosterOf(id) => PlayingOf(id) = NoSession
  <2>1. CASE \E c \in Codes : Open(c) /\ rooms[c].id = id
    <3>1. PICK c \in Codes : Open(c) /\ rooms[c].id = id
      BY <2>1
    <3>2. RosterOf(id) = Roster(rooms[c])
      BY <3>1, RosterOfOpenRoom
    <3>3. CASE Open(c)'
      <4>1. rooms'[c].id = id
        BY <3>1, <3>3 DEF RoomStep, Evolves, Open
      <4>2. RosterOf(id)' = Roster(rooms'[c])
        <5>1. RoomWithId(id)' = {c}
          BY <3>3, <4>1 DEF IInv, SessionsBelongToRooms, RoomWithId
        <5> QED
          BY <5>1 DEF RosterOf, Roster
      <4>3. Roster(rooms'[c]) # Roster(rooms[c]) => Idle(c)
        BY <3>1 DEF RoomStep, Evolves, Idle
      <4>4. Idle(c) => PlayingOf(id) = NoSession
        BY <3>1, PlayingInOpenRoom
      <4> QED
        BY <3>2, <3>3, <4>2, <4>3, <4>4 DEF Shrinks
    <3>4. CASE ~Open(c)'
      <4>1. Idle(c)
        BY <3>1, <3>4, SoundRoomIsARoom DEF RoomStep, Evolves, Open
      <4>2. PlayingOf(id) = NoSession
        BY <3>1, <4>1, PlayingInOpenRoom
      <4>3. \A d \in Codes : Open(d)' => rooms'[d].id # id
        BY <3>1, <3>4 DEF RoomStep, Evolves, IInv, SessionsBelongToRooms, Open, Idle
      <4>4. RosterOf(id)' = {}
        BY <4>3 DEF RosterOf, RoomWithId
      <4> QED
        BY <4>2, <4>4
    <3> QED
      BY <3>3, <3>4
  <2>2. CASE \A c \in Codes : Open(c) => rooms[c].id # id
    <3>1. \A c \in Codes : Open(c)' => rooms'[c].id # id
      BY <2>2, SoundRoomIsARoom DEF RoomStep, Evolves, Open, Idle
    <3>2. RosterOf(id)' = {} /\ RosterOf(id) = {}
      BY <2>2, <3>1 DEF RosterOf, RoomWithId
    <3> QED
      BY <3>2
  <2> QED
    BY <2>1, <2>2
<1>2. \A id \in RoomIds : PlayingOf(id)' = PlayingOf(id) /\ SessionsOf(id)' = SessionsOf(id)
  BY SameSessions DEF RoomStep
<1> QED
  BY <1>1, <1>2 DEF Contract!Depart

\* Creating a room founds it.
LEMMA CreatingFounds ==
  ASSUME IInv, IInv', NEW c \in Codes, NEW m \in Members, NEW g \in Games,
         NEW id \in RoomIds, CreateRoom(c, m, g, id)
  PROVE  Contract!Found(id, m)
<1>1. /\ rooms'[c].id = id
      /\ rooms'[c].members = [x \in {m} |-> [seat |-> 0, role |-> "host", conn |-> "online",
                                            elders |-> {}]]
      /\ \A d \in Codes : d # c => rooms'[d] = rooms[d]
      /\ ~Open(c) /\ UNCHANGED sessions /\ FreshRoomId(id)
  BY DEF CreateRoom, IInv, RoomsAreSound
<1>2. Roster(rooms'[c]) = {m} /\ rooms'[c] # NoRoom
  <2>1. Roster(rooms'[c]) = {m}
    BY <1>1 DEF Roster
  <2>2. rooms'[c] # NoRoom
    <3> DEFINE new == [id |-> id, host |-> m, game |-> g, active |-> NoSession,
                         status |-> "open",
                         members |-> [x \in {m} |-> [seat |-> 0, role |-> "host",
                                                     conn |-> "online", elders |-> {}]]]
    <3>2. rooms'[c] = new
      BY DEF CreateRoom, IInv, RoomsAreSound
    <3>3. SoundRoom(new)
      BY FoundedRoomIsSound
    <3> QED
      BY <3>2, <3>3, SoundRoomIsARoom
  <2> QED
    BY <2>1, <2>2
<1>3. RosterOf(id) = {} /\ Running(id) = {} /\ SessionsOf(id) = {}
  BY <1>1 DEF FreshRoomId, RosterOf, RoomWithId, Running
<1>4. RosterOf(id)' = {m}
  <2>1. RoomWithId(id)' = {c}
    BY <1>1, <1>2 DEF RoomWithId, Open, FreshRoomId
  <2> QED
    BY <1>2, <2>1 DEF RosterOf
<1>5. ASSUME NEW r \in RoomIds, r # id PROVE RosterOf(r)' = RosterOf(r)
  <2>1. RoomWithId(r)' = RoomWithId(r) /\ c \notin RoomWithId(r)
    BY <1>1, <1>2, <1>5 DEF RoomWithId, Open
  <2>2. \A d \in RoomWithId(r) : rooms'[d] = rooms[d]
    BY <1>1, <2>1 DEF RoomWithId
  <2> QED
    BY <2>1, <2>2 DEF RosterOf
<1>6. \A r \in RoomIds : PlayingOf(r)' = PlayingOf(r) /\ SessionsOf(r)' = SessionsOf(r)
  BY <1>1, SameSessions
<1>7. PlayingOf(id) = NoSession /\ Cardinality(SessionsOf(id)) = 0
  BY <1>3, FS_EmptySet DEF PlayingOf
<1> QED
  BY <1>3, <1>4, <1>5, <1>6, <1>7 DEF Contract!Found

\* A newcomer joins an idle room.
LEMMA EnteringJoins ==
  ASSUME IInv, IInv', NEW c \in Codes, NEW m \in Members, Enter(c, m)
  PROVE  Contract!Join(rooms[c].id, m)
<1> DEFINE id == rooms[c].id
           newcomer == [seat |-> NextSeat(rooms[c].members), role |-> "player",
                        conn |-> "online", elders |-> Roster(rooms[c])]
           new == [rooms[c] EXCEPT !.members =
                     [x \in Roster(rooms[c]) \cup {m} |->
                        IF x = m THEN newcomer ELSE rooms[c].members[x]]]
<1>1. /\ Open(c) /\ Idle(c) /\ m \notin Roster(rooms[c]) /\ SoundRoom(rooms[c])
      /\ UNCHANGED sessions
  BY DEF Enter, Idle, IInv, RoomsAreSound
<1>2. /\ rooms'[c] = new
      /\ \A d \in Codes : d # c => rooms'[d] = rooms[d]
  BY DEF Enter, Roster, IInv, RoomsAreSound
<1>3. /\ SoundRoom(new) /\ Roster(new) = Roster(rooms[c]) \cup {m} /\ new.id = id
  BY <1>1, EnterKeepsSound DEF Enter
<1> HIDE DEF new
<1>4. \A d \in Codes : (Open(d)' <=> Open(d)) /\ (Open(d) => rooms'[d].id = rooms[d].id)
  BY <1>1, <1>2, <1>3, SoundRoomIsARoom DEF Open
<1>5. id \in RoomIds /\ RosterOf(id) = Roster(rooms[c])
  BY <1>1, RosterOfOpenRoom DEF SoundRoom, RoomOf
<1>6. ASSUME NEW r \in RoomIds, r = id PROVE RosterOf(r)' = RosterOf(r) \cup {m}
  <2>1. RoomWithId(r)' = {c}
    BY <1>1, <1>4, <1>6 DEF RoomWithId, IInv, SessionsBelongToRooms
  <2>2. RosterOf(r)' = Roster(rooms'[c])
    BY <2>1 DEF RosterOf
  <2> QED
    BY <1>2, <1>3, <1>5, <1>6, <2>2
<1>7. ASSUME NEW r \in RoomIds, r # id PROVE RosterOf(r)' = RosterOf(r)
  <2>1. RoomWithId(r)' = RoomWithId(r) /\ c \notin RoomWithId(r)
    BY <1>4, <1>7 DEF RoomWithId
  <2>2. \A d \in RoomWithId(r) : rooms'[d] = rooms[d]
    BY <1>2, <2>1 DEF RoomWithId
  <2> QED
    BY <2>1, <2>2 DEF RosterOf
<1>8. /\ PlayingOf(id) = NoSession
      /\ Roster(rooms[c]) # {}
  BY <1>1, PlayingInOpenRoom DEF SoundRoom, Hosted
<1>9. \A r \in RoomIds : PlayingOf(r)' = PlayingOf(r) /\ SessionsOf(r)' = SessionsOf(r)
  BY <1>1, SameSessions
<1> QED
  BY <1>1, <1>5, <1>6, <1>7, <1>8, <1>9 DEF Contract!Join

\* Rooms keep their ids and people when only their match changes.
LEMMA SameRosters ==
  ASSUME IInv,
         \A c \in Codes : /\ Open(c)' <=> Open(c)
                          /\ Open(c) => /\ rooms'[c].id = rooms[c].id
                                        /\ Roster(rooms'[c]) = Roster(rooms[c]),
         NEW id
  PROVE  RosterOf(id)' = RosterOf(id)
<1>1. RoomWithId(id)' = RoomWithId(id)
  BY DEF RoomWithId
<1>2. \A c \in RoomWithId(id) : Roster(rooms'[c]) = Roster(rooms[c])
  BY DEF RoomWithId
<1> QED
  BY <1>1, <1>2 DEF RosterOf, Roster

LEMMA StartingStartsMatch ==
  ASSUME IInv, IInv', NEW c \in Codes, NEW m \in Members, NEW humans \in SUBSET Members,
         NEW bots, NEW s \in SessionIds, StartSession(c, m, humans, bots, s)
  PROVE  Contract!StartMatch(rooms[c].id, humans)
<1> DEFINE room == rooms[c]
           new == [room |-> room.id, game |-> room.game, sequence |-> NextSequence(room.id),
                   status |-> "running", humans |-> humans, stateVersion |-> 0]
           busy == [room EXCEPT !.active = s, !.status = "in_game"]
<1>1. /\ Open(c) /\ Idle(c) /\ SoundRoom(room) /\ ~Exists(s)
      /\ humans \subseteq Roster(room)
  BY DEF StartSession, Idle, IInv, RoomsAreSound
<1>2. /\ rooms'[c] = busy
      /\ \A d \in Codes : d # c => rooms'[d] = rooms[d]
      /\ sessions'[s] = new
      /\ \A t \in SessionIds : t # s => sessions'[t] = sessions[t]
  BY DEF StartSession, IInv, RoomsAreSound, SessionsTyped
<1>3. /\ SoundRoom(busy) /\ busy.id = room.id /\ Roster(busy) = Roster(room)
  BY <1>1, NullsAreDistinct DEF SoundRoom, RoomOf, Hosted, Roster
<1>4. /\ new.room = room.id /\ new.status = "running" /\ new.humans = humans
  OBVIOUS
<1> HIDE DEF new, busy
<1>5. Exists(s)'
  <2>1. new # NoSession
    <3>1. NextSequence(room.id) \in Nat
      <4>1. room.id \in RoomIds
        BY <1>1 DEF SoundRoom, RoomOf
      <4> QED
        BY <4>1, NextSequenceIsNew DEF IInv
    <3>2. room.id \in RoomIds /\ room.game \in Games
      BY <1>1 DEF SoundRoom, RoomOf
    <3>3. new \in Session
      BY <3>1, <3>2 DEF Session, new
    <3> QED
      BY <3>3, NullsAreDistinct
  <2> QED
    BY <1>2, <2>1 DEF Exists
<1>6. ASSUME NEW id \in RoomIds PROVE RosterOf(id)' = RosterOf(id)
  <2>1. \A d \in Codes : /\ Open(d)' <=> Open(d)
                         /\ Open(d) => /\ rooms'[d].id = rooms[d].id
                                       /\ Roster(rooms'[d]) = Roster(rooms[d])
    BY <1>1, <1>2, <1>3, SoundRoomIsARoom DEF Open
  <2> QED
    BY <2>1, SameRosters
<1>7. ASSUME NEW id \in RoomIds, id # room.id
      PROVE  PlayingOf(id)' = PlayingOf(id) /\ SessionsOf(id)' = SessionsOf(id)
  <2>1. SessionsOf(id)' = SessionsOf(id) /\ s \notin SessionsOf(id)
    BY <1>1, <1>2, <1>4, <1>7 DEF SessionsOf, Exists
  <2>2. \A t \in SessionsOf(id) : sessions'[t] = sessions[t]
    BY <1>2, <2>1 DEF SessionsOf
  <2>3. Running(id)' = Running(id)
    BY <2>1, <2>2 DEF Running
  <2>4. {sessions'[t].humans : t \in Running(id)} = {sessions[t].humans : t \in Running(id)}
    BY <2>2 DEF Running
  <2> QED
    BY <2>1, <2>3, <2>4 DEF PlayingOf
<1>8. ASSUME NEW id \in RoomIds, id = room.id
      PROVE  /\ PlayingOf(id) = NoSession /\ PlayingOf(id)' = humans
             /\ Cardinality(SessionsOf(id))' = Cardinality(SessionsOf(id)) + 1
  <2>1. Running(id) = {} /\ PlayingOf(id) = NoSession
    BY <1>1, <1>8, RunningInOpenRoom, PlayingInOpenRoom
  <2>2. SessionsOf(id)' = SessionsOf(id) \cup {s} /\ s \notin SessionsOf(id)
    BY <1>1, <1>2, <1>4, <1>5, <1>8 DEF SessionsOf, Exists
  <2>3. \A t \in SessionsOf(id) : sessions'[t] = sessions[t]
    BY <1>2, <2>2 DEF SessionsOf
  <2>4. Running(id)' = {s}
    BY <1>2, <1>4, <2>1, <2>2, <2>3 DEF Running
  <2>5. PlayingOf(id)' = humans
    <3>1. {sessions'[t].humans : t \in {s}} = {humans}
      BY <1>2, <1>4
    <3> QED
      BY <2>4, <3>1 DEF PlayingOf
  <2>6. IsFiniteSet(SessionsOf(id))
    BY FiniteSupplies, FS_Subset DEF SessionsOf
  <2> QED
    BY <2>1, <2>2, <2>5, <2>6, FS_AddElement
<1>9. room.id \in RoomIds /\ RosterOf(room.id) = Roster(room) /\ Roster(room) # {}
  BY <1>1, RosterOfOpenRoom DEF SoundRoom, RoomOf, Hosted
<1> QED
  BY <1>1, <1>6, <1>7, <1>8, <1>9 DEF Contract!StartMatch

LEMMA EndingEndsMatch ==
  ASSUME IInv, IInv', NEW c \in Codes, NEW status \in {"finished", "abandoned"},
         EndSession(c, status)
  PROVE  Contract!EndMatch(rooms[c].id)
<1> DEFINE room == rooms[c]
           s == room.active
           new == [sessions[s] EXCEPT !.status = status]
           idle == [room EXCEPT !.active = NoSession, !.status = "open"]
<1>1. /\ Open(c) /\ ~Idle(c) /\ SoundRoom(room) /\ s \in SessionIds /\ Exists(s)
      /\ sessions[s] \in Session /\ sessions[s].room = room.id
      /\ sessions[s].status = "running"
  BY DEF EndSession, Idle, IInv, RoomsAreSound, SoundRoom, RoomOf,
     SessionsBelongToRooms, SessionsTyped, Exists
<1>2. /\ rooms'[c] = idle
      /\ \A d \in Codes : d # c => rooms'[d] = rooms[d]
      /\ sessions'[s] = new
      /\ \A t \in SessionIds : t # s => sessions'[t] = sessions[t]
  BY <1>1 DEF EndSession, IInv, RoomsAreSound, SessionsTyped
<1>3. /\ SoundRoom(idle) /\ idle.id = room.id /\ Roster(idle) = Roster(room)
  BY <1>1, NullsAreDistinct DEF SoundRoom, RoomOf, Hosted, Roster
<1>4. /\ new.room = room.id /\ new.status # "running" /\ new # NoSession
  BY <1>1, NullsAreDistinct DEF Session
<1> HIDE DEF new, idle
<1>5. PICK t \in SessionIds : t = s
  BY <1>1
<1>6. ASSUME NEW id \in RoomIds PROVE RosterOf(id)' = RosterOf(id)
  <2>1. \A d \in Codes : /\ Open(d)' <=> Open(d)
                         /\ Open(d) => /\ rooms'[d].id = rooms[d].id
                                       /\ Roster(rooms'[d]) = Roster(rooms[d])
    BY <1>1, <1>2, <1>3, SoundRoomIsARoom DEF Open
  <2> QED
    BY <2>1, SameRosters
<1>7. \A id \in RoomIds : SessionsOf(id)' = SessionsOf(id)
  BY <1>1, <1>2, <1>4, <1>5 DEF SessionsOf, Exists
<1>8. ASSUME NEW id \in RoomIds, id # room.id PROVE PlayingOf(id)' = PlayingOf(id)
  <2>1. \A u \in SessionsOf(id) : sessions'[u] = sessions[u]
    BY <1>1, <1>2, <1>8 DEF SessionsOf
  <2>2. Running(id)' = Running(id)
    BY <1>7, <2>1 DEF Running
  <2>3. {sessions'[u].humans : u \in Running(id)} = {sessions[u].humans : u \in Running(id)}
    BY <2>1 DEF Running
  <2> QED
    BY <2>2, <2>3 DEF PlayingOf
<1>9. ASSUME NEW id \in RoomIds, id = room.id
      PROVE  PlayingOf(id) # NoSession /\ PlayingOf(id)' = NoSession
  <2>1. Running(id) = {t}
    BY <1>1, <1>5, <1>9, RunningInOpenRoom
  <2>2. Running(id)' = {}
    <3>1. \A u \in SessionsOf(id) : u # t => sessions'[u] = sessions[u]
      BY <1>2, <1>5 DEF SessionsOf
    <3>2. \A u \in SessionsOf(id) : u # t => sessions[u].status # "running"
      BY <2>1 DEF Running
    <3> QED
      BY <1>2, <1>4, <1>5, <1>7, <3>1, <3>2 DEF Running
  <2>3. sessions[t].humans \in SUBSET Members
    BY <1>1, <1>5 DEF Session
  <2>4. PlayingOf(id) = sessions[t].humans
    BY <1>1, <1>5, <1>9, PlayingInOpenRoom
  <2> QED
    BY <2>2, <2>3, <2>4, NullsAreDistinct DEF PlayingOf
<1>10. room.id \in RoomIds
  BY <1>1 DEF SoundRoom, RoomOf
<1> QED
  BY <1>6, <1>7, <1>8, <1>9, <1>10 DEF Contract!EndMatch

\* Snapshots and events do not show in the contract.
LEMMA LedgerStutters ==
  ASSUME IInv, UNCHANGED rooms,
         \/ UNCHANGED sessions
         \/ \E s \in SessionIds, expected \in Nat : CommitSnapshot(s, expected)
  PROVE  UNCHANGED Contract!vars
<1>1. \A t \in SessionIds :
        /\ Exists(t)' <=> Exists(t)
        /\ Exists(t) => /\ sessions'[t].status = sessions[t].status
                        /\ sessions'[t].room = sessions[t].room
                        /\ sessions'[t].humans = sessions[t].humans
  <2>1. CASE UNCHANGED sessions
    BY <2>1 DEF Exists
  <2>2. ASSUME NEW s \in SessionIds, NEW expected \in Nat, CommitSnapshot(s, expected),
               NEW t \in SessionIds
        PROVE  /\ Exists(t)' <=> Exists(t)
               /\ Exists(t) => /\ sessions'[t].status = sessions[t].status
                               /\ sessions'[t].room = sessions[t].room
                               /\ sessions'[t].humans = sessions[t].humans
    <3> DEFINE new == [sessions[s] EXCEPT !.stateVersion = expected + 1]
    <3>1. sessions' = [sessions EXCEPT ![s] = new] /\ sessions[s] \in Session
      BY <2>2 DEF CommitSnapshot, IInv, SessionsTyped, Exists
    <3>2. /\ new \in Session /\ new # NoSession /\ new.status = sessions[s].status
          /\ new.room = sessions[s].room /\ new.humans = sessions[s].humans
      BY <3>1, NullsAreDistinct DEF Session
    <3> HIDE DEF new
    <3> QED
      BY <2>2, <3>1, <3>2 DEF CommitSnapshot, IInv, SessionsTyped, Exists
  <2> QED
    BY <2>1, <2>2
<1>2. ASSUME NEW id \in RoomIds
      PROVE  /\ RosterOf(id)' = RosterOf(id) /\ PlayingOf(id)' = PlayingOf(id)
             /\ SessionsOf(id)' = SessionsOf(id)
  <2>1. SessionsOf(id)' = SessionsOf(id)
    BY <1>1 DEF SessionsOf
  <2>2. Running(id)' = Running(id)
    BY <1>1, <2>1 DEF Running, SessionsOf
  <2>3. {sessions'[u].humans : u \in Running(id)} = {sessions[u].humans : u \in Running(id)}
    BY <1>1 DEF Running, SessionsOf
  <2>4. RosterOf(id)' = RosterOf(id)
    BY DEF RosterOf, RoomWithId, Open
  <2> QED
    BY <2>1, <2>2, <2>3, <2>4 DEF PlayingOf
<1> QED
  BY <1>2 DEF Contract!vars

LEMMA StepRefinesContract ==
  ASSUME IInv, IInv', [Next]_vars
  PROVE  [Contract!Next]_(Contract!vars)
<1>1. ASSUME NEW c \in Codes, NEW m \in Members, Enter(c, m) PROVE Contract!Next
  <2>1. rooms[c].id \in RoomIds
    BY <1>1 DEF Enter, Idle, IInv, RoomsAreSound, SoundRoom, RoomOf
  <2> QED
    BY <1>1, <2>1, EnteringJoins DEF Contract!Next
<1>2. ASSUME RoomStep, Shrinks PROVE Contract!Next
  BY <1>2, ShrinkingDeparts DEF Contract!Next
<1>3. ASSUME NEW c \in Codes, NEW m \in Members,
             \/ Rejoin(c, m) \/ LeaveRoom(c, m) \/ GraceElapses(c, m)
             \/ \E conn \in {"online", "offline"} : SetConnection(c, m, conn)
             \/ \E g \in Games : SelectGame(c, m, g)
      PROVE  Contract!Next
  <2>1. ASSUME NEW conn \in {"online", "offline"}, SetConnection(c, m, conn)
        PROVE  RoomStep /\ Shrinks
    BY <2>1, ConnectionStep DEF SetConnection, Connections
  <2>2. ASSUME GraceElapses(c, m) PROVE RoomStep /\ Shrinks
    BY <2>2, ConnectionStep DEF GraceElapses, Connections
  <2>3. ASSUME Rejoin(c, m) PROVE RoomStep /\ Shrinks
    BY <2>3, ConnectionStep DEF Rejoin, Connections
  <2> QED
    BY <1>2, <1>3, <2>1, <2>2, <2>3, LeaveStep, SelectGameStep
<1>4. ASSUME ExpireOfflineMembers PROVE Contract!Next
  BY <1>2, <1>4, ExpireStep
<1>5. ASSUME NEW c \in Codes, NEW m \in Members, NEW g \in Games, NEW id \in RoomIds,
             CreateRoom(c, m, g, id)
      PROVE  Contract!Next
  BY <1>5, CreatingFounds DEF Contract!Next
<1>6. ASSUME NEW c \in Codes, NEW m \in Members, NEW humans \in SUBSET Members,
             NEW bots, NEW s \in SessionIds, StartSession(c, m, humans, bots, s)
      PROVE  Contract!Next
  <2>1. rooms[c].id \in RoomIds
    BY <1>6 DEF StartSession, Idle, IInv, RoomsAreSound, SoundRoom, RoomOf
  <2> QED
    BY <1>6, <2>1, StartingStartsMatch DEF Contract!Next
<1>7. ASSUME NEW c \in Codes, NEW status \in {"finished", "abandoned"},
             EndSession(c, status)
      PROVE  Contract!Next
  <2>1. rooms[c].id \in RoomIds
    BY <1>7 DEF EndSession, Open, IInv, RoomsAreSound, SoundRoom, RoomOf
  <2> QED
    BY <1>7, <2>1, EndingEndsMatch DEF Contract!Next
<1>8. ASSUME NEW s \in SessionIds, NEW expected \in 0 .. MaxVersion,
             CommitSnapshot(s, expected)
      PROVE  UNCHANGED Contract!vars
  <2>1. expected \in Nat /\ UNCHANGED rooms
    BY <1>8, BoundsAreNaturals DEF CommitSnapshot
  <2> QED
    BY <1>8, <2>1, LedgerStutters
<1>9. ASSUME NEW s, NEW actor, NEW action, AppendEvent(s, actor, action)
      PROVE  UNCHANGED Contract!vars
  <2>1. UNCHANGED rooms /\ UNCHANGED sessions
    BY <1>9 DEF AppendEvent
  <2> QED
    BY <2>1, LedgerStutters
<1>10. CASE UNCHANGED vars
  <2>1. UNCHANGED rooms /\ UNCHANGED sessions
    BY <1>10 DEF vars
  <2> QED
    BY <2>1, LedgerStutters
<1>11. CASE Next
  BY <1>1, <1>3, <1>4, <1>5, <1>6, <1>7, <1>8, <1>9, <1>11 DEF Next
<1> QED
  BY <1>10, <1>11

\* No room is open and no match was played in the beginning.
LEMMA InitRefinesContract == Init => Contract!Init
<1> SUFFICES ASSUME Init PROVE Contract!Init
  OBVIOUS
<1>1. ASSUME NEW id \in RoomIds
      PROVE  RosterOf(id) = {} /\ PlayingOf(id) = NoSession /\ Cardinality(SessionsOf(id)) = 0
  <2>1. SessionsOf(id) = {}
    BY DEF Init, SessionsOf, Exists
  <2>2. RosterOf(id) = {}
    BY DEF Init, RosterOf, RoomWithId, Open
  <2> QED
    BY <2>1, <2>2, FS_EmptySet DEF PlayingOf, Running
<1> QED
  BY <1>1 DEF Contract!Init

\* The store refines the contract: in every behaviour each room is one set of
\* people that plays one numbered match at a time, with a fixed line-up.
THEOREM StoreKeepsContract == Spec => KeepsContract
BY InitRefinesContract, StepRefinesContract, Invariance, PTL
   DEF Spec, KeepsContract, Contract!Spec
=============================================================================
