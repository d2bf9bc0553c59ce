-------------------------- MODULE PartyStoreProofs --------------------------
(***************************************************************************)
(* Proofs about PartyStore.  The invariant is built from the soundness of  *)
(* each room taken alone (SoundRoom) and from the links between rooms and  *)
(* sessions, so that an operation on one room is settled by a lemma about  *)
(* the value it produces.                                                  *)
(***************************************************************************)
EXTENDS PartyStore, FiniteSetTheorems, WellFoundedInduction, TLAPS

-----------------------------------------------------------------------------
(* Rooms as values *)

\* Seniority is a strict order, so any group of members has an oldest one.
JoinOrder(members) ==
  \A m \in DOMAIN members :
    /\ members[m].elders \subseteq DOMAIN members \ {m}
    /\ \A x \in members[m].elders : members[x].elders \subseteq members[m].elders

SoundRoster(members) ==
  /\ DOMAIN members \subseteq Members
  /\ members \in [DOMAIN members -> Member]
  /\ JoinOrder(members)
  /\ \A m, n \in DOMAIN members : members[m].seat = members[n].seat => m = n

Hosted(room) ==
  /\ room.host \in Roster(room)
  /\ \A m \in Roster(room) : room.members[m].role = "host" <=> m = room.host

\* The host is online if anybody is.
HostIsOnline(room) ==
  (\E m \in Roster(room) : room.members[m].conn = "online")
    => room.members[room.host].conn = "online"

SoundRoom(room) ==
  /\ room \in RoomOf(Roster(room))
  /\ SoundRoster(room.members)
  /\ Hosted(room)
  /\ room.status = (IF room.active = NoSession THEN "open" ELSE "in_game")
  /\ Cardinality(Roster(room)) <= Catalogue[room.game].max

-----------------------------------------------------------------------------
(* Minima and maxima of sets of numbers *)

\* A nonempty family of subsets of a finite set has a minimal member.
LEMMA MinimalSubset ==
  ASSUME NEW S, IsFiniteSet(S), NEW T, T \subseteq SUBSET S, T # {}
  PROVE  \E U \in T : \A V \in T : V \subseteq U => V = U
<1>1. IsWellFoundedOn(StrictSubsetOrdering(S), SUBSET S)
  BY FS_StrictSubsetOrderingWellFounded, FS_FiniteSubsetsOfFinite
<1>2. PICK U \in T : \A V \in T : ~ (<<V, U>> \in StrictSubsetOrdering(S))
  BY <1>1, WFMin
<1> QED
  BY <1>2 DEF StrictSubsetOrdering

LEMMA MinOfNaturals ==
  ASSUME NEW n \in Nat, NEW S, S \subseteq 0 .. n, S # {}
  PROVE  Min(S) \in S
<1> DEFINE D == 0 .. n
           T == {0 .. x : x \in S}
<1>1. PICK U \in T : \A V \in T : V \subseteq U => V = U
  <2>1. ASSUME NEW x \in S PROVE 0 .. x \in SUBSET D
    <3>1. x \in 0 .. n
      OBVIOUS
    <3> QED
      BY <3>1
  <2>2. T \subseteq SUBSET D /\ T # {}
    <3> HIDE DEF D
    <3> QED BY <2>1
  <2>3. IsFiniteSet(D)
    BY FS_Interval
  <2> HIDE DEF T, D
  <2> QED
    BY <2>2, <2>3, MinimalSubset
<1>2. PICK x \in S : U = 0 .. x
  OBVIOUS
<1>3. ASSUME NEW y \in S PROVE x <= y
  <2> SUFFICES ASSUME y < x PROVE FALSE
    OBVIOUS
  <2>1. 0 .. y \in T
    OBVIOUS
  <2>2. 0 .. y \subseteq U /\ x \in U /\ x \notin 0 .. y
    BY <1>2
  <2> QED
    BY <1>1, <2>1, <2>2
<1> QED
  BY <1>3 DEF Min

LEMMA MaxOfInterval ==
  ASSUME NEW n \in Nat
  PROVE  Max(0 .. n) = n
<1>1. n \in 0 .. n /\ \A y \in 0 .. n : n >= y
  OBVIOUS
<1> QED
  BY <1>1 DEF Max

\* nextSeat returns a free seat: among Cardinality + 1 candidates one is free.
LEMMA NextSeatIsFree ==
  ASSUME NEW members, IsFiniteSet(DOMAIN members)
  PROVE  /\ NextSeat(members) \in Nat
         /\ \A m \in DOMAIN members : members[m].seat # NextSeat(members)
<1> DEFINE n == Cardinality(DOMAIN members)
           free == {seat \in 0 .. n : \A m \in DOMAIN members : members[m].seat # seat}
<1>1. n \in Nat
  BY FS_CardinalityType
<1>2. free # {}
  <2>1. SUFFICES ASSUME free = {} PROVE FALSE
    OBVIOUS
  <2> DEFINE owner == [seat \in 0 .. n |->
                         CHOOSE m \in DOMAIN members : members[m].seat = seat]
  <2>2. \A seat \in 0 .. n : /\ owner[seat] \in DOMAIN members
                             /\ members[owner[seat]].seat = seat
    BY <2>1
  <2>3. owner \in [0 .. n -> DOMAIN members]
    BY <2>2
  <2>4. IsFiniteSet(0 .. n) /\ Cardinality(0 .. n) = n + 1
    BY <1>1, FS_Interval
  <2>5. \E x, y \in 0 .. n : x # y /\ owner[x] = owner[y]
    <3> HIDE DEF owner
    <3> QED BY <1>1, <2>3, <2>4, FS_PigeonHole
  <2> QED
    BY <2>2, <2>5
<1>3. Min(free) \in free
  BY <1>1, <1>2, MinOfNaturals
<1> QED
  BY <1>3 DEF NextSeat

-----------------------------------------------------------------------------
(* What the operations make of a sound room *)

\* promoteHost always finds a member, and an online one if there is any: the
\* oldest of a nonempty group exists.
LEMMA SuccessorIsMember ==
  ASSUME NEW members, SoundRoster(members), DOMAIN members # {}
  PROVE  /\ Successor(members) \in DOMAIN members
         /\ (\E m \in DOMAIN members : members[m].conn = "online")
              => members[Successor(members)].conn = "online"
<1> DEFINE online == {m \in DOMAIN members : members[m].conn = "online"}
           pool == IF online = {} THEN DOMAIN members ELSE online
           T == {members[m].elders \cap pool : m \in pool}
<1>1. /\ pool # {} /\ pool \subseteq DOMAIN members
      /\ (\E m \in DOMAIN members : members[m].conn = "online") => pool = online
  OBVIOUS
<1> HIDE DEF pool
<1>2. PICK U \in T : \A V \in T : V \subseteq U => V = U
  <2>1. T \subseteq SUBSET Members /\ T # {}
    <3>1. \A m \in pool : members[m].elders \cap pool \in SUBSET Members
      BY <1>1 DEF SoundRoster
    <3> QED
      BY <1>1, <3>1
  <2> HIDE DEF T
  <2> QED
    BY <2>1, FiniteSupplies, MinimalSubset
<1>3. PICK m \in pool : U = members[m].elders \cap pool
  OBVIOUS
<1>4. U = {}
  <2> SUFFICES ASSUME NEW x \in U PROVE FALSE
    OBVIOUS
  <2>1. x \in pool /\ members[x].elders \cap pool \in T
    BY <1>3
  <2>2. members[x].elders \cap pool \subseteq U /\ x \notin members[x].elders
    BY <1>1, <1>3, <2>1 DEF SoundRoster, JoinOrder
  <2> QED
    BY <1>2, <2>1, <2>2
<1>5. \E x \in pool : members[x].elders \cap pool = {}
  BY <1>3, <1>4
<1>6. Successor(members) = CHOOSE x \in pool : members[x].elders \cap pool = {}
  BY DEF Successor, pool
<1> QED
  BY <1>1, <1>5, <1>6

LEMMA PromoteHostKeepsSound ==
  ASSUME NEW room, room \in RoomOf(Roster(room)), SoundRoster(room.members),
         Roster(room) # {}
  PROVE  LET new == PromoteHost(room)
         IN  /\ new \in RoomOf(Roster(room)) /\ Roster(new) = Roster(room)
             /\ SoundRoster(new.members) /\ Hosted(new) /\ HostIsOnline(new)
             /\ new.id = room.id /\ new.game = room.game
             /\ new.active = room.active /\ new.status = room.status
<1> DEFINE next == Successor(room.members)
           new == PromoteHost(room)
           Role(m) == IF m = next THEN "host" ELSE "player"
<1>1. /\ next \in Roster(room)
      /\ (\E m \in Roster(room) : room.members[m].conn = "online")
           => room.members[next].conn = "online"
  BY SuccessorIsMember DEF Roster
<1> HIDE DEF next
<1>2. new = [room EXCEPT !.host = next,
                         !.members = [m \in Roster(room) |->
                                        [room.members[m] EXCEPT !.role = Role(m)]]]
  BY DEF PromoteHost, next
<1>3. room.members \in [Roster(room) -> Member] /\ Roster(room) \subseteq Members
  BY DEF SoundRoster, Roster
<1>4. \A m \in Roster(room) :
        [room.members[m] EXCEPT !.role = Role(m)] \in Member
  BY <1>3 DEF Member
<1> HIDE DEF new
<1>5. /\ new.host = next
      /\ new.members = [m \in Roster(room) |-> [room.members[m] EXCEPT !.role = Role(m)]]
      /\ new.id = room.id /\ new.game = room.game
      /\ new.active = room.active /\ new.status = room.status
  BY <1>2 DEF RoomOf
<1>6. /\ DOMAIN new.members = Roster(room)
      /\ new.members \in [Roster(room) -> Member]
      /\ \A m \in Roster(room) : /\ new.members[m].role = Role(m)
                                 /\ new.members[m].seat = room.members[m].seat
                                 /\ new.members[m].conn = room.members[m].conn
                                 /\ new.members[m].elders = room.members[m].elders
  <2>1. /\ DOMAIN new.members = Roster(room)
        /\ \A m \in Roster(room) : new.members[m] = [room.members[m] EXCEPT !.role = Role(m)]
    BY <1>5
  <2>2. new.members \in [Roster(room) -> Member]
    BY <1>4, <1>5
  <2>3. ASSUME NEW m \in Roster(room)
        PROVE  LET old == room.members[m]
                   this == [old EXCEPT !.role = Role(m)]
               IN  /\ this.role = Role(m) /\ this.seat = old.seat
                   /\ this.conn = old.conn /\ this.elders = old.elders
    BY <1>3 DEF Member
  <2> QED
    BY <2>1, <2>2, <2>3
<1>7. new \in RoomOf(Roster(room))
  <2>1. new.members \in [Roster(room) -> Member]
    BY <1>6
  <2>2. new = [id |-> room.id, host |-> next, game |-> room.game, active |-> room.active,
               status |-> room.status, members |-> new.members]
    BY <1>2, <1>5 DEF RoomOf
  <2> QED
    BY <1>1, <1>3, <2>1, <2>2 DEF RoomOf
<1>8. SoundRoster(new.members)
  BY <1>6 DEF SoundRoster, JoinOrder, Roster
<1>9. Hosted(new) /\ HostIsOnline(new)
  BY <1>1, <1>5, <1>6 DEF Hosted, HostIsOnline, Roster
<1> QED
  BY <1>5, <1>6, <1>7, <1>8, <1>9 DEF Roster, new

\* Giving up seats (LeaveRoom, ExpireOfflineMembers) deletes the room or leaves
\* a sound one of the remaining members.
LEMMA ReleaseKeepsSound ==
  ASSUME NEW room, SoundRoom(room), NEW gone
  PROVE  LET kept == Roster(room) \ gone
             new == Release(room, gone)
         IN  IF kept = {} THEN new = NoRoom
             ELSE /\ SoundRoom(new) /\ Roster(new) = kept
                  /\ new.host = room.host \/ (room.host \in gone /\ HostIsOnline(new))
                  /\ new.id = room.id /\ new.game = room.game
                  /\ new.active = room.active
<1> DEFINE kept == Roster(room) \ gone
           seated == [m \in kept |-> [room.members[m] EXCEPT !.elders = @ \cap kept]]
           left == [room EXCEPT !.members = seated]
<1> SUFFICES ASSUME kept # {}
             PROVE  /\ SoundRoom(Release(room, gone)) /\ Roster(Release(room, gone)) = kept
                    /\ \/ Release(room, gone).host = room.host
                       \/ room.host \in gone /\ HostIsOnline(Release(room, gone))
                    /\ Release(room, gone).id = room.id
                    /\ Release(room, gone).game = room.game
                    /\ Release(room, gone).active = room.active
  BY DEF Release
<1>1. Release(room, gone) = IF room.host \in gone THEN PromoteHost(left) ELSE left
  BY DEF Release
<1>2. /\ room.members \in [Roster(room) -> Member] /\ Roster(room) \subseteq Members
      /\ kept \subseteq Roster(room)
  BY DEF SoundRoom, SoundRoster, Roster
<1> HIDE DEF kept, left, seated
<1>3. /\ left = [id |-> room.id, host |-> room.host, game |-> room.game,
                 active |-> room.active, status |-> room.status, members |-> left.members]
      /\ left.members = seated
  BY DEF SoundRoom, RoomOf, left
<1>4. ASSUME NEW m \in kept
      PROVE  /\ seated[m] \in Member
             /\ seated[m].role = room.members[m].role
             /\ seated[m].seat = room.members[m].seat
             /\ seated[m].elders = room.members[m].elders \cap kept
  BY <1>2 DEF Member, seated
<1>5. /\ Roster(left) = kept
      /\ left.members \in [kept -> Member]
      /\ \A m \in kept : left.members[m] = seated[m]
  <2>1. seated = [m \in kept |-> seated[m]]
    BY DEF seated
  <2> QED
    BY <1>3, <1>4, <2>1 DEF Roster
<1>6. left \in RoomOf(Roster(left))
  BY <1>2, <1>3, <1>5 DEF SoundRoom, RoomOf
<1>7. SoundRoster(left.members)
  <2>1. JoinOrder(left.members)
    BY <1>2, <1>4, <1>5 DEF SoundRoom, SoundRoster, JoinOrder, Roster
  <2>2. \A m, n \in kept : left.members[m].seat = left.members[n].seat => m = n
    BY <1>2, <1>4, <1>5 DEF SoundRoom, SoundRoster, Roster
  <2> QED
    BY <1>2, <1>5, <2>1, <2>2 DEF SoundRoster, Roster
<1>8. Cardinality(kept) <= Catalogue[room.game].max
  <2>1. IsFiniteSet(Roster(room))
    BY <1>2, FiniteSupplies, FS_Subset
  <2>2. /\ Cardinality(kept) \in Nat /\ Cardinality(Roster(room)) \in Nat
        /\ Cardinality(kept) <= Cardinality(Roster(room))
    BY <1>2, <2>1, FS_Subset, FS_CardinalityType
  <2>3. Catalogue[room.game].max \in Nat
    BY CatalogueIsValid DEF GameEntry, SoundRoom, RoomOf
  <2> QED
    BY <2>2, <2>3 DEF SoundRoom
<1>9. /\ left.id = room.id /\ left.game = room.game /\ left.host = room.host
      /\ left.active = room.active /\ left.status = room.status
      /\ room.status = (IF room.active = NoSession THEN "open" ELSE "in_game")
  BY <1>3 DEF SoundRoom
<1>10. CASE room.host \in gone
  <2> DEFINE new == PromoteHost(left)
  <2>1. Roster(left) # {}
    BY <1>5
  <2>2. /\ new \in RoomOf(Roster(left)) /\ Roster(new) = Roster(left)
        /\ SoundRoster(new.members) /\ Hosted(new) /\ HostIsOnline(new)
        /\ new.id = left.id /\ new.game = left.game
        /\ new.active = left.active /\ new.status = left.status
    BY <1>6, <1>7, <2>1, PromoteHostKeepsSound
  <2>3. Release(room, gone) = new
    BY <1>1, <1>10
  <2> HIDE DEF new
  <2> QED
    BY <1>5, <1>8, <1>9, <1>10, <2>2, <2>3 DEF SoundRoom
<1>11. CASE room.host \notin gone
  <2>1. Hosted(left)
    BY <1>4, <1>5, <1>9, <1>11 DEF SoundRoom, Hosted, kept
  <2>2. Release(room, gone) = left
    BY <1>1, <1>11
  <2> QED
    BY <1>5, <1>6, <1>7, <1>8, <1>9, <2>1, <2>2 DEF SoundRoom
<1> QED
  BY <1>10, <1>11

\* Rejoin, SetConnection and the clock only touch a connection.
LEMMA ConnectKeepsSound ==
  ASSUME NEW room, SoundRoom(room), NEW m \in Roster(room), NEW conn \in Connections
  PROVE  LET new == [room EXCEPT !.members[m].conn = conn]
         IN  /\ SoundRoom(new) /\ Roster(new) = Roster(room)
             /\ new.id = room.id /\ new.game = room.game /\ new.active = room.active
             /\ \A n \in Roster(room) : new.members[n].seat = room.members[n].seat
<1> DEFINE new == [room EXCEPT !.members[m].conn = conn]
<1>1. room.members \in [Roster(room) -> Member] /\ Roster(room) \subseteq Members
  BY DEF SoundRoom, SoundRoster, Roster
<1>2. /\ new = [id |-> room.id, host |-> room.host, game |-> room.game,
                active |-> room.active, status |-> room.status, members |-> new.members]
      /\ new.members = [room.members EXCEPT ![m].conn = conn]
  BY DEF SoundRoom, RoomOf
<1> HIDE DEF new
<1>3. /\ new.members \in [Roster(room) -> Member] /\ Roster(new) = Roster(room)
      /\ \A n \in Roster(room) : /\ new.members[n].seat = room.members[n].seat
                                 /\ new.members[n].role = room.members[n].role
                                 /\ new.members[n].elders = room.members[n].elders
  BY <1>1, <1>2 DEF Member, Roster
<1>4. new \in RoomOf(Roster(new))
  BY <1>2, <1>3 DEF SoundRoom, RoomOf
<1>5. SoundRoster(new.members) /\ Hosted(new)
  BY <1>1, <1>2, <1>3 DEF SoundRoom, SoundRoster, JoinOrder, Hosted, Roster
<1> QED
  BY <1>2, <1>3, <1>4, <1>5 DEF SoundRoom, new

\* JoinRoom seats a newcomer on a free chair, behind everybody else.
LEMMA EnterKeepsSound ==
  ASSUME NEW room, SoundRoom(room), NEW m \in Members, m \notin Roster(room),
         Cardinality(Roster(room)) < Catalogue[room.game].max
  PROVE  LET newcomer == [seat |-> NextSeat(room.members), role |-> "player",
                          conn |-> "online", elders |-> Roster(room)]
             new == [room EXCEPT !.members =
                       [x \in Roster(room) \cup {m} |->
                          IF x = m THEN newcomer ELSE room.members[x]]]
         IN  /\ SoundRoom(new) /\ Roster(new) = Roster(room) \cup {m}
             /\ new.id = room.id /\ new.game = room.game /\ new.active = room.active
<1> DEFINE people == Roster(room) \cup {m}
           newcomer == [seat |-> NextSeat(room.members), role |-> "player",
                        conn |-> "online", elders |-> Roster(room)]
           seated == [x \in people |-> IF x = m THEN newcomer ELSE room.members[x]]
           new == [room EXCEPT !.members = seated]
<1>1. /\ room.members \in [Roster(room) -> Member] /\ Roster(room) \subseteq Members
      /\ IsFiniteSet(Roster(room))
  BY FiniteSupplies, FS_Subset DEF SoundRoom, SoundRoster, Roster
<1>2. /\ NextSeat(room.members) \in Nat
      /\ \A x \in Roster(room) : room.members[x].seat # NextSeat(room.members)
  BY <1>1, NextSeatIsFree DEF Roster
<1>3. newcomer \in Member
  BY <1>1, <1>2 DEF Member, Connections
<1>4. /\ seated \in [people -> Member]
      /\ seated[m].role = "player" /\ seated[m].elders = Roster(room)
      /\ seated[m].seat = NextSeat(room.members)
      /\ \A x \in Roster(room) : seated[x] = room.members[x]
  BY <1>1, <1>3
<1> HIDE DEF seated, newcomer
<1>5. /\ new = [id |-> room.id, host |-> room.host, game |-> room.game,
                active |-> room.active, status |-> room.status, members |-> seated]
      /\ Roster(new) = people /\ new.members = seated
  BY <1>4 DEF SoundRoom, RoomOf, Roster
<1>6. new \in RoomOf(Roster(new))
  BY <1>4, <1>5 DEF SoundRoom, RoomOf
<1>7. SoundRoster(new.members)
  <2>1. JoinOrder(seated)
    BY <1>1, <1>4 DEF SoundRoom, SoundRoster, JoinOrder, Roster
  <2>2. \A x, y \in people : seated[x].seat = seated[y].seat => x = y
    BY <1>2, <1>4 DEF SoundRoom, SoundRoster, Roster
  <2> QED
    BY <1>1, <1>4, <1>5, <2>1, <2>2 DEF SoundRoster, Roster
<1>8. Hosted(new)
  BY <1>4, <1>5 DEF SoundRoom, Hosted, Roster
<1>9. Cardinality(people) <= Catalogue[room.game].max
  <2>1. Cardinality(people) = Cardinality(Roster(room)) + 1
    BY <1>1, FS_AddElement
  <2>2. Cardinality(Roster(room)) \in Nat /\ Catalogue[room.game].max \in Nat
    BY <1>1, FS_CardinalityType, CatalogueIsValid DEF GameEntry, SoundRoom, RoomOf
  <2> QED
    BY <2>1, <2>2
<1>10. /\ new.id = room.id /\ new.game = room.game /\ new.active = room.active
       /\ new.status = (IF new.active = NoSession THEN "open" ELSE "in_game")
  BY <1>5 DEF SoundRoom
<1>11. SoundRoom(new)
  <2> HIDE DEF new
  <2> QED
    BY <1>5, <1>6, <1>7, <1>8, <1>9, <1>10 DEF SoundRoom
<1> QED
  BY <1>5, <1>10, <1>11 DEF seated, newcomer

\* A new room has its founder for only member and host.
LEMMA FoundedRoomIsSound ==
  ASSUME NEW id \in RoomIds, NEW m \in Members, NEW g \in Games
  PROVE  LET new == [id |-> id, host |-> m, game |-> g, active |-> NoSession,
                     status |-> "open",
                     members |-> [x \in {m} |-> [seat |-> 0, role |-> "host",
                                                 conn |-> "online", elders |-> {}]]]
         IN  SoundRoom(new) /\ Roster(new) = {m}
<1> DEFINE first == [seat |-> 0, role |-> "host", conn |-> "online", elders |-> {}]
           new == [id |-> id, host |-> m, game |-> g, active |-> NoSession,
                   status |-> "open", members |-> [x \in {m} |-> first]]
<1>1. first \in Member
  BY DEF Member, Connections
<1>2. Roster(new) = {m} /\ new \in RoomOf({m})
  BY <1>1 DEF Roster, RoomOf
<1>3. SoundRoster(new.members) /\ Hosted(new)
  BY <1>1 DEF SoundRoster, JoinOrder, Hosted, Roster
<1>4. Cardinality({m}) <= Catalogue[g].max
  <2>1. Cardinality({m}) = 1
    BY FS_Singleton
  <2>2. Catalogue[g].max \in Nat \ {0}
    BY CatalogueIsValid DEF GameEntry
  <2> QED
    BY <2>1, <2>2
<1> QED
  BY <1>2, <1>3, <1>4 DEF SoundRoom
-----------------------------------------------------------------------------
(* The inductive invariant *)

RoomsAreSound ==
  /\ rooms = [c \in Codes |-> rooms[c]]
  /\ \A c \in Codes : Open(c) => SoundRoom(rooms[c])

SessionsTyped == sessions \in [SessionIds -> Session \cup {NoSession}]

GameIsSelected ==
  \A c \in Codes : Open(c) /\ ~Idle(c) => sessions[rooms[c].active].game = rooms[c].game

IInv == /\ RoomsAreSound
        /\ SessionsTyped
        /\ SessionsBelongToRooms
        /\ HumansStaySeated
        /\ GameIsSelected
        /\ SequencesAreDense

\* What a step that touches only rooms may do to the room under code c.
Evolves(c) ==
  \/ rooms'[c] = rooms[c]
  \/ /\ Idle(c)
     /\ \/ rooms'[c] = NoRoom
        \/ /\ SoundRoom(rooms'[c])
           /\ rooms'[c].id = rooms[c].id /\ rooms'[c].active = NoSession
  \/ /\ Open(c) /\ ~Idle(c)
     /\ SoundRoom(rooms'[c])
     /\ rooms'[c].id = rooms[c].id /\ rooms'[c].game = rooms[c].game
     /\ rooms'[c].active = rooms[c].active
     /\ Roster(rooms'[c]) = Roster(rooms[c])
     /\ \A m \in Roster(rooms[c]) : rooms'[c].members[m].seat = rooms[c].members[m].seat

RoomStep == /\ rooms' = [c \in Codes |-> rooms'[c]]
            /\ \A c \in Codes : Evolves(c)
            /\ UNCHANGED sessions

\* No room appears and nobody gets in.
Shrinks == \A c \in Codes : Open(c)' => Roster(rooms'[c]) \subseteq Roster(rooms[c])

LEMMA SoundRoomIsARoom ==
  ASSUME NEW room, SoundRoom(room)
  PROVE  room # NoRoom
BY NullsAreDistinct DEF SoundRoom, SoundRoster, Roster

LEMMA RoomStepKeepsInvariant ==
  ASSUME IInv, RoomStep
  PROVE  IInv'
<1> USE DEF IInv, RoomStep
<1>1. ASSUME NEW c \in Codes
      PROVE  /\ Open(c)' => /\ Open(c)
                           /\ SoundRoom(rooms'[c])
                           /\ rooms'[c].id = rooms[c].id
                           /\ rooms'[c].active = rooms[c].active
             /\ Open(c) /\ ~Idle(c) => /\ Open(c)'
                                      /\ rooms'[c].game = rooms[c].game
                                      /\ Roster(rooms'[c]) = Roster(rooms[c])
  BY SoundRoomIsARoom DEF Evolves, RoomsAreSound, Open, Idle
<1>2. RoomsAreSound'
  BY <1>1 DEF RoomsAreSound, Open
<1>3. SessionsTyped' /\ SequencesAreDense'
  BY DEF SessionsTyped, SequencesAreDense, Sequences, SessionsOf, Exists
<1>4. \A c \in Codes : Open(c)' => /\ Open(c) /\ (Idle(c)' <=> Idle(c))
                                  /\ rooms'[c].status = (IF Idle(c)' THEN "open" ELSE "in_game")
  BY <1>1 DEF Idle, Open, SoundRoom
<1>5. SessionsBelongToRooms'
  <2>1. \A s \in SessionIds : (Exists(s) /\ sessions[s].status = "running")' =>
          \E c \in Codes : Open(c)' /\ rooms'[c].active = s
    <3> SUFFICES ASSUME NEW s \in SessionIds, Exists(s), sessions[s].status = "running"
                 PROVE  \E c \in Codes : Open(c)' /\ rooms'[c].active = s
      BY DEF Exists
    <3>1. PICK c \in Codes : Open(c) /\ rooms[c].active = s
      BY DEF SessionsBelongToRooms
    <3>2. ~Idle(c)
      BY <3>1, NullsAreDistinct DEF Idle
    <3> QED
      BY <1>1, <3>1, <3>2
  <2> QED
    BY <1>1, <1>4, <2>1 DEF SessionsBelongToRooms, Exists
<1>6. HumansStaySeated' /\ GameIsSelected'
  BY <1>1, <1>4 DEF HumansStaySeated, GameIsSelected
<1> QED
  BY <1>2, <1>3, <1>5, <1>6

-----------------------------------------------------------------------------
(* Each operation preserves the invariant *)

\* Operations on one room that leave the sessions alone.
LEMMA OneRoomStep ==
  ASSUME RoomsAreSound, NEW c \in Codes, NEW new,
         rooms' = [rooms EXCEPT ![c] = new], UNCHANGED sessions,
         Evolves(c)
  PROVE  /\ RoomStep
         /\ (Open(c)' => Roster(new) \subseteq Roster(rooms[c])) => Shrinks
BY DEF RoomStep, Evolves, RoomsAreSound, Shrinks, Open

LEMMA ConnectionStep ==
  ASSUME IInv, NEW c \in Codes, Open(c), NEW m \in Roster(rooms[c]),
         NEW conn \in Connections,
         rooms' = [rooms EXCEPT ![c].members[m].conn = conn], UNCHANGED sessions
  PROVE  RoomStep /\ Shrinks
<1> DEFINE room == rooms[c]
           new == [room EXCEPT !.members[m].conn = conn]
<1>1. SoundRoom(room) /\ RoomsAreSound
  BY DEF IInv, RoomsAreSound
<1>2. /\ SoundRoom(new) /\ Roster(new) = Roster(room)
      /\ new.id = room.id /\ new.game = room.game /\ new.active = room.active
      /\ \A n \in Roster(room) : new.members[n].seat = room.members[n].seat
  BY <1>1, ConnectKeepsSound
<1>3. rooms' = [rooms EXCEPT ![c] = new]
  OBVIOUS
<1>4. rooms'[c] = new
  BY <1>1, <1>3 DEF RoomsAreSound
<1> HIDE DEF new
<1>5. Evolves(c)
  BY <1>2, <1>4 DEF Evolves, Idle
<1> QED
  BY <1>1, <1>2, <1>3, <1>5, OneRoomStep

LEMMA EnterStep ==
  ASSUME IInv, NEW c \in Codes, NEW m \in Members, Enter(c, m)
  PROVE  RoomStep
<1> DEFINE room == rooms[c]
           newcomer == [seat |-> NextSeat(room.members), role |-> "player",
                        conn |-> "online", elders |-> Roster(room)]
           seated == [x \in Roster(room) \cup {m} |->
                        IF x = m THEN newcomer ELSE room.members[x]]
           new == [room EXCEPT !.members = seated]
<1>1. SoundRoom(room) /\ RoomsAreSound
  BY DEF IInv, RoomsAreSound, Enter, Idle
<1>2. SoundRoom(new) /\ new.id = room.id /\ new.active = room.active
  BY <1>1, EnterKeepsSound DEF Enter
<1>3. rooms' = [rooms EXCEPT ![c] = new]
  BY DEF Enter, Roster
<1>4. rooms'[c] = new
  BY <1>1, <1>3 DEF RoomsAreSound
<1> HIDE DEF new
<1>5. Evolves(c) /\ UNCHANGED sessions
  BY <1>2, <1>4 DEF Evolves, Enter, Idle
<1> QED
  BY <1>1, <1>3, <1>5, OneRoomStep

LEMMA LeaveStep ==
  ASSUME IInv, NEW c \in Codes, NEW m \in Members, LeaveRoom(c, m)
  PROVE  RoomStep /\ Shrinks
<1> DEFINE new == Release(rooms[c], {m})
<1>1. SoundRoom(rooms[c]) /\ RoomsAreSound
  BY DEF IInv, RoomsAreSound, LeaveRoom, Idle
<1>2. new = NoRoom \/ /\ SoundRoom(new) /\ new.id = rooms[c].id /\ new.active = rooms[c].active
                      /\ Roster(new) \subseteq Roster(rooms[c])
  BY <1>1, ReleaseKeepsSound
<1>3. rooms' = [rooms EXCEPT ![c] = new] /\ UNCHANGED sessions
  BY DEF LeaveRoom
<1>4. rooms'[c] = new
  BY <1>1, <1>3 DEF RoomsAreSound
<1> HIDE DEF new
<1>5. Evolves(c)
  BY <1>2, <1>4 DEF Evolves, LeaveRoom, Idle
<1>6. Open(c)' => Roster(new) \subseteq Roster(rooms[c])
  BY <1>2, <1>4 DEF Open
<1> QED
  BY <1>1, <1>3, <1>5, <1>6, OneRoomStep

LEMMA ExpireStep ==
  ASSUME IInv, ExpireOfflineMembers
  PROVE  RoomStep /\ Shrinks
<1> DEFINE Gone(c) == {m \in Roster(rooms[c]) : rooms[c].members[m].conn = "expired"}
<1>1. ASSUME NEW c \in Codes
      PROVE  Evolves(c) /\ (Open(c)' => Roster(rooms'[c]) \subseteq Roster(rooms[c]))
  <2>1. CASE ~Idle(c)
    BY <2>1 DEF ExpireOfflineMembers, Evolves
  <2>2. CASE Idle(c)
    <3> DEFINE new == Release(rooms[c], Gone(c))
    <3>1. SoundRoom(rooms[c])
      BY <2>2 DEF IInv, RoomsAreSound, Idle
    <3>2. new = NoRoom \/ /\ SoundRoom(new) /\ new.id = rooms[c].id
                          /\ new.active = rooms[c].active
                          /\ Roster(new) \subseteq Roster(rooms[c])
      BY <3>1, ReleaseKeepsSound
    <3>3. rooms'[c] = new
      BY <2>2 DEF ExpireOfflineMembers
    <3> HIDE DEF new
    <3> QED
      BY <2>2, <3>2, <3>3 DEF Evolves, Idle, Open
  <2> QED
    BY <2>1, <2>2
<1> QED
  BY <1>1 DEF RoomStep, Shrinks, ExpireOfflineMembers

LEMMA SelectGameStep ==
  ASSUME IInv, NEW c \in Codes, NEW m \in Members, NEW g \in Games, SelectGame(c, m, g)
  PROVE  RoomStep /\ Shrinks
<1> DEFINE room == rooms[c]
           new == [room EXCEPT !.game = g]
<1>1. SoundRoom(room) /\ RoomsAreSound
  BY DEF IInv, RoomsAreSound, SelectGame, Idle
<1>2. /\ SoundRoom(new) /\ new.id = room.id /\ new.active = room.active
      /\ Roster(new) = Roster(room)
  BY <1>1 DEF SelectGame, SoundRoom, RoomOf, Hosted, Roster
<1>3. rooms' = [rooms EXCEPT ![c] = new] /\ UNCHANGED sessions
  BY DEF SelectGame
<1>4. rooms'[c] = new
  BY <1>1, <1>3 DEF RoomsAreSound
<1> HIDE DEF new
<1>5. Evolves(c)
  BY <1>2, <1>4 DEF Evolves, SelectGame, Idle
<1> QED
  BY <1>1, <1>2, <1>3, <1>5, OneRoomStep

LEMMA CreateRoomKeepsInvariant ==
  ASSUME IInv, NEW c \in Codes, NEW m \in Members, NEW g \in Games, NEW id \in RoomIds,
         CreateRoom(c, m, g, id)
  PROVE  IInv'
<1> USE DEF IInv
<1> DEFINE new == [id |-> id, host |-> m, game |-> g, active |-> NoSession, status |-> "open",
                   members |-> [x \in {m} |-> [seat |-> 0, role |-> "host",
                                               conn |-> "online", elders |-> {}]]]
<1>1. SoundRoom(new) /\ new.id = id /\ new.active = NoSession /\ new.status = "open"
  BY FoundedRoomIsSound
<1>2. rooms' = [rooms EXCEPT ![c] = new] /\ UNCHANGED sessions
  BY DEF CreateRoom
<1> HIDE DEF new
<1>3. /\ rooms'[c] = new
      /\ \A d \in Codes : d # c => rooms'[d] = rooms[d]
  BY <1>2 DEF RoomsAreSound
<1>4. Idle(c)' /\ ~Open(c) /\ FreshRoomId(id)
  BY <1>1, <1>3, SoundRoomIsARoom DEF Idle, Open, CreateRoom
<1>5. RoomsAreSound'
  BY <1>1, <1>2, <1>3 DEF RoomsAreSound, Open
<1>6. SessionsTyped' /\ SequencesAreDense'
  BY <1>2 DEF SessionsTyped, SequencesAreDense, Sequences, SessionsOf, Exists
<1>7. \A d \in Codes : d # c => (Open(d)' <=> Open(d)) /\ (Idle(d)' <=> Idle(d))
  BY <1>3 DEF Open, Idle
<1>8. SessionsBelongToRooms'
  <2>1. \A d \in Codes : Open(d) => rooms[d].id # id
    BY <1>4 DEF FreshRoomId
  <2>2. \A d, e \in Codes : Open(d)' /\ Open(e)' /\ rooms'[d].id = rooms'[e].id => d = e
    BY <1>1, <1>3, <1>4, <1>7, <2>1 DEF SessionsBelongToRooms
  <2>3. \A d \in Codes : Open(d)' =>
          /\ rooms'[d].status = (IF Idle(d)' THEN "open" ELSE "in_game")
          /\ ~Idle(d)' => /\ Exists(rooms[d].active) /\ rooms'[d].active = rooms[d].active
                          /\ sessions[rooms[d].active].status = "running"
                          /\ sessions[rooms[d].active].room = rooms'[d].id
    BY <1>1, <1>3, <1>4, <1>7 DEF SessionsBelongToRooms
  <2>4. \A s \in SessionIds : Exists(s) /\ sessions[s].status = "running" =>
          \E d \in Codes : Open(d)' /\ rooms'[d].active = s
    BY <1>3, <1>4, <1>7 DEF SessionsBelongToRooms
  <2> QED
    BY <1>2, <2>2, <2>3, <2>4 DEF SessionsBelongToRooms, Exists
<1>9. HumansStaySeated' /\ GameIsSelected'
  BY <1>2, <1>3, <1>4, <1>7 DEF HumansStaySeated, GameIsSelected
<1> QED
  BY <1>5, <1>6, <1>8, <1>9

\* A new session is numbered one above all those of its room.
LEMMA NextSequenceIsNew ==
  ASSUME SequencesAreDense, NEW id \in RoomIds
  PROVE  /\ Cardinality(SessionsOf(id)) \in Nat
         /\ NextSequence(id) = Cardinality(SessionsOf(id)) + 1
<1>1. IsFiniteSet(SessionsOf(id))
  BY FiniteSupplies, FS_Subset DEF SessionsOf
<1>2. Cardinality(SessionsOf(id)) \in Nat
  BY <1>1, FS_CardinalityType
<1>3. {0} \cup Sequences(id) = 0 .. Cardinality(SessionsOf(id))
  BY <1>2 DEF SequencesAreDense
<1> QED
  BY <1>2, <1>3, MaxOfInterval DEF NextSequence

\* A session opens or ends together with the change of its room: the one points
\* to the other exactly while the session runs.
LEMMA RoomAndSessionKeepInvariant ==
  ASSUME IInv, NEW c \in Codes, Open(c), NEW s \in SessionIds,
         NEW room, SoundRoom(room), room.id = rooms[c].id,
         NEW new \in Session, new.room = room.id,
         rooms' = [rooms EXCEPT ![c] = room], sessions' = [sessions EXCEPT ![s] = new],
         \/ Idle(c) /\ ~Exists(s) /\ new.sequence = NextSequence(room.id)
         \/ rooms[c].active = s /\ new.sequence = sessions[s].sequence,
         IF new.status = "running"
         THEN room.active = s /\ new.game = room.game /\ new.humans \subseteq Roster(room)
         ELSE room.active = NoSession
  PROVE  IInv'
<1> USE DEF IInv
<1>1. /\ SoundRoom(rooms[c]) /\ room.id \in RoomIds /\ new # NoSession /\ s # NoSession
      /\ rooms[c].active = s => Exists(s) /\ ~Idle(c) /\ sessions[s].room = room.id
  BY NullsAreDistinct
     DEF RoomsAreSound, SoundRoom, RoomOf, SessionsBelongToRooms, Open, Idle
<1>2. /\ sessions'[s] = new /\ rooms'[c] = room
      /\ \A t \in SessionIds : t # s => sessions'[t] = sessions[t]
      /\ \A d \in Codes : d # c => rooms'[d] = rooms[d]
  BY DEF SessionsTyped, RoomsAreSound
<1>3. /\ Open(c)' /\ (Idle(c)' <=> new.status # "running")
      /\ \A d \in Codes : d # c => (Open(d)' <=> Open(d)) /\ (Idle(d)' <=> Idle(d))
  BY <1>1, <1>2, SoundRoomIsARoom DEF Open, Idle
<1>4. /\ Exists(s)'
      /\ \A t \in SessionIds : t # s => (Exists(t)' <=> Exists(t))
  BY <1>1, <1>2 DEF Exists
<1>5. RoomsAreSound' /\ SessionsTyped'
  BY <1>2, <1>3 DEF RoomsAreSound, SessionsTyped
<1>6. ASSUME NEW d \in Codes, d # c, Open(d)', ~Idle(d)'
      PROVE  /\ rooms'[d] = rooms[d] /\ Open(d) /\ ~Idle(d)
             /\ rooms[d].active \in SessionIds /\ rooms[d].active # s
             /\ sessions'[rooms[d].active] = sessions[rooms[d].active]
  <2>1. /\ Open(d) /\ ~Idle(d) /\ rooms'[d] = rooms[d] /\ rooms[d].active \in SessionIds
    BY <1>2, <1>3, <1>6 DEF RoomsAreSound, SoundRoom, RoomOf, Idle
  <2>2. rooms[d].active # s
    BY <1>1, <1>6, <2>1 DEF SessionsBelongToRooms, Idle
  <2> QED
    BY <1>2, <2>1, <2>2
<1>7. SessionsBelongToRooms'
  <2>1. ASSUME NEW d \in Codes, Open(d)'
        PROVE  /\ rooms'[d].status = (IF Idle(d)' THEN "open" ELSE "in_game")
               /\ ~Idle(d)' => /\ sessions'[rooms'[d].active] # NoSession
                               /\ sessions'[rooms'[d].active].status = "running"
                               /\ sessions'[rooms'[d].active].room = rooms'[d].id
    <3>1. CASE d = c
      BY <1>1, <1>2, <1>3, <3>1 DEF SoundRoom, Idle
    <3>2. CASE d # c
      BY <1>2, <1>3, <1>6, <2>1, <3>2 DEF SessionsBelongToRooms, Exists
    <3> QED
      BY <3>1, <3>2
  <2>2. ASSUME NEW t \in SessionIds, Exists(t)', sessions'[t].status = "running"
        PROVE  \E d \in Codes : Open(d)' /\ rooms'[d].active = t
    <3>1. CASE t = s
      BY <1>2, <1>3, <2>2, <3>1
    <3>2. CASE t # s
      <4>1. PICK d \in Codes : Open(d) /\ rooms[d].active = t
        BY <1>2, <1>4, <2>2, <3>2 DEF SessionsBelongToRooms
      <4>2. d # c
        BY <3>2, <4>1, NullsAreDistinct DEF Idle
      <4> QED
        BY <1>2, <1>3, <4>1, <4>2
    <3> QED
      BY <3>1, <3>2
  <2>3. \A d, e \in Codes : Open(d)' /\ Open(e)' /\ rooms'[d].id = rooms'[e].id => d = e
    BY <1>1, <1>2, <1>3 DEF SessionsBelongToRooms
  <2> QED
    BY <2>1, <2>2, <2>3 DEF SessionsBelongToRooms, Exists
<1>8. HumansStaySeated' /\ GameIsSelected'
  BY <1>2, <1>3, <1>6 DEF HumansStaySeated, GameIsSelected
<1>9. SequencesAreDense'
  <2>1. ASSUME NEW id \in RoomIds, id # room.id
        PROVE  SessionsOf(id)' = SessionsOf(id) /\ Sequences(id)' = Sequences(id)
    BY <1>1, <1>2, <1>4, <2>1 DEF SessionsOf, Sequences
  <2>2. ASSUME NEW id \in RoomIds, id = room.id
        PROVE  Sequences(id)' = 1 .. Cardinality(SessionsOf(id)')
    <3> DEFINE n == Cardinality(SessionsOf(id))
    <3>1. n \in Nat /\ NextSequence(id) = n + 1 /\ IsFiniteSet(SessionsOf(id))
      BY FiniteSupplies, FS_Subset, NextSequenceIsNew DEF SessionsOf
    <3>2. Sequences(id) = 1 .. n
      BY DEF SequencesAreDense
    <3>3. CASE rooms[c].active = s
      <4>1. SessionsOf(id)' = SessionsOf(id)
        BY <1>1, <1>2, <1>4, <2>2, <3>3 DEF SessionsOf
      <4>2. \A t \in SessionIds : sessions'[t].sequence = sessions[t].sequence
        BY <1>1, <1>2, <3>3
      <4>3. Sequences(id)' = Sequences(id)
        BY <4>1, <4>2 DEF Sequences, SessionsOf
      <4> QED
        BY <3>2, <4>1, <4>3
    <3>4. CASE rooms[c].active # s
      <4>1. ~Exists(s) /\ new.sequence = n + 1
        BY <2>2, <3>1, <3>4
      <4> HIDE DEF n
      <4>2. /\ SessionsOf(id)' = SessionsOf(id) \cup {s}
            /\ s \notin SessionsOf(id)
        BY <1>2, <1>4, <2>2, <4>1 DEF SessionsOf
      <4>3. \A t \in SessionsOf(id) : sessions'[t] = sessions[t]
        BY <1>2, <4>2 DEF SessionsOf
      <4>4. Sequences(id)' = Sequences(id) \cup {n + 1}
        BY <1>2, <4>1, <4>2, <4>3 DEF Sequences
      <4>5. Cardinality(SessionsOf(id)') = n + 1
        BY <3>1, <4>2, FS_AddElement DEF n
      <4> QED
        BY <3>1, <3>2, <4>4, <4>5
    <3> QED
      BY <3>3, <3>4
  <2> QED
    BY <2>1, <2>2 DEF SequencesAreDense
<1> QED
  BY <1>5, <1>7, <1>8, <1>9

LEMMA StartSessionKeepsInvariant ==
  ASSUME IInv, NEW c \in Codes, NEW m \in Members, NEW humans \in SUBSET Members,
         NEW bots, NEW s \in SessionIds, StartSession(c, m, humans, bots, s)
  PROVE  IInv'
<1> DEFINE room == rooms[c]
           new == [room |-> room.id, game |-> room.game, sequence |-> NextSequence(room.id),
                   status |-> "running", humans |-> humans, stateVersion |-> 0]
           busy == [room EXCEPT !.active = s, !.status = "in_game"]
<1>1. /\ SoundRoom(room) /\ Open(c) /\ Idle(c) /\ ~Exists(s) /\ humans \subseteq Roster(room)
      /\ sessions' = [sessions EXCEPT ![s] = new] /\ rooms' = [rooms EXCEPT ![c] = busy]
  BY DEF StartSession, Idle, IInv, RoomsAreSound
<1>2. room.id \in RoomIds /\ room.game \in Games
  BY <1>1 DEF SoundRoom, RoomOf
<1>3. NextSequence(room.id) \in Nat
  BY <1>2, NextSequenceIsNew DEF IInv
<1>4. new \in Session
  BY <1>2, <1>3 DEF Session
<1>5. /\ new.room = room.id /\ new.game = room.game /\ new.sequence = NextSequence(room.id)
      /\ new.status = "running" /\ new.humans = humans
  OBVIOUS
<1>6. /\ SoundRoom(busy) /\ busy.id = room.id /\ busy.game = room.game
      /\ busy.active = s /\ Roster(busy) = Roster(room)
  BY <1>1, NullsAreDistinct DEF SoundRoom, RoomOf, Hosted, Roster
<1> HIDE DEF new, busy
<1> QED
  BY <1>1, <1>4, <1>5, <1>6, RoomAndSessionKeepInvariant

LEMMA EndSessionKeepsInvariant ==
  ASSUME IInv, NEW c \in Codes, NEW status, EndSession(c, status)
  PROVE  IInv'
<1> DEFINE room == rooms[c]
           s == room.active
           old == sessions[s]
           new == [old EXCEPT !.status = status]
           idle == [room EXCEPT !.active = NoSession, !.status = "open"]
<1>1. /\ SoundRoom(room) /\ Open(c) /\ s \in SessionIds
      /\ old \in Session /\ old.room = room.id
  BY DEF EndSession, Idle, IInv, RoomsAreSound, SoundRoom, RoomOf, SessionsBelongToRooms,
         SessionsTyped, Exists
<1>2. /\ new \in Session /\ new.status # "running"
      /\ new.room = old.room /\ new.sequence = old.sequence
  BY <1>1 DEF EndSession, Session
<1>3. SoundRoom(idle) /\ idle.id = room.id /\ idle.active = NoSession
  BY <1>1, NullsAreDistinct DEF SoundRoom, RoomOf, Hosted, Roster
<1>4. /\ sessions' = [sessions EXCEPT ![s] = new]
      /\ rooms' = [rooms EXCEPT ![c] = idle]
  BY DEF EndSession
<1> HIDE DEF new, idle
<1> QED
  BY <1>1, <1>2, <1>3, <1>4, RoomAndSessionKeepInvariant

LEMMA CommitKeepsInvariant ==
  ASSUME IInv, NEW s \in SessionIds, NEW expected \in Nat, CommitSnapshot(s, expected)
  PROVE  IInv'
<1> USE DEF IInv
<1> DEFINE new == [sessions[s] EXCEPT !.stateVersion = expected + 1]
<1>1. /\ sessions' = [sessions EXCEPT ![s] = new] /\ UNCHANGED rooms
      /\ Exists(s) /\ sessions[s] \in Session
  BY DEF CommitSnapshot, SessionsTyped, Exists
<1>2. /\ new \in Session /\ new # NoSession /\ new.status = sessions[s].status
      /\ new.room = sessions[s].room /\ new.sequence = sessions[s].sequence
      /\ new.humans = sessions[s].humans /\ new.game = sessions[s].game
  BY <1>1, NullsAreDistinct DEF Session
<1> HIDE DEF new
<1>3. \A t \in SessionIds :
        /\ Exists(t)' <=> Exists(t)
        /\ sessions'[t].status = sessions[t].status /\ sessions'[t].room = sessions[t].room
        /\ sessions'[t].sequence = sessions[t].sequence
        /\ sessions'[t].humans = sessions[t].humans /\ sessions'[t].game = sessions[t].game
  BY <1>1, <1>2 DEF Exists, SessionsTyped
<1>4. /\ \A c \in Codes : (Open(c)' <=> Open(c)) /\ (Idle(c)' <=> Idle(c))
      /\ \A c \in Codes : Open(c) /\ ~Idle(c) => rooms[c].active \in SessionIds
  BY <1>1 DEF Open, Idle, RoomsAreSound, SoundRoom, RoomOf
<1>5. RoomsAreSound' /\ SessionsTyped'
  BY <1>1, <1>2 DEF RoomsAreSound, SessionsTyped, Open
<1>6. SessionsBelongToRooms'
  BY <1>1, <1>3, <1>4 DEF SessionsBelongToRooms, Exists
<1>7. HumansStaySeated' /\ GameIsSelected'
  BY <1>1, <1>3, <1>4 DEF HumansStaySeated, GameIsSelected
<1>8. SequencesAreDense'
  <2>1. \A id \in RoomIds : SessionsOf(id)' = SessionsOf(id)
    BY <1>3 DEF SessionsOf
  <2>2. \A id \in RoomIds : Sequences(id)' = Sequences(id)
    BY <1>3, <2>1 DEF Sequences, SessionsOf
  <2> QED
    BY <2>1, <2>2 DEF SequencesAreDense
<1> QED
  BY <1>5, <1>6, <1>7, <1>8

LEMMA AppendKeepsInvariant ==
  ASSUME IInv, UNCHANGED <<rooms, sessions>>
  PROVE  IInv'
<1>1. \A c \in Codes : (Open(c)' <=> Open(c)) /\ (Idle(c)' <=> Idle(c))
  BY DEF Open, Idle
<1>2. \A id \in RoomIds : SessionsOf(id)' = SessionsOf(id) /\ Sequences(id)' = Sequences(id)
  BY DEF SessionsOf, Sequences, Exists
<1> QED
  BY <1>1, <1>2 DEF IInv, RoomsAreSound, SessionsTyped, SessionsBelongToRooms,
     HumansStaySeated, GameIsSelected, SequencesAreDense, Exists

\* The steps of Next sorted by what they touch.
LEMMA StepCases ==
  ASSUME IInv, [Next]_vars
  PROVE  \/ RoomStep
         \/ \E c \in Codes, m \in Members, g \in Games, id \in RoomIds : CreateRoom(c, m, g, id)
         \/ \E c \in Codes, m \in Members, humans \in SUBSET Members, bots \in Nat,
               s \in SessionIds : StartSession(c, m, humans, bots, s)
         \/ \E c \in Codes, status \in {"finished", "abandoned"} : EndSession(c, status)
         \/ \E s \in SessionIds, expected \in Nat : CommitSnapshot(s, expected)
         \/ UNCHANGED <<rooms, sessions>>
<1>1. ASSUME ExpireOfflineMembers PROVE RoomStep
  BY <1>1, ExpireStep
<1>2. ASSUME NEW c \in Codes, NEW m \in Members, Rejoin(c, m) PROVE RoomStep
  BY <1>2, ConnectionStep DEF Rejoin, Connections
<1>3. ASSUME NEW c \in Codes, NEW m \in Members, Enter(c, m) PROVE RoomStep
  BY <1>3, EnterStep
<1>4. ASSUME NEW c \in Codes, NEW m \in Members, LeaveRoom(c, m) PROVE RoomStep
  BY <1>4, LeaveStep
<1>5. ASSUME NEW c \in Codes, NEW m \in Members, NEW conn, SetConnection(c, m, conn)
      PROVE  RoomStep
  BY <1>5, ConnectionStep DEF SetConnection, Connections
<1>6. ASSUME NEW c \in Codes, NEW m \in Members, GraceElapses(c, m) PROVE RoomStep
  BY <1>6, ConnectionStep DEF GraceElapses, Connections
<1>7. ASSUME NEW c \in Codes, NEW m \in Members, NEW g \in Games, SelectGame(c, m, g)
      PROVE  RoomStep
  BY <1>7, SelectGameStep
<1>8. ASSUME NEW s \in SessionIds, NEW actor, NEW action, AppendEvent(s, actor, action)
      PROVE  UNCHANGED <<rooms, sessions>>
  BY <1>8 DEF AppendEvent
<1>9. Cardinality(Members) \in Nat /\ MaxVersion \in Nat
  BY FiniteSupplies, FS_CardinalityType, BoundsAreNaturals
<1>10. CASE UNCHANGED vars
  BY <1>10 DEF vars
<1>11. CASE Next
  BY <1>1, <1>2, <1>3, <1>4, <1>5, <1>6, <1>7, <1>8, <1>9, <1>11 DEF Next
<1> QED
  BY <1>10, <1>11

LEMMA InitInvariant == Init => IInv
<1> SUFFICES ASSUME Init PROVE IInv
  OBVIOUS
<1>1. \A id \in RoomIds : SessionsOf(id) = {} /\ Sequences(id) = {}
  BY DEF Init, SessionsOf, Sequences, Exists
<1>2. Cardinality({}) = 0 /\ 1 .. 0 = {}
  BY FS_EmptySet
<1> QED
  BY <1>1, <1>2 DEF Init, IInv, RoomsAreSound, SessionsTyped, SessionsBelongToRooms,
     HumansStaySeated, GameIsSelected, SequencesAreDense, Exists, Open

LEMMA NextInvariant == IInv /\ [Next]_vars => IInv'
<1> SUFFICES ASSUME IInv, [Next]_vars PROVE IInv'
  OBVIOUS
<1> QED
  BY StepCases, RoomStepKeepsInvariant, CreateRoomKeepsInvariant,
     StartSessionKeepsInvariant, EndSessionKeepsInvariant, CommitKeepsInvariant,
     AppendKeepsInvariant

\* The inductive invariant holds in every reachable state.
THEOREM Invariance == Spec => []IInv
BY InitInvariant, NextInvariant, PTL DEF Spec

-----------------------------------------------------------------------------
(* Snapshots and events *)

\* The keys taken remember every event that carries one, and the counter is
\* ahead of every event.
LedgerInv ==
  /\ snapshots \in [SessionIds -> Nat]
  /\ events \subseteq Event
  /\ actionIDs \in [SessionIds -> SUBSET (Actors \X ActionIds)]
  /\ nextEventID \in Nat
  /\ \A e \in events :
       /\ e.id <= nextEventID
       /\ e.action # NoAction => <<e.actor, e.action>> \in actionIDs[e.session]
  /\ EventsAreIdempotent

\* Only CommitSnapshot writes snapshots and only AppendEvent writes the ledger.
LEMMA LedgerCases ==
  ASSUME [Next]_vars
  PROVE  \/ UNCHANGED <<snapshots, ledger>>
         \/ UNCHANGED ledger /\ \E s \in SessionIds, expected \in Nat : CommitSnapshot(s, expected)
         \/ \E s \in SessionIds, actor \in Actors, action \in ActionIds \cup {NoAction} :
              AppendEvent(s, actor, action)
<1>1. CASE UNCHANGED vars
  BY <1>1 DEF vars, ledger
<1>2. ASSUME NEW s \in SessionIds, NEW expected \in Nat, CommitSnapshot(s, expected)
      PROVE  UNCHANGED ledger
  BY <1>2 DEF CommitSnapshot
<1>3. ASSUME NEW c, NEW m, NEW g, NEW id, CreateRoom(c, m, g, id)
      PROVE  UNCHANGED <<snapshots, ledger>>
  BY <1>3 DEF CreateRoom
<1>4. ASSUME NEW c, NEW m, NEW humans, NEW bots, NEW s, StartSession(c, m, humans, bots, s)
      PROVE  UNCHANGED <<snapshots, ledger>>
  BY <1>4 DEF StartSession
<1>5. ASSUME NEW c, NEW m,
             \/ Rejoin(c, m) \/ Enter(c, m) \/ LeaveRoom(c, m) \/ GraceElapses(c, m)
             \/ \E conn \in {"online", "offline"} : SetConnection(c, m, conn)
             \/ \E g \in Games : SelectGame(c, m, g)
      PROVE  UNCHANGED <<snapshots, ledger>>
  BY <1>5 DEF Rejoin, Enter, LeaveRoom, GraceElapses, SetConnection, SelectGame
<1>6. ASSUME NEW c, NEW status, EndSession(c, status)
      PROVE  UNCHANGED <<snapshots, ledger>>
  BY <1>6 DEF EndSession
<1>7. ASSUME ExpireOfflineMembers PROVE UNCHANGED <<snapshots, ledger>>
  BY <1>7 DEF ExpireOfflineMembers
<1>8. CASE Next
  <2>1. 0 .. MaxVersion \subseteq Nat
    OBVIOUS
  <2> QED
    BY <1>2, <1>3, <1>4, <1>5, <1>6, <1>7, <1>8, <2>1 DEF Next
<1> QED
  BY <1>1, <1>8

LEMMA AppendKeepsLedger ==
  ASSUME LedgerInv, NEW s \in SessionIds, NEW actor \in Actors,
         NEW action \in ActionIds \cup {NoAction}, AppendEvent(s, actor, action)
  PROVE  LedgerInv'
<1> USE DEF LedgerInv
<1> DEFINE new == [id |-> nextEventID + 1, session |-> s, actor |-> actor, action |-> action]
<1>1. /\ events' = events \cup {new} /\ nextEventID' = nextEventID + 1
      /\ UNCHANGED snapshots /\ new \in Event
  BY DEF AppendEvent, Event
<1>2. /\ actionIDs' \in [SessionIds -> SUBSET (Actors \X ActionIds)]
      /\ \A t \in SessionIds : actionIDs[t] \subseteq actionIDs'[t]
      /\ action # NoAction => /\ <<actor, action>> \in actionIDs'[s]
                              /\ <<actor, action>> \notin actionIDs[s]
  BY DEF AppendEvent
<1>3. /\ new.id = nextEventID + 1 /\ new.session = s /\ new.actor = actor
      /\ new.action = action
  OBVIOUS
<1> HIDE DEF new
<1>4. \A e \in events : /\ e.id \in Nat /\ e.session \in SessionIds /\ e.id < new.id
                        /\ e.action # NoAction =>
                             <<e.session, e.actor, e.action>> # <<s, actor, action>>
  <2> SUFFICES ASSUME NEW e \in events
               PROVE  /\ e.id \in Nat /\ e.session \in SessionIds /\ e.id < new.id
                      /\ e.action # NoAction =>
                           <<e.session, e.actor, e.action>> # <<s, actor, action>>
    OBVIOUS
  <2>1. e.id \in Nat /\ e.session \in SessionIds
    BY DEF Event
  <2>2. e.id < new.id
    <3>1. e.id <= nextEventID /\ nextEventID \in Nat
      OBVIOUS
    <3> QED
      BY <1>3, <2>1, <3>1
  <2>3. ASSUME e.action # NoAction, <<e.session, e.actor, e.action>> = <<s, actor, action>>
        PROVE  FALSE
    <3>1. e.session = s /\ e.actor = actor /\ e.action = action
      BY <2>3
    <3>2. <<e.actor, e.action>> \in actionIDs[e.session]
      BY <2>3
    <3> QED
      BY <1>2, <2>3, <3>1, <3>2
  <2> QED
    BY <2>1, <2>2, <2>3
<1>5. \A e \in events' :
        /\ e.id <= nextEventID'
        /\ e.action # NoAction => <<e.actor, e.action>> \in actionIDs'[e.session]
  <2> SUFFICES ASSUME NEW e \in events'
               PROVE  /\ e.id <= nextEventID'
                      /\ e.action # NoAction => <<e.actor, e.action>> \in actionIDs'[e.session]
    OBVIOUS
  <2>1. CASE e = new
    BY <1>1, <1>2, <1>3, <2>1
  <2>2. CASE e \in events
    BY <1>1, <1>2, <1>4, <2>2
  <2> QED
    BY <1>1, <2>1, <2>2
<1>6. EventsAreIdempotent'
  BY <1>1, <1>3, <1>4 DEF EventsAreIdempotent
<1> QED
  BY <1>1, <1>2, <1>5, <1>6

LEMMA CommitKeepsLedger ==
  ASSUME LedgerInv, NEW s \in SessionIds, NEW expected \in Nat, UNCHANGED ledger,
         CommitSnapshot(s, expected)
  PROVE  LedgerInv'
BY DEF LedgerInv, CommitSnapshot, ledger, EventsAreIdempotent

LEMMA InitLedger == Init => LedgerInv
BY DEF Init, LedgerInv, EventsAreIdempotent

LEMMA NextLedger == LedgerInv /\ [Next]_vars => LedgerInv'
<1>1. ASSUME LedgerInv, UNCHANGED <<snapshots, ledger>> PROVE LedgerInv'
  BY <1>1 DEF LedgerInv, ledger, EventsAreIdempotent
<1> QED
  BY <1>1, LedgerCases, AppendKeepsLedger, CommitKeepsLedger

LEMMA LedgerInvariance == Spec => []LedgerInv
BY InitLedger, NextLedger, PTL DEF Spec

-----------------------------------------------------------------------------
(* What the operations on sessions do, for the modules that use the store *)

LEMMA StartSessionSpares ==
  ASSUME IInv, NEW c \in Codes, NEW m, NEW humans, NEW bots, NEW s \in SessionIds,
         StartSession(c, m, humans, bots, s)
  PROVE  /\ \A t \in SessionIds : t # s => sessions'[t] = sessions[t]
         /\ \A d \in Codes : d # c => rooms'[d] = rooms[d]
BY DEF StartSession, IInv, SessionsTyped, RoomsAreSound

LEMMA StartSessionOpens ==
  ASSUME IInv, NEW c \in Codes, NEW m \in Members, NEW humans \in SUBSET Members,
         NEW bots, NEW s \in SessionIds, StartSession(c, m, humans, bots, s)
  PROVE  /\ rooms[c] # NoRoom /\ rooms[c].active = NoSession /\ sessions[s] = NoSession
         /\ sessions'[s] # NoSession
         /\ sessions'[s].status = "running" /\ sessions'[s].humans = humans
         /\ sessions'[s].game = rooms[c].game /\ sessions'[s].stateVersion = 0
         /\ rooms'[c] # NoRoom /\ rooms'[c].active = s
         /\ rooms'[c].members = rooms[c].members /\ rooms'[c].game = rooms[c].game
<1> USE DEF IInv
<1> DEFINE room == rooms[c]
           busy == [room EXCEPT !.active = s, !.status = "in_game"]
           new == [room |-> room.id, game |-> room.game, sequence |-> NextSequence(room.id),
                   status |-> "running", humans |-> humans, stateVersion |-> 0]
<1>1. SoundRoom(room) /\ Open(c) /\ Idle(c) /\ ~Exists(s)
  BY DEF StartSession, Idle, RoomsAreSound
<1>2. room.id \in RoomIds /\ room.game \in Games
  BY <1>1 DEF SoundRoom, RoomOf
<1>3. NextSequence(room.id) \in Nat
  BY <1>2, NextSequenceIsNew
<1> HIDE DEF room
<1>4. new \in Session
  BY <1>2, <1>3 DEF Session
<1>5. sessions' = [sessions EXCEPT ![s] = new] /\ rooms' = [rooms EXCEPT ![c] = busy]
  BY DEF StartSession, room
<1>6. new.status = "running" /\ new.humans = humans /\ new.game = room.game
      /\ new.stateVersion = 0
  OBVIOUS
<1>7. SoundRoom(busy) /\ busy.active = s /\ busy.members = room.members /\ busy.game = room.game
  BY <1>1, NullsAreDistinct DEF SoundRoom, RoomOf, Hosted, Roster, Idle, Open, room
<1> HIDE DEF new, busy
<1>8. /\ sessions'[s] = new /\ rooms'[c] = busy
      /\ \A t \in SessionIds : t # s => sessions'[t] = sessions[t]
      /\ \A d \in Codes : d # c => rooms'[d] = rooms[d]
  BY <1>5 DEF SessionsTyped, RoomsAreSound
<1>9. new # NoSession /\ busy # NoRoom
  BY <1>4, <1>7, SoundRoomIsARoom, NullsAreDistinct
<1> QED
  BY <1>1, <1>6, <1>7, <1>8, <1>9 DEF Idle, Open, Exists, room

LEMMA EndSessionCloses ==
  ASSUME IInv, NEW c \in Codes, NEW status, EndSession(c, status)
  PROVE  LET s == rooms[c].active
         IN  /\ rooms[c] # NoRoom /\ s \in SessionIds
             /\ sessions[s] # NoSession /\ sessions[s].status = "running"
             /\ sessions'[s] # NoSession /\ sessions'[s].status = status
             /\ sessions'[s].humans = sessions[s].humans
             /\ sessions'[s].game = sessions[s].game
             /\ sessions'[s].stateVersion = sessions[s].stateVersion
             /\ \A t \in SessionIds : t # s => sessions'[t] = sessions[t]
             /\ rooms'[c] # NoRoom /\ rooms'[c].active = NoSession
             /\ rooms'[c].members = rooms[c].members /\ rooms'[c].game = rooms[c].game
             /\ \A d \in Codes : d # c => rooms'[d] = rooms[d]
<1> USE DEF IInv
<1> DEFINE room == rooms[c]
           s == room.active
           old == sessions[s]
           new == [old EXCEPT !.status = status]
           idle == [room EXCEPT !.active = NoSession, !.status = "open"]
<1>1. /\ SoundRoom(room) /\ Open(c) /\ ~Idle(c) /\ s \in SessionIds /\ Exists(s)
      /\ old \in Session /\ old.status = "running"
  BY DEF EndSession, Idle, RoomsAreSound, SoundRoom, RoomOf, SessionsBelongToRooms,
         SessionsTyped, Exists
<1>2. /\ new \in Session /\ new # NoSession /\ new.status = status
      /\ new.humans = old.humans /\ new.game = old.game
      /\ new.stateVersion = old.stateVersion
  BY <1>1, NullsAreDistinct DEF EndSession, Session
<1>3. SoundRoom(idle) /\ idle.active = NoSession /\ idle.members = room.members
      /\ idle.game = room.game
  BY <1>1, NullsAreDistinct DEF SoundRoom, RoomOf, Hosted, Roster
<1>4. sessions' = [sessions EXCEPT ![s] = new] /\ rooms' = [rooms EXCEPT ![c] = idle]
  BY DEF EndSession
<1> HIDE DEF new, idle
<1>5. PICK t \in SessionIds : t = s
  BY <1>1
<1>6. /\ sessions'[t] = new
      /\ \A u \in SessionIds : u # t => sessions'[u] = sessions[u]
      /\ rooms'[c] = idle
      /\ \A d \in Codes : d # c => rooms'[d] = rooms[d]
  BY <1>4, <1>5 DEF SessionsTyped, RoomsAreSound
<1>7. idle # NoRoom
  BY <1>3, SoundRoomIsARoom
<1> QED
  BY <1>1, <1>2, <1>3, <1>5, <1>6, <1>7 DEF Open, Exists

LEMMA CommitSnapshotWrites ==
  ASSUME IInv, LedgerInv, NEW s \in SessionIds, NEW expected \in Nat,
         CommitSnapshot(s, expected)
  PROVE  /\ sessions[s] # NoSession /\ sessions'[s] # NoSession
         /\ sessions'[s].status = sessions[s].status
         /\ sessions'[s].humans = sessions[s].humans
         /\ sessions'[s].game = sessions[s].game
         /\ sessions'[s].stateVersion = expected + 1 /\ snapshots'[s] = expected + 1
         /\ \A t \in SessionIds : t # s => sessions'[t] = sessions[t]
                                           /\ snapshots'[t] = snapshots[t]
<1> DEFINE new == [sessions[s] EXCEPT !.stateVersion = expected + 1]
<1>1. /\ sessions' = [sessions EXCEPT ![s] = new]
      /\ Exists(s) /\ sessions[s] \in Session
  BY DEF CommitSnapshot, IInv, SessionsTyped, Exists
<1>2. /\ new \in Session /\ new # NoSession /\ new.status = sessions[s].status
      /\ new.humans = sessions[s].humans /\ new.game = sessions[s].game
      /\ new.stateVersion = expected + 1
  BY <1>1, NullsAreDistinct DEF Session
<1> HIDE DEF new
<1> QED
  BY <1>1, <1>2 DEF Exists, IInv, SessionsTyped, LedgerInv, CommitSnapshot

-----------------------------------------------------------------------------
(* Safety *)

LEMMA InvariantsImplyTypes == IInv /\ LedgerInv => TypeOK
<1> SUFFICES ASSUME IInv, LedgerInv PROVE TypeOK
  OBVIOUS
<1>1. \A c \in Codes : Open(c) => \E people \in SUBSET Members : rooms[c] \in RoomOf(people)
  BY DEF IInv, RoomsAreSound, SoundRoom, SoundRoster, Roster
<1> QED
  BY <1>1 DEF TypeOK, IInv, RoomsAreSound, SessionsTyped, LedgerInv

\* Every variable keeps its type: the records of the store are well formed.
THEOREM TypeCorrect == Spec => []TypeOK
BY InvariantsImplyTypes, Invariance, LedgerInvariance, PTL

\* However people join, leave, drop out and are expired, each room has exactly
\* one host, who is one of its members.
THEOREM HostIsAlwaysSeated == Spec => []HostIsSeated
<1>1. IInv => HostIsSeated
  BY DEF IInv, RoomsAreSound, SoundRoom, Hosted, HostIsSeated
<1> QED
  BY <1>1, Invariance, PTL

\* No two members of a room ever share a seat.
THEOREM SeatsStayDistinct == Spec => []SeatsAreDistinct
<1>1. IInv => SeatsAreDistinct
  BY DEF IInv, RoomsAreSound, SoundRoom, SoundRoster, Roster, SeatsAreDistinct
<1> QED
  BY <1>1, Invariance, PTL

\* A room never outgrows its game, and plays the game it selected.
THEOREM RoomAlwaysFitsGame == Spec => []RoomFitsGame
<1>1. IInv => RoomFitsGame
  BY DEF IInv, RoomsAreSound, SoundRoom, GameIsSelected, RoomFitsGame
<1> QED
  BY <1>1, Invariance, PTL

\* Rooms and running sessions always point to each other.
THEOREM SessionsAlwaysBelongToRooms == Spec => []SessionsBelongToRooms
BY Invariance, PTL DEF IInv

\* The humans of a running match always have a seat to come back to.
THEOREM HumansAlwaysSeated == Spec => []HumansStaySeated
BY Invariance, PTL DEF IInv

\* The matches of a room are always numbered 1, 2, 3, ...
THEOREM SequencesStayDense == Spec => []SequencesAreDense
BY Invariance, PTL DEF IInv

\* An action is recorded once, whatever is sent again.
THEOREM EventsStayIdempotent == Spec => []EventsAreIdempotent
BY LedgerInvariance, PTL DEF LedgerInv

\* While a match runs its room keeps the same people on the same seats.
THEOREM RosterStaysFrozen == Spec => RosterIsFrozenDuringMatch
<1> DEFINE Frozen(c) == /\ Open(c)'
                        /\ Roster(rooms'[c]) = Roster(rooms[c])
                        /\ \A m \in Roster(rooms[c]) :
                             rooms'[c].members[m].seat = rooms[c].members[m].seat
<1>1. ASSUME IInv, [Next]_vars, NEW c \in Codes, Open(c), ~Idle(c)
      PROVE  Frozen(c)
  <2>1. rooms'[c] = rooms[c] => Frozen(c)
    BY <1>1 DEF Open
  <2>2. CASE RoomStep
    BY <1>1, <2>1, <2>2, SoundRoomIsARoom DEF RoomStep, Evolves, Open
  <2>3. ASSUME NEW d \in Codes, NEW m, NEW g, NEW id, CreateRoom(d, m, g, id)
        PROVE  Frozen(c)
    <3>1. d # c /\ rooms'[c] = rooms[c]
      BY <1>1, <2>3 DEF CreateRoom, IInv, RoomsAreSound
    <3> QED
      BY <2>1, <3>1
  <2>4. ASSUME NEW d \in Codes, NEW m, NEW humans, NEW bots, NEW s,
               StartSession(d, m, humans, bots, s)
        PROVE  Frozen(c)
    <3>1. d # c /\ rooms'[c] = rooms[c]
      BY <1>1, <2>4 DEF StartSession, IInv, RoomsAreSound
    <3> QED
      BY <2>1, <3>1
  <2>5. ASSUME NEW d \in Codes, NEW status, EndSession(d, status)
        PROVE  Frozen(c)
    <3>1. CASE d # c
      BY <1>1, <2>1, <2>5, <3>1 DEF EndSession, IInv, RoomsAreSound
    <3>2. CASE d = c
      <4>1. rooms[c] \in RoomOf(Roster(rooms[c]))
        BY <1>1 DEF IInv, RoomsAreSound, SoundRoom
      <4>2. rooms'[c] = [rooms[c] EXCEPT !.active = NoSession, !.status = "open"]
        BY <1>1, <2>5, <3>2 DEF EndSession, IInv, RoomsAreSound
      <4>3. rooms'[c].members = rooms[c].members /\ rooms'[c].active = NoSession
        BY <4>1, <4>2 DEF RoomOf
      <4>4. rooms'[c] \in RoomOf(Roster(rooms[c]))
        BY <4>1, <4>2 DEF RoomOf
      <4>5. Roster(rooms[c]) \in SUBSET Members
        BY <1>1 DEF IInv, RoomsAreSound, SoundRoom, SoundRoster, Roster
      <4> QED
        BY <4>3, <4>4, <4>5, NullsAreDistinct DEF Open, Roster
    <3> QED
      BY <3>1, <3>2
  <2>6. ASSUME NEW s, NEW expected, CommitSnapshot(s, expected)
        PROVE  Frozen(c)
    BY <2>1, <2>6 DEF CommitSnapshot
  <2> QED
    BY <1>1, <2>1, <2>2, <2>3, <2>4, <2>5, <2>6, StepCases
<1>2. IInv /\ [Next]_vars => FreezesRosters
  BY <1>1 DEF FreezesRosters
<1> QED
  BY <1>2, Invariance, PTL DEF Spec, RosterIsFrozenDuringMatch

\* Nothing about an ended session, or its snapshot, ever changes.
THEOREM EndedSessionsStaySealed == Spec => EndedSessionsAreSealed
<1>1. ASSUME IInv, [Next]_vars, NEW s \in SessionIds, Ended(s)
      PROVE  sessions'[s] = sessions[s]
  <2>1. ASSUME NEW c, NEW m, NEW humans, NEW bots, NEW t \in SessionIds,
               StartSession(c, m, humans, bots, t)
        PROVE  sessions'[s] = sessions[s]
    BY <1>1, <2>1 DEF StartSession, Ended, IInv, SessionsTyped
  <2>2. ASSUME NEW c \in Codes, NEW status, EndSession(c, status)
        PROVE  sessions'[s] = sessions[s]
    <3>1. sessions[rooms[c].active].status = "running"
      BY <1>1, <2>2 DEF EndSession, IInv, SessionsBelongToRooms, Idle
    <3> QED
      BY <1>1, <2>2, <3>1 DEF EndSession, Ended, IInv, SessionsTyped
  <2>3. ASSUME NEW t \in SessionIds, NEW expected, CommitSnapshot(t, expected)
        PROVE  sessions'[s] = sessions[s]
    BY <1>1, <2>3 DEF CommitSnapshot, Ended, IInv, SessionsTyped
  <2>4. ASSUME NEW c, NEW m, NEW g, NEW id, CreateRoom(c, m, g, id)
        PROVE  sessions'[s] = sessions[s]
    BY <2>4 DEF CreateRoom
  <2> QED
    BY <1>1, <2>1, <2>2, <2>3, <2>4, StepCases DEF RoomStep
<1>2. ASSUME LedgerInv, [Next]_vars, NEW s \in SessionIds, Ended(s)
      PROVE  snapshots'[s] = snapshots[s]
  <2>1. ASSUME NEW t \in SessionIds, NEW expected, CommitSnapshot(t, expected)
        PROVE  snapshots'[s] = snapshots[s]
    BY <1>2, <2>1 DEF CommitSnapshot, Ended, LedgerInv
  <2>2. ASSUME NEW t, NEW actor, NEW action, AppendEvent(t, actor, action)
        PROVE  snapshots'[s] = snapshots[s]
    BY <2>2 DEF AppendEvent
  <2> QED
    BY <1>2, <2>1, <2>2, LedgerCases
<1>3. IInv /\ LedgerInv /\ [Next]_vars => SparesEndedSessions
  BY <1>1, <1>2 DEF SparesEndedSessions
<1> QED
  BY <1>3, Invariance, LedgerInvariance, PTL DEF Spec, EndedSessionsAreSealed

\* A room goes on under its host, or under a member who is online if any is.
LEMMA HostPasses ==
  ASSUME IInv, [Next]_vars, NEW c \in Codes, Open(c), Open(c)'
  PROVE  \/ rooms'[c].host = rooms[c].host
         \/ rooms[c].host \notin Roster(rooms'[c]) /\ HostIsOnline(rooms'[c])
<1> DEFINE room == rooms[c]
           new == rooms'[c]
           Good == new.host = room.host \/ (room.host \notin Roster(new) /\ HostIsOnline(new))
<1>1. SoundRoom(room) /\ RoomsAreSound /\ room \in RoomOf(Roster(room))
  BY DEF IInv, RoomsAreSound, SoundRoom
<1>2. rooms'[c] = rooms[c] => Good
  OBVIOUS
<1>3. ASSUME NEW gone, new = Release(room, gone) PROVE Good
  <2> HIDE DEF room
  <2>1. CASE Roster(room) \ gone = {}
    BY <1>1, <1>3, <2>1, ReleaseKeepsSound DEF Open
  <2>2. CASE Roster(room) \ gone # {}
    BY <1>1, <1>3, <2>2, ReleaseKeepsSound
  <2> QED
    BY <2>1, <2>2
<1> HIDE DEF Good
<1>4. ASSUME ExpireOfflineMembers PROVE Good
  BY <1>2, <1>3, <1>4 DEF ExpireOfflineMembers
<1>5. ASSUME NEW d \in Codes, NEW m, LeaveRoom(d, m) PROVE Good
  BY <1>1, <1>2, <1>3, <1>5 DEF LeaveRoom, RoomsAreSound
<1>6. ASSUME NEW d \in Codes, NEW value, rooms' = [rooms EXCEPT ![d] = value],
             d = c => value.host = room.host
      PROVE  Good
  BY <1>1, <1>6 DEF Good, RoomsAreSound
<1>7. ASSUME NEW d \in Codes, NEW m, NEW conn, Open(d),
             rooms' = [rooms EXCEPT ![d].members[m].conn = conn]
      PROVE  Good
  <2> DEFINE value == [rooms[d] EXCEPT !.members[m].conn = conn]
  <2>1. rooms' = [rooms EXCEPT ![d] = value]
    BY <1>7
  <2>2. d = c => value.host = room.host
    BY <1>1 DEF RoomOf
  <2> HIDE DEF value
  <2> QED
    BY <1>6, <2>1, <2>2
<1>8. ASSUME NEW d \in Codes, NEW m, Rejoin(d, m) \/ GraceElapses(d, m)
                                     \/ \E conn : SetConnection(d, m, conn)
      PROVE  Good
  BY <1>7, <1>8 DEF Rejoin, GraceElapses, SetConnection
<1>9. ASSUME NEW d \in Codes, NEW m, Enter(d, m) PROVE Good
  <2>1. PICK people : rooms' = [rooms EXCEPT ![d].members = people]
    BY <1>9 DEF Enter
  <2> DEFINE value == [rooms[d] EXCEPT !.members = people]
  <2>2. rooms' = [rooms EXCEPT ![d] = value]
    BY <2>1
  <2>3. d = c => value.host = room.host
    BY <1>1 DEF RoomOf
  <2> HIDE DEF value
  <2> QED
    BY <1>6, <2>2, <2>3
<1>10. ASSUME NEW d \in Codes, NEW m, NEW g, SelectGame(d, m, g) PROVE Good
  <2> DEFINE value == [rooms[d] EXCEPT !.game = g]
  <2>1. rooms' = [rooms EXCEPT ![d] = value]
    BY <1>10 DEF SelectGame
  <2>2. d = c => value.host = room.host
    BY <1>1 DEF RoomOf
  <2> HIDE DEF value
  <2> QED
    BY <1>6, <2>1, <2>2
<1>11. ASSUME NEW d \in Codes, NEW active, NEW status,
              rooms' = [rooms EXCEPT ![d].active = active, ![d].status = status]
       PROVE  Good
  <2> DEFINE value == [rooms[d] EXCEPT !.active = active, !.status = status]
  <2>1. rooms' = [rooms EXCEPT ![d] = value]
    BY <1>11
  <2>2. d = c => value.host = room.host
    BY <1>1 DEF RoomOf
  <2> HIDE DEF value
  <2> QED
    BY <1>6, <2>1, <2>2
<1>12. ASSUME NEW d \in Codes, NEW m, NEW humans, NEW bots, NEW s, StartSession(d, m, humans, bots, s)
       PROVE  Good
  BY <1>11, <1>12 DEF StartSession
<1>13. ASSUME NEW d \in Codes, NEW status, EndSession(d, status) PROVE Good
  BY <1>11, <1>13 DEF EndSession
<1>14. ASSUME NEW d \in Codes, NEW m, NEW g, NEW id, CreateRoom(d, m, g, id) PROVE Good
  BY <1>1, <1>2, <1>14 DEF CreateRoom, RoomsAreSound
<1>15. ASSUME UNCHANGED rooms PROVE Good
  BY <1>2, <1>15
<1>16. ASSUME UNCHANGED vars PROVE Good
  BY <1>15, <1>16 DEF vars
<1>17. ASSUME Next PROVE Good
  <2>1. ASSUME NEW s, NEW v, CommitSnapshot(s, v) PROVE Good
    BY <1>15, <2>1 DEF CommitSnapshot
  <2>2. ASSUME NEW s, NEW a, NEW b, AppendEvent(s, a, b) PROVE Good
    BY <1>15, <2>2 DEF AppendEvent
  <2> QED
    BY <1>4, <1>5, <1>8, <1>9, <1>10, <1>12, <1>13, <1>14, <1>17, <2>1, <2>2 DEF Next
<1> QED
  BY <1>16, <1>17 DEF Good

\* A room changes hands only when its host gives up the seat, and then to
\* somebody who is there, if anybody is.
THEOREM HostAlwaysPassesToOnlineMember == Spec => HostPassesToOnlineMember
<1>1. ASSUME IInv, HostIsSeated', [Next]_vars PROVE PassesHost
  BY <1>1, HostPasses DEF PassesHost, HostIsOnline, HostIsSeated
<1> QED
  BY <1>1, Invariance, HostIsAlwaysSeated, PTL DEF Spec, HostPassesToOnlineMember
=============================================================================
