-------------------------- MODULE PokerRoomProofs --------------------------
(***************************************************************************)
(* Proofs about PokerRoom, for any numbers of people, rooms and hands.     *)
(* Most steps of the service leave the hand of a room and its session      *)
(* alone (Quiet).  The others all go through GoesOn and SavePending, with  *)
(* a session that is either new or the one the room plays (Carries), so    *)
(* that one lemma about each settles them.                                 *)
(***************************************************************************)
EXTENDS PokerRoom, FiniteSetTheorems, TLAPS

P == INSTANCE PartyStoreProofs WITH
  Games <- {Holdem}, Actors <- {}, ActionIds <- {}, NoAction <- NoRecord, MaxEvents <- 0,
  snapshots <- [s \in SessionIds |-> 0], events <- {},
  actionIDs <- [s \in SessionIds |-> {}], nextEventID <- 0

-----------------------------------------------------------------------------
(* The inductive invariant *)

Typed ==
  /\ poker \in [Codes -> Room \cup {NoTable}]
  /\ saved \in [SessionIds -> (SUBSET Players) \cup {NoRecord}]
  /\ view \in [Members -> View \cup {NoView}]
  /\ turn \in [Codes -> Nat]

Settles(c) == Settling(c) =>
  /\ Open(c) /\ HandDone(c)
  /\ rooms[c].active = poker[c].session
  /\ poker[c].pending = [session |-> poker[c].session, result |-> poker[c].table.solvent]
  /\ saved[poker[c].session] \in {NoRecord, poker[c].table.solvent}

HasSession(c) == Open(c) =>
  /\ Served(c)
  /\ rooms[c].active # NoSession <=> InPlay(c) \/ Settling(c)
  /\ InPlay(c) => /\ rooms[c].active = poker[c].session
                  /\ poker[c].table.solvent \cap Members = sessions[poker[c].session].humans
                  /\ poker[c].table.solvent \cap Members \subseteq Store!Roster(rooms[c])

\* A room of the service on its own.
Fits(c) == /\ Settles(c) /\ HasSession(c)
           /\ InPlay(c) => Open(c)
           /\ Served(c) => \/ poker[c].session = NoSession
                           \/ Store!Exists(poker[c].session)

\* The room under code c shows the hand of session s.
Shows(c, s) == Served(c) /\ poker[c].session = s

SessionsAreDistinct ==
  \A s \in SessionIds, c, d \in Codes : Shows(c, s) /\ Shows(d, s) => c = d

\* While a room shows the session a member saw, its version tells whether it
\* is still the same turn.
ViewsAreDated ==
  \A m \in Members : view[m] # NoView =>
    /\ view[m].session = NoSession \/ Store!Exists(view[m].session)
    /\ \A c \in Codes : Shows(c, view[m].session) /\ view[m].session # NoSession =>
         /\ view[m].version <= poker[c].version
         /\ view[m].version = poker[c].version => view[m].turn = turn[c]

HandRecorded(s) ==
  /\ Store!Ended(s) => saved[s] # NoRecord
  /\ saved[s] # NoRecord /\ ~Store!Ended(s) => \E c \in Codes : Settling(c) /\ Shows(c, s)

PokerInv == /\ P!IInv /\ Typed
            /\ \A c \in Codes : Fits(c)
            /\ SessionsAreDistinct /\ ViewsAreDated
            /\ \A s \in SessionIds : HandRecorded(s)

-----------------------------------------------------------------------------
(* The store as the service uses it and the store that was proved correct *)

LEMMA StoreAssumptions ==
  /\ P!IsFiniteSet(Members) /\ P!IsFiniteSet(SessionIds)
  /\ Catalogue \in [{Holdem} -> P!GameEntry]
  /\ \A g \in {Holdem} : Catalogue[g].min <= Catalogue[g].max
  /\ MaxVersion \in Nat /\ 0 \in Nat
  /\ NoSession \notin SessionIds \cup P!Session
  /\ \A people \in SUBSET Members : NoRoom \notin P!RoomOf(people) /\ NoSession # people
<1>1. P!IsFiniteSet(Members) /\ P!IsFiniteSet(SessionIds)
  BY FiniteSupplies DEF P!IsFiniteSet, IsFiniteSet
<1>2. /\ Catalogue \in [{Holdem} -> P!GameEntry]
      /\ \A g \in {Holdem} : Catalogue[g].min <= Catalogue[g].max
  BY BoundsAreNaturals DEF Catalogue, P!GameEntry
<1>3. NoSession \notin SessionIds \cup P!Session
  BY NullsAreDistinct DEF P!Session, Store!Session
<1>4. \A people \in SUBSET Members : NoRoom \notin P!RoomOf(people) /\ NoSession # people
  BY NullsAreDistinct
  DEF P!RoomOf, Store!RoomOf, P!Member, Store!Member, P!Connections, Store!Connections
<1> QED
  BY <1>1, <1>2, <1>3, <1>4, BoundsAreNaturals

LEMMA SameHelpers ==
  /\ \A members : Store!NextSeat(members) = P!NextSeat(members)
  /\ \A room, gone : Store!Release(room, gone) = P!Release(room, gone)
  /\ \A id : Store!NextSequence(id) = P!NextSequence(id)
<1>1. ASSUME NEW members PROVE Store!NextSeat(members) = P!NextSeat(members)
  BY DEF Store!NextSeat, P!NextSeat, Store!Min, P!Min, Store!Cardinality, P!Cardinality
<1>2. ASSUME NEW room, NEW gone PROVE Store!Release(room, gone) = P!Release(room, gone)
  BY DEF Store!Release, P!Release, Store!Roster, P!Roster, Store!PromoteHost, P!PromoteHost,
     Store!Successor, P!Successor
<1>3. ASSUME NEW id PROVE Store!NextSequence(id) = P!NextSequence(id)
  BY DEF Store!NextSequence, P!NextSequence, Store!Max, P!Max, Store!Sequences, P!Sequences,
     Store!SessionsOf, P!SessionsOf, Store!Exists, P!Exists
<1> QED
  BY <1>1, <1>2, <1>3

LEMMA SameOperations ==
  ASSUME NEW c, NEW m
  PROVE  /\ \A id : Store!CreateRoom(c, m, Holdem, id) => P!CreateRoom(c, m, Holdem, id)
         /\ Store!Rejoin(c, m) => P!Rejoin(c, m)
         /\ Store!Enter(c, m) => P!Enter(c, m)
         /\ Store!GraceElapses(c, m) => P!GraceElapses(c, m)
         /\ Store!ExpireOfflineMembers => P!ExpireOfflineMembers
<1> USE DEF Store!Idle, P!Idle, Store!Open, P!Open, Store!Exists, P!Exists,
            Store!Roster, P!Roster, Store!ledger, P!ledger
<1>1. ASSUME NEW id, Store!CreateRoom(c, m, Holdem, id) PROVE P!CreateRoom(c, m, Holdem, id)
  BY <1>1 DEF Store!CreateRoom, P!CreateRoom, Store!FreshRoomId, P!FreshRoomId,
     Store!SessionsOf, P!SessionsOf
<1>2. Store!Rejoin(c, m) => P!Rejoin(c, m)
  BY DEF Store!Rejoin, P!Rejoin
<1>3. Store!Enter(c, m) => P!Enter(c, m)
  BY SameHelpers DEF Store!Enter, P!Enter, Store!Cardinality, P!Cardinality
<1>4. Store!GraceElapses(c, m) => P!GraceElapses(c, m)
  BY DEF Store!GraceElapses, P!GraceElapses
<1>5. Store!ExpireOfflineMembers => P!ExpireOfflineMembers
  BY SameHelpers DEF Store!ExpireOfflineMembers, P!ExpireOfflineMembers
<1> QED
  BY <1>1, <1>2, <1>3, <1>4, <1>5

-----------------------------------------------------------------------------
(* Steps that leave the hands alone *)

\* What they may do to a room of the service: it stays as it is, or is dropped
\* when the store has no such room, or changes without touching a hand that is
\* played or settled.
Quiet(c) ==
  \/ poker'[c] = poker[c]
  \/ ~Open(c) /\ poker'[c] = NoTable
  \/ /\ Served(c) /\ poker'[c] \in Room
     /\ poker'[c].version >= poker[c].version
     /\ poker'[c].session \in {poker[c].session, NoSession}
     /\ IF InPlay(c) \/ Settling(c)
        THEN /\ poker'[c].table = poker[c].table
             /\ poker'[c].session = poker[c].session
             /\ poker'[c].pending = poker[c].pending
        ELSE /\ poker'[c].table \in {NoTable, poker[c].table}
             /\ poker'[c].pending = NoRecord

\* A member may see what the room under code c shows, which is the same before
\* and after the step.
Glimpses ==
  /\ view' \in [Members -> View \cup {NoView}]
  /\ \A m \in Members :
       \/ view'[m] = view[m]
       \/ \E c \in Codes : /\ Served(c)
                           /\ view'[m] = [version |-> poker[c].version,
                                          session |-> poker[c].session, turn |-> turn[c]]

LEMMA ServedRoom ==
  ASSUME PokerInv, NEW c \in Codes, Served(c)
  PROVE  /\ poker[c] \in Room
         /\ poker[c].table = NoTable \/ poker[c].table \in Hands
         /\ poker[c].version \in Nat
         /\ poker[c].session # NoSession =>
              poker[c].session \in SessionIds /\ sessions[poker[c].session] # NoSession
<1>1. poker[c] \in Room
  BY DEF PokerInv, Typed, Served
<1> QED
  BY <1>1 DEF Room, PokerInv, Fits, Store!Exists

LEMMA NoTableIsNoRoom ==
  /\ \A r \in Room : r # NoTable
  /\ \A hand \in Hands : hand # NoTable
BY NullsAreDistinct

LEMMA QuietFits ==
  ASSUME PokerInv, NEW c \in Codes, P!Evolves(c), Quiet(c), UNCHANGED <<sessions, saved>>
  PROVE  Fits(c)' /\ (Settling(c) => Settling(c)' /\ poker'[c].session = poker[c].session)
<1> USE DEF Open, Store!Open, P!Open, P!Idle, Served, Seated, InPlay, HandDone, Settling,
            Store!Exists, Store!Roster, P!Roster
<1>1. Fits(c)
  BY DEF PokerInv
<1>2. rooms'[c] # NoRoom => rooms[c] # NoRoom /\ rooms'[c].active = rooms[c].active
  BY StoreAssumptions, P!SoundRoomIsARoom DEF P!Evolves
<1>3. rooms[c] # NoRoom /\ rooms[c].active # NoSession =>
        rooms'[c] # NoRoom /\ Store!Roster(rooms'[c]) = Store!Roster(rooms[c])
  BY StoreAssumptions, P!SoundRoomIsARoom DEF P!Evolves
<1>4. CASE poker'[c] = poker[c]
  <2>1. InPlay(c) \/ Settling(c) => rooms[c] # NoRoom /\ rooms[c].active # NoSession
    BY <1>1 DEF Fits, Settles, HasSession
  <2> QED
    BY <1>1, <1>2, <1>3, <1>4, <2>1 DEF Fits, Settles, HasSession
<1>5. CASE ~Open(c) /\ poker'[c] = NoTable
  BY <1>1, <1>2, <1>5 DEF Fits, Settles, HasSession
<1>6. CASE Served(c) /\ poker'[c] \in Room /\ (InPlay(c) \/ Settling(c))
           /\ poker'[c].table = poker[c].table
           /\ poker'[c].session = poker[c].session
           /\ poker'[c].pending = poker[c].pending
  <2>1. rooms[c] # NoRoom /\ rooms[c].active # NoSession
    BY <1>1, <1>6 DEF Fits, Settles, HasSession
  <2>2. poker'[c] # NoTable
    BY <1>6, NoTableIsNoRoom
  <2>3. Settles(c)'
    BY <1>1, <1>2, <1>3, <1>6, <2>1, <2>2 DEF Fits, Settles
  <2>4. HasSession(c)'
    BY <1>1, <1>2, <1>3, <1>6, <2>1, <2>2 DEF Fits, HasSession
  <2> QED
    BY <1>1, <1>2, <1>3, <1>6, <2>1, <2>2, <2>3, <2>4 DEF Fits
<1>7. CASE Served(c) /\ poker'[c] \in Room /\ ~(InPlay(c) \/ Settling(c))
           /\ poker'[c].session \in {poker[c].session, NoSession}
           /\ poker'[c].table \in {NoTable, poker[c].table}
           /\ poker'[c].pending = NoRecord
  <2>1. rooms[c] # NoRoom => rooms[c].active = NoSession
    BY <1>1, <1>7 DEF Fits, HasSession
  <2>2. poker'[c] # NoTable
    BY <1>7, NoTableIsNoRoom
  <2>3. ~InPlay(c)' /\ ~Settling(c)'
    BY <1>7, <2>2
  <2> QED
    BY <1>1, <1>2, <1>3, <1>7, <2>1, <2>2, <2>3 DEF Fits, Settles, HasSession
<1> QED
  BY <1>4, <1>5, <1>6, <1>7 DEF Quiet

LEMMA QuietStep ==
  ASSUME PokerInv, P!RoomStep, UNCHANGED <<saved, turn>>, Glimpses,
         poker' = [c \in Codes |-> poker'[c]], \A c \in Codes : Quiet(c)
  PROVE  PokerInv'
<1> USE DEF Store!Exists
<1>1. UNCHANGED sessions /\ \A c \in Codes : P!Evolves(c)
  BY DEF P!RoomStep
<1>2. P!IInv'
  BY StoreAssumptions, P!RoomStepKeepsInvariant DEF PokerInv
<1>3. ASSUME NEW c \in Codes
      PROVE  Fits(c)' /\ (Settling(c) => Settling(c)' /\ poker'[c].session = poker[c].session)
  BY <1>1, QuietFits
<1>4. ASSUME NEW c \in Codes, Served(c)'
      PROVE  /\ Served(c) /\ poker[c].version \in Nat /\ poker'[c].version \in Nat
             /\ poker'[c].version >= poker[c].version
             /\ poker'[c].session \in {poker[c].session, NoSession}
  <2>1. Served(c) /\ poker'[c] \in Room
    BY <1>4, ServedRoom DEF Quiet, Served
  <2> QED
    BY <1>4, <2>1, ServedRoom DEF Quiet, Served, Room
<1>5. Typed'
  <2>1. \A c \in Codes : poker'[c] \in Room \cup {NoTable}
    BY ServedRoom DEF Quiet, Served
  <2> QED
    BY <2>1 DEF PokerInv, Typed, Glimpses
<1>6. SessionsAreDistinct'
  <2>1. \A s \in SessionIds : s # NoSession
    BY StoreAssumptions
  <2> QED
    BY <1>4, <2>1 DEF PokerInv, SessionsAreDistinct, Shows
<1>7. ViewsAreDated'
  <2> SUFFICES ASSUME NEW m \in Members, view'[m] # NoView
               PROVE  /\ view'[m].session = NoSession \/ sessions[view'[m].session] # NoSession
                      /\ \A c \in Codes : Shows(c, view[m].session)'
                                          /\ view'[m].session # NoSession =>
                           /\ view'[m].version <= poker'[c].version
                           /\ view'[m].version = poker'[c].version => view'[m].turn = turn[c]
    BY <1>1 DEF ViewsAreDated, Shows
  <2>1. ASSUME view'[m] = view[m]
        PROVE  /\ view'[m].session = NoSession \/ sessions[view'[m].session] # NoSession
               /\ \A c \in Codes : Shows(c, view'[m].session) /\ view'[m].session # NoSession =>
                    /\ view'[m].version \in Nat
                    /\ view'[m].version <= poker[c].version
                    /\ view'[m].version = poker[c].version => view'[m].turn = turn[c]
    <3>1. view[m] \in View
      BY <2>1 DEF PokerInv, Typed
    <3> QED
      BY <2>1, <3>1 DEF PokerInv, ViewsAreDated, View
  <2>2. ASSUME NEW d \in Codes, Served(d),
               view'[m] = [version |-> poker[d].version, session |-> poker[d].session,
                           turn |-> turn[d]]
        PROVE  /\ view'[m].session = NoSession \/ sessions[view'[m].session] # NoSession
               /\ \A c \in Codes : Shows(c, view'[m].session) /\ view'[m].session # NoSession =>
                    /\ view'[m].version \in Nat
                    /\ view'[m].version <= poker[c].version
                    /\ view'[m].version = poker[c].version => view'[m].turn = turn[c]
    <3>1. /\ view'[m].version = poker[d].version /\ view'[m].session = poker[d].session
          /\ view'[m].turn = turn[d] /\ poker[d].version \in Nat
          /\ poker[d].session # NoSession =>
               poker[d].session \in SessionIds /\ sessions[poker[d].session] # NoSession
      BY <2>2, ServedRoom
    <3>2. \A c \in Codes : Shows(c, poker[d].session) /\ poker[d].session # NoSession => c = d
      BY <2>2, <3>1 DEF PokerInv, SessionsAreDistinct, Shows
    <3> QED
      BY <3>1, <3>2
  <2>3. /\ view'[m].session = NoSession \/ sessions[view'[m].session] # NoSession
        /\ \A c \in Codes : Shows(c, view'[m].session) /\ view'[m].session # NoSession =>
             /\ view'[m].version \in Nat
             /\ view'[m].version <= poker[c].version
             /\ view'[m].version = poker[c].version => view'[m].turn = turn[c]
    BY <2>1, <2>2 DEF Glimpses
  <2>4. ASSUME NEW c \in Codes, Shows(c, view[m].session)', view'[m].session # NoSession
        PROVE  /\ view'[m].version <= poker'[c].version
               /\ view'[m].version = poker'[c].version => view'[m].turn = turn[c]
    <3>1. Served(c)' /\ poker'[c].session = view'[m].session
      BY <2>4 DEF Shows
    <3>2. Shows(c, view'[m].session) /\ poker'[c].version >= poker[c].version
          /\ poker[c].version \in Nat /\ poker'[c].version \in Nat
      BY <1>4, <2>4, <3>1 DEF Shows
    <3> QED
      BY <2>3, <2>4, <3>2
  <2> QED
    BY <2>3, <2>4
<1>8. \A s \in SessionIds : HandRecorded(s)'
  <2>1. \A s \in SessionIds, c \in Codes : Settling(c) /\ Shows(c, s) =>
          Settling(c)' /\ Shows(c, s)'
    BY <1>3 DEF Shows, Settling
  <2> QED
    BY <1>1, <2>1 DEF PokerInv, HandRecorded, Store!Ended
<1> QED
  BY <1>2, <1>3, <1>5, <1>6, <1>7, <1>8 DEF PokerInv

-----------------------------------------------------------------------------
(* Steps of a hand *)

\* Only the room under code c and the session s are concerned.
Elsewhere(c, s) ==
  /\ \A d \in Codes : d # c => /\ rooms'[d] = rooms[d] /\ poker'[d] = poker[d]
                               /\ turn'[d] = turn[d]
  /\ \A t \in SessionIds : t # s => sessions'[t] = sessions[t] /\ saved'[t] = saved[t]

\* The session of a hand is the one the room shows, or nobody knows it yet.
LEMMA SessionIsOwn ==
  ASSUME PokerInv, NEW c \in Codes, NEW s \in SessionIds,
         Shows(c, s) \/ ~Store!Exists(s)
  PROVE  /\ \A d \in Codes : Shows(d, s) => d = c
         /\ \A m \in Members : view[m] # NoView /\ view[m].session = s => Shows(c, s)
<1>1. s # NoSession
  BY StoreAssumptions
<1> QED
  BY <1>1 DEF PokerInv, SessionsAreDistinct, ViewsAreDated, Fits, Shows

LEMMA OthersFit ==
  ASSUME PokerInv, NEW c \in Codes, NEW s \in SessionIds, Elsewhere(c, s),
         Shows(c, s) \/ ~Store!Exists(s), NEW d \in Codes, d # c
  PROVE  Fits(d)'
<1> USE DEF Open, Store!Open, Served, Seated, InPlay, HandDone, Settling, Store!Exists
<1>1. rooms'[d] = rooms[d] /\ poker'[d] = poker[d] /\ Fits(d)
  BY DEF Elsewhere, PokerInv
<1>2. Served(d) /\ poker[d].session # NoSession =>
        /\ poker[d].session \in SessionIds /\ poker[d].session # s
        /\ sessions'[poker[d].session] = sessions[poker[d].session]
        /\ saved'[poker[d].session] = saved[poker[d].session]
  BY SessionIsOwn, ServedRoom DEF Elsewhere, Shows
<1>3. InPlay(d) \/ Settling(d) => poker[d].session # NoSession
  BY <1>1 DEF Fits, Settles, HasSession
<1>4. Settles(d)'
  BY <1>1, <1>2, <1>3 DEF Fits, Settles
<1>5. HasSession(d)'
  BY <1>1, <1>2, <1>3 DEF Fits, HasSession
<1> QED
  BY <1>1, <1>2, <1>4, <1>5 DEF Fits

LEMMA HandStep ==
  ASSUME PokerInv, P!IInv', NEW c \in Codes, NEW s \in SessionIds, Served(c), Elsewhere(c, s),
         Shows(c, s) \/ (~Store!Exists(s) /\ ~Settling(c)),
         poker' = [d \in Codes |-> poker'[d]], poker'[c] \in Room, poker'[c].session = s,
         \/ poker'[c].version > poker[c].version
         \/ poker'[c].version = poker[c].version /\ turn'[c] = turn[c],
         turn' \in [Codes -> Nat], saved' \in [SessionIds -> (SUBSET Players) \cup {NoRecord}],
         UNCHANGED view, sessions'[s] # NoSession, Fits(c)', HandRecorded(s)'
  PROVE  PokerInv'
<1> USE DEF Store!Exists
<1>1. s # NoSession /\ poker'[c] # NoTable
  BY StoreAssumptions, NoTableIsNoRoom
<1>2. \A d \in Codes : d # c => poker'[d] = poker[d] /\ turn'[d] = turn[d]
  BY DEF Elsewhere
<1>3. \A d \in Codes : Fits(d)'
  BY OthersFit
<1>4. Typed'
  <2>1. \A d \in Codes : poker'[d] \in Room \cup {NoTable}
    BY <1>2 DEF PokerInv, Typed
  <2> QED
    BY <2>1 DEF PokerInv, Typed
<1>5. SessionsAreDistinct'
  <2>1. \A t \in SessionIds, d \in Codes : Shows(d, t)' => IF d = c THEN t = s ELSE Shows(d, t)
    BY <1>2 DEF Shows, Served
  <2>2. \A d \in Codes : Shows(d, s)' => d = c
    BY <2>1, SessionIsOwn
  <2> QED
    BY <2>1, <2>2 DEF PokerInv, SessionsAreDistinct
<1>6. ViewsAreDated'
  <2> SUFFICES ASSUME NEW m \in Members, view[m] # NoView
               PROVE  /\ view[m].session = NoSession \/ sessions'[view[m].session] # NoSession
                      /\ \A d \in Codes : Shows(d, view[m].session)'
                                          /\ view[m].session # NoSession =>
                           /\ view[m].version <= poker'[d].version
                           /\ view[m].version = poker'[d].version => view[m].turn = turn'[d]
    BY DEF ViewsAreDated, Shows
  <2>1. view[m] \in View
    BY DEF PokerInv, Typed
  <2>2. /\ view[m].version \in Nat /\ view[m].session \in SessionIds \cup {NoSession}
        /\ view[m].session = NoSession \/ sessions[view[m].session] # NoSession
        /\ \A d \in Codes : Shows(d, view[m].session) /\ view[m].session # NoSession =>
             /\ view[m].version <= poker[d].version
             /\ view[m].version = poker[d].version => view[m].turn = turn[d]
    BY <2>1 DEF PokerInv, ViewsAreDated, View
  <2>3. view[m].session = NoSession \/ sessions'[view[m].session] # NoSession
    BY <2>2 DEF Elsewhere
  <2>4. ASSUME NEW d \in Codes, Shows(d, view[m].session)', view[m].session # NoSession
        PROVE  /\ view[m].version <= poker'[d].version
               /\ view[m].version = poker'[d].version => view[m].turn = turn'[d]
    <3>1. CASE d = c
      <4>1. view[m].session = s
        BY <2>4, <3>1 DEF Shows
      <4>2. Shows(c, s)
        BY <4>1, SessionIsOwn
      <4>3. poker[c].version \in Nat /\ poker'[c].version \in Nat
        BY ServedRoom DEF Room
      <4>4. /\ view[m].version <= poker[c].version
            /\ view[m].version = poker[c].version => view[m].turn = turn[c]
        BY <1>1, <2>2, <4>1, <4>2
      <4> QED
        BY <2>2, <3>1, <4>3, <4>4
    <3>2. CASE d # c
      BY <1>2, <2>2, <2>4, <3>2 DEF Shows, Served
    <3> QED
      BY <3>1, <3>2
  <2> QED
    BY <2>3, <2>4
<1>7. ASSUME NEW t \in SessionIds PROVE HandRecorded(t)'
  <2>1. CASE t = s
    BY <2>1
  <2>2. CASE t # s
    <3>1. sessions'[t] = sessions[t] /\ saved'[t] = saved[t] /\ HandRecorded(t)
      BY <2>2 DEF Elsewhere, PokerInv
    <3>2. ASSUME NEW d \in Codes, Settling(d), Shows(d, t)
          PROVE  Settling(d)' /\ Shows(d, t)'
      <4>1. d # c
        BY <2>2, <3>2 DEF Shows
      <4> QED
        BY <1>2, <3>2, <4>1 DEF Settling, Served, Shows
    <3> QED
      BY <3>1, <3>2 DEF HandRecorded, Store!Ended
  <2> QED
    BY <2>1, <2>2
<1> QED
  BY <1>3, <1>4, <1>5, <1>6, <1>7 DEF PokerInv

\* The room, and the sessions, as they stand before a hand is saved: session s
\* is the one the room plays, or it has just been opened for a new hand.
Carries(c, s, room, allSessions) ==
  /\ Open(c) /\ P!SoundRoom(room) /\ room.id = rooms[c].id /\ room.active = s
  /\ \E session \in P!Session :
       /\ allSessions = [sessions EXCEPT ![s] = session]
       /\ session.status = "running" /\ session.room = room.id
       /\ session.humans \subseteq P!Roster(room)
       /\ \/ /\ rooms[c].active = NoSession /\ ~Store!Exists(s)
             /\ session.sequence = Store!NextSequence(room.id)
          \/ rooms[c].active = s /\ Shows(c, s) /\ session = sessions[s]

LEMMA CarriedSession ==
  ASSUME PokerInv, NEW c \in Codes, NEW s \in SessionIds, NEW room, NEW allSessions,
         Carries(c, s, room, allSessions)
  PROVE  /\ allSessions[s] \in P!Session /\ allSessions[s].status = "running"
         /\ allSessions = [sessions EXCEPT ![s] = allSessions[s]]
         /\ allSessions[s].room = room.id /\ allSessions[s].game = room.game
         /\ allSessions[s].humans \subseteq P!Roster(room)
         /\ \/ /\ rooms[c].active = NoSession /\ ~Store!Exists(s)
               /\ allSessions[s].sequence = P!NextSequence(room.id)
            \/ rooms[c].active = s /\ Shows(c, s) /\ allSessions[s] = sessions[s]
         /\ Shows(c, s) \/ (~Store!Exists(s) /\ ~Settling(c))
<1> DEFINE Carried(session) ==
       /\ allSessions = [sessions EXCEPT ![s] = session]
       /\ session.status = "running" /\ session.room = room.id
       /\ session.humans \subseteq P!Roster(room)
       /\ \/ /\ rooms[c].active = NoSession /\ ~Store!Exists(s)
             /\ session.sequence = Store!NextSequence(room.id)
          \/ rooms[c].active = s /\ Shows(c, s) /\ session = sessions[s]
<1>1. PICK session \in P!Session : Carried(session)
  BY DEF Carries
<1>2. allSessions[s] = session
  BY <1>1 DEF PokerInv, P!IInv, P!SessionsTyped
<1>3. session.game = Holdem /\ room.game = Holdem
  BY DEF Carries, P!SoundRoom, P!RoomOf, P!Session
<1>4. Settling(c) => rooms[c].active # NoSession
  BY DEF Carries, PokerInv, Fits, HasSession
<1> QED
  BY <1>1, <1>2, <1>3, <1>4, SameHelpers

\* The database keeps a result it has.
LEMMA RecordingKeeps ==
  ASSUME PokerInv, NEW s \in SessionIds, NEW result \in SUBSET Players,
         saved[s] \in {NoRecord, result},
         saved' \in {saved, Recorded([session |-> s, result |-> result])}
  PROVE  /\ saved' \in [SessionIds -> (SUBSET Players) \cup {NoRecord}]
         /\ saved'[s] \in {NoRecord, result}
         /\ \A t \in SessionIds : t # s => saved'[t] = saved[t]
BY DEF PokerInv, Typed, Recorded

LEMMA BumpedFits ==
  ASSUME NEW r \in Room
  PROVE  /\ Bumped(r) \in Room /\ Bumped(r).version = r.version + 1
         /\ Bumped(r).session = r.session /\ Bumped(r).table = r.table
         /\ Bumped(r).pending = r.pending
BY DEF Bumped, Room

LEMMA SavePendingKeeps ==
  ASSUME PokerInv, NEW c \in Codes, Served(c), NEW s \in SessionIds, NEW room, NEW allSessions,
         Carries(c, s, room, allSessions),
         NEW r \in Room, NEW hand \in Hands, hand.status = "done", r.table = hand,
         r.session = s, r.pending = [session |-> s, result |-> hand.solvent],
         saved[s] \in {NoRecord, hand.solvent},
         r.version > poker[c].version \/ (r.version = poker[c].version /\ turn'[c] = turn[c]),
         turn' \in [Codes -> Nat], \A d \in Codes : d # c => turn'[d] = turn[d],
         UNCHANGED view,
         SavePending(c, r, room, allSessions)
  PROVE  PokerInv'
<1> USE DEF Open, Store!Open, Served, Seated, InPlay, HandDone, Settling, Store!Exists
<1> DEFINE old == allSessions[s]
<1>1. /\ old \in P!Session /\ old.status = "running" /\ allSessions = [sessions EXCEPT ![s] = old]
      /\ old.room = room.id /\ old.game = room.game /\ old.humans \subseteq P!Roster(room)
      /\ \/ /\ rooms[c].active = NoSession /\ ~Store!Exists(s)
            /\ old.sequence = P!NextSequence(room.id)
         \/ rooms[c].active = s /\ Shows(c, s) /\ old = sessions[s]
      /\ Shows(c, s) \/ (~Store!Exists(s) /\ ~Settling(c))
  BY CarriedSession
<1> HIDE DEF old
<1>2. /\ P!IInv /\ rooms[c] # NoRoom /\ P!Open(c) /\ P!SoundRoom(room)
      /\ room.id = rooms[c].id /\ room.active = s
      /\ rooms[c].active = NoSession => P!Idle(c)
      /\ sessions[s] = NoSession <=> ~P!Exists(s)
  BY DEF Carries, PokerInv, P!Open, P!Idle, P!Exists
<1>3. /\ hand.solvent \in SUBSET Players /\ hand # NoTable /\ r # NoTable
      /\ r.pending # NoRecord /\ s # NoSession /\ room # NoRoom
      /\ r.version \in Nat /\ poker[c].version \in Nat
  <2>1. hand.solvent \in SUBSET Players /\ hand # NoTable /\ r # NoTable
    BY NoTableIsNoRoom DEF Hands
  <2>2. r.pending # NoRecord
    BY <2>1, NullsAreDistinct DEF Record
  <2>3. s # NoSession /\ room # NoRoom
    BY <1>2, StoreAssumptions, NullsAreDistinct, P!SoundRoomIsARoom
  <2>4. r.version \in Nat /\ poker[c].version \in Nat
    BY ServedRoom DEF Room
  <2> QED
    BY <2>1, <2>2, <2>3, <2>4
<1>4. CASE /\ saved' = Recorded(r.pending)
           /\ poker' = [poker EXCEPT ![c] = Bumped([r EXCEPT !.pending = NoRecord, !.retry = "none"])]
           /\ rooms' = [rooms EXCEPT ![c] = Freed(room)]
           /\ sessions' = [allSessions EXCEPT ![room.active].status = "finished"]
  <2> DEFINE new == [old EXCEPT !.status = "finished"]
             next == Bumped([r EXCEPT !.pending = NoRecord, !.retry = "none"])
  <2>1. /\ P!SoundRoom(Freed(room)) /\ Freed(room).id = room.id /\ Freed(room).active = NoSession
        /\ P!Roster(Freed(room)) = P!Roster(room)
    BY <1>2 DEF Freed, P!SoundRoom, P!RoomOf, P!Hosted, P!Roster
  <2>2. /\ new \in P!Session /\ new.status = "finished" /\ new.room = room.id
        /\ new.sequence = old.sequence /\ new # NoSession
    BY <1>1, StoreAssumptions DEF P!Session
  <2>3. sessions' = [sessions EXCEPT ![s] = new]
    BY <1>1, <1>2, <1>4 DEF PokerInv, P!IInv, P!SessionsTyped
  <2>4. /\ next \in Room /\ next.session = s /\ next.pending = NoRecord /\ next.table = hand
        /\ next.version = r.version + 1 /\ next # NoTable
    <3> DEFINE settled == [r EXCEPT !.pending = NoRecord, !.retry = "none"]
    <3>1. /\ settled \in Room /\ settled.session = s /\ settled.pending = NoRecord
          /\ settled.table = hand /\ settled.version = r.version
      BY DEF Room
    <3>2. next = Bumped(settled)
      OBVIOUS
    <3> HIDE DEF settled, next
    <3> QED
      BY <3>1, <3>2, BumpedFits, NoTableIsNoRoom
  <2>5. /\ poker' = [d \in Codes |-> poker'[d]] /\ poker'[c] = next
        /\ \A d \in Codes : d # c => poker'[d] = poker[d]
        /\ rooms'[c] = Freed(room) /\ \A d \in Codes : d # c => rooms'[d] = rooms[d]
        /\ sessions'[s] = new /\ \A t \in SessionIds : t # s => sessions'[t] = sessions[t]
    BY <1>4, <2>3 DEF PokerInv, Typed, P!IInv, P!SessionsTyped, P!RoomsAreSound
  <2> HIDE DEF new, next
  <2>6. P!IInv'
    <3> DEFINE freed == Freed(room)
    <3>1. \/ P!Idle(c) /\ ~P!Exists(s) /\ new.sequence = P!NextSequence(freed.id)
          \/ rooms[c].active = s /\ new.sequence = sessions[s].sequence
      BY <1>1, <1>2, <2>1, <2>2
    <3>2. /\ P!SoundRoom(freed) /\ freed.id = rooms[c].id /\ freed.active = NoSession
          /\ new.room = freed.id /\ rooms' = [rooms EXCEPT ![c] = freed]
      BY <1>2, <1>4, <2>1, <2>2
    <3> HIDE DEF freed
    <3> QED
      BY <1>2, <2>2, <2>3, <3>1, <3>2, StoreAssumptions, P!RoomAndSessionKeepInvariant
  <2>7. /\ saved' \in [SessionIds -> (SUBSET Players) \cup {NoRecord}]
        /\ \A t \in SessionIds : t # s => saved'[t] = saved[t]
    BY <1>3, <1>4, RecordingKeeps
  <2>8. saved'[s] # NoRecord
    BY <1>3, <1>4, NullsAreDistinct DEF PokerInv, Typed, Recorded
  <2>9. Fits(c)'
    BY <1>3, <2>1, <2>2, <2>4, <2>5 DEF Fits, Settles, HasSession
  <2>10. HandRecorded(s)'
    BY <2>2, <2>5, <2>8 DEF HandRecorded, Store!Ended
  <2>11. Elsewhere(c, s)
    BY <2>5, <2>7 DEF Elsewhere
  <2>12. poker'[c] \in Room /\ poker'[c].session = s /\ poker'[c].version > poker[c].version
    BY <1>3, <2>4, <2>5
  <2> QED
    BY <1>1, <2>2, <2>5, <2>6, <2>7, <2>9, <2>10, <2>11, <2>12, HandStep
<1>5. CASE /\ saved' \in {saved, Recorded(r.pending)}
           /\ poker' = [poker EXCEPT ![c] = [r EXCEPT !.retry = "waiting"]]
           /\ rooms' = [rooms EXCEPT ![c] = room]
           /\ sessions' = allSessions
  <2> DEFINE next == [r EXCEPT !.retry = "waiting"]
  <2>1. old # NoSession /\ sessions' = [sessions EXCEPT ![s] = old]
    BY <1>1, <1>5, StoreAssumptions
  <2>2. /\ next \in Room /\ next.session = s /\ next.pending = r.pending /\ next.table = hand
        /\ next.version = r.version /\ next # NoTable
    BY NoTableIsNoRoom DEF Room
  <2>3. /\ poker' = [d \in Codes |-> poker'[d]] /\ poker'[c] = next
        /\ \A d \in Codes : d # c => poker'[d] = poker[d]
        /\ rooms'[c] = room /\ \A d \in Codes : d # c => rooms'[d] = rooms[d]
        /\ sessions'[s] = old /\ \A t \in SessionIds : t # s => sessions'[t] = sessions[t]
    BY <1>5, <2>1 DEF PokerInv, Typed, P!IInv, P!SessionsTyped, P!RoomsAreSound
  <2> HIDE DEF next
  <2>4. P!IInv'
    <3>1. \/ P!Idle(c) /\ ~P!Exists(s) /\ old.sequence = P!NextSequence(room.id)
          \/ rooms[c].active = s /\ old.sequence = sessions[s].sequence
      BY <1>1, <1>2
    <3> QED
      BY <1>1, <1>2, <1>5, <2>1, <3>1, StoreAssumptions, P!RoomAndSessionKeepInvariant
  <2>5. /\ saved' \in [SessionIds -> (SUBSET Players) \cup {NoRecord}]
        /\ saved'[s] \in {NoRecord, hand.solvent}
        /\ \A t \in SessionIds : t # s => saved'[t] = saved[t]
    BY <1>3, <1>5, RecordingKeeps
  <2>6. Fits(c)'
    BY <1>2, <1>3, <2>1, <2>2, <2>3, <2>5 DEF Fits, Settles, HasSession
  <2>7. HandRecorded(s)'
    BY <1>1, <1>3, <2>1, <2>2, <2>3 DEF HandRecorded, Store!Ended, Shows
  <2>8. Elsewhere(c, s)
    BY <2>3, <2>5 DEF Elsewhere
  <2>9. /\ poker'[c] \in Room /\ poker'[c].session = s
        /\ \/ poker'[c].version > poker[c].version
           \/ poker'[c].version = poker[c].version /\ turn'[c] = turn[c]
    BY <1>3, <2>2, <2>3
  <2> QED
    BY <1>1, <2>1, <2>3, <2>4, <2>5, <2>6, <2>7, <2>8, <2>9, HandStep
<1> QED
  BY <1>4, <1>5 DEF SavePending

LEMMA OutcomesAreHands ==
  ASSUME NEW c \in Codes, NEW solvent \in SUBSET Players, NEW hand \in Outcomes(c, solvent)
  PROVE  /\ hand \in Hands /\ hand.status \in {"playing", "done"}
         /\ hand.status = "playing" => hand.solvent = solvent
BY DEF Outcomes, Table!Outcomes, Hands

\* A hand is dealt or played on, in session s, by those who sat down with chips.
LEMMA GoesOnKeeps ==
  ASSUME PokerInv, NEW c \in Codes, Served(c), NEW s \in SessionIds, NEW room, NEW allSessions,
         Carries(c, s, room, allSessions), saved[s] = NoRecord,
         NEW r \in Room, r.session = s, r.pending = NoRecord, r.version = poker[c].version,
         NEW solvent \in SUBSET Players, solvent \cap Members = allSessions[s].humans,
         NEW hand \in Outcomes(c, solvent), NEW clock \in Clocks, UNCHANGED view,
         GoesOn(c, r, hand, clock, room, allSessions)
  PROVE  PokerInv'
<1> USE DEF Open, Store!Open, Served, Seated, InPlay, HandDone, Settling, Store!Exists
<1> DEFINE played == [r EXCEPT !.table = hand, !.clock = clock]
           next == Bumped(played)
           record == [session |-> r.session, result |-> hand.solvent]
           settling == [next EXCEPT !.pending = record]
<1>1. /\ hand \in Hands /\ hand # NoTable /\ hand.status \in {"playing", "done"}
      /\ hand.status = "playing" => hand.solvent = solvent
  BY OutcomesAreHands, NoTableIsNoRoom
<1>2. /\ played \in Room /\ played.session = s /\ played.table = hand
      /\ played.pending = NoRecord /\ played.version = r.version
  BY <1>1 DEF Room
<1>3. /\ turn' \in [Codes -> Nat] /\ \A d \in Codes : d # c => turn'[d] = turn[d]
  BY DEF GoesOn, PokerInv, Typed
<1>4. IF hand.status = "playing"
      THEN /\ poker' = [poker EXCEPT ![c] = next] /\ rooms' = [rooms EXCEPT ![c] = room]
           /\ sessions' = allSessions /\ UNCHANGED saved
      ELSE SavePending(c, settling, room, allSessions)
  BY DEF GoesOn
<1> HIDE DEF played
<1>5. /\ next \in Room /\ next.session = s /\ next.table = hand /\ next # NoTable
      /\ next.pending = NoRecord /\ next.version = poker[c].version + 1
      /\ poker[c].version \in Nat
  BY <1>2, BumpedFits, NoTableIsNoRoom, ServedRoom
<1> HIDE DEF next
<1>6. CASE hand.status = "done"
  <2>1. record = [session |-> s, result |-> hand.solvent] /\ record \in Record
    BY <1>1 DEF Record, Hands
  <2> HIDE DEF record
  <2>2. /\ settling \in Room /\ settling.session = s /\ settling.table = hand
        /\ settling.pending = record /\ settling.version > poker[c].version
    BY <1>5, <2>1 DEF Room
  <2>3. SavePending(c, settling, room, allSessions)
    BY <1>4, <1>6
  <2> HIDE DEF settling
  <2> QED
    BY <1>1, <1>3, <1>6, <2>1, <2>2, <2>3, SavePendingKeeps
<1>7. CASE hand.status = "playing"
  <2> DEFINE session == allSessions[s]
  <2>1. /\ session \in P!Session /\ session.status = "running"
        /\ allSessions = [sessions EXCEPT ![s] = session]
        /\ session.room = room.id /\ session.game = room.game
        /\ session.humans \subseteq P!Roster(room)
        /\ \/ /\ rooms[c].active = NoSession /\ ~Store!Exists(s)
              /\ session.sequence = P!NextSequence(room.id)
           \/ rooms[c].active = s /\ Shows(c, s) /\ session = sessions[s]
        /\ Shows(c, s) \/ (~Store!Exists(s) /\ ~Settling(c))
    BY CarriedSession
  <2>2. solvent \cap Members = session.humans
    OBVIOUS
  <2> HIDE DEF session
  <2>3. /\ P!IInv /\ rooms[c] # NoRoom /\ P!Open(c) /\ P!SoundRoom(room)
        /\ room.id = rooms[c].id /\ room.active = s
        /\ rooms[c].active = NoSession => P!Idle(c)
        /\ sessions[s] = NoSession <=> ~P!Exists(s)
        /\ room # NoRoom /\ s # NoSession /\ session # NoSession
    BY <2>1, StoreAssumptions, P!SoundRoomIsARoom
       DEF Carries, PokerInv, P!Open, P!Idle, P!Exists
  <2>4. sessions' = [sessions EXCEPT ![s] = session] /\ rooms' = [rooms EXCEPT ![c] = room]
        /\ UNCHANGED saved
    BY <1>4, <1>7, <2>1
  <2>5. /\ poker' = [d \in Codes |-> poker'[d]] /\ poker'[c] = next
        /\ \A d \in Codes : d # c => poker'[d] = poker[d]
        /\ rooms'[c] = room /\ \A d \in Codes : d # c => rooms'[d] = rooms[d]
        /\ sessions'[s] = session /\ \A t \in SessionIds : t # s => sessions'[t] = sessions[t]
    BY <1>4, <1>7, <2>4 DEF PokerInv, Typed, P!IInv, P!SessionsTyped, P!RoomsAreSound
  <2>6. P!IInv'
    <3>1. \/ P!Idle(c) /\ ~P!Exists(s) /\ session.sequence = P!NextSequence(room.id)
          \/ rooms[c].active = s /\ session.sequence = sessions[s].sequence
      BY <2>1, <2>3
    <3> QED
      BY <2>1, <2>3, <2>4, <3>1, StoreAssumptions, P!RoomAndSessionKeepInvariant
  <2>7. Fits(c)'
    BY <1>1, <1>5, <1>7, <2>1, <2>2, <2>3, <2>5
       DEF Fits, Settles, HasSession, Store!Roster, P!Roster
  <2>8. HandRecorded(s)'
    BY <2>1, <2>4, <2>5 DEF HandRecorded, Store!Ended
  <2>9. Elsewhere(c, s)
    BY <1>3, <2>4, <2>5 DEF Elsewhere
  <2>10. /\ poker'[c] \in Room /\ poker'[c].session = s /\ poker'[c].version > poker[c].version
         /\ saved' \in [SessionIds -> (SUBSET Players) \cup {NoRecord}]
    BY <1>5, <2>4, <2>5 DEF PokerInv, Typed
  <2> QED
    BY <1>3, <2>1, <2>3, <2>5, <2>6, <2>7, <2>8, <2>9, <2>10, HandStep
<1> QED
  BY <1>1, <1>6, <1>7

-----------------------------------------------------------------------------
(* Requests and the ticker: steps that leave the hands alone *)

\* One room with the same people in the same seats.
SameRoom(old, new) ==
  /\ P!SoundRoom(new) /\ new.id = old.id /\ new.game = old.game /\ new.active = old.active
  /\ P!Roster(new) = P!Roster(old)
  /\ \A m \in P!Roster(old) : new.members[m].seat = old.members[m].seat

LEMMA OpenRoomIsSound ==
  ASSUME PokerInv, NEW c \in Codes, Open(c)
  PROVE  /\ P!SoundRoom(rooms[c]) /\ P!RoomsAreSound /\ Served(c)
         /\ rooms[c].game = Holdem /\ rooms[c].id \in RoomIds
         /\ P!Roster(rooms[c]) \subseteq Members
         /\ rooms[c].host \in P!Roster(rooms[c])
BY DEF PokerInv, P!IInv, P!RoomsAreSound, Open, Store!Open, P!Open, Fits, HasSession,
       P!SoundRoom, P!RoomOf, P!SoundRoster, P!Roster, P!Hosted

LEMMA OnlineIsSameRoom ==
  ASSUME PokerInv, NEW c \in Codes, NEW m \in Members, IsMember(c, m)
  PROVE  SameRoom(rooms[c], Online(rooms[c], m))
<1>1. P!SoundRoom(rooms[c]) /\ m \in P!Roster(rooms[c]) /\ "online" \in P!Connections
  BY OpenRoomIsSound DEF IsMember, Store!Roster, P!Roster, P!Connections
<1> QED
  BY <1>1, StoreAssumptions, P!ConnectKeepsSound DEF Online, SameRoom

LEMMA MarkedIsSameRoom ==
  ASSUME PokerInv, NEW c \in Codes, Open(c)
  PROVE  SameRoom(rooms[c], Marked(c))
<1> DEFINE room == rooms[c]
           people == P!Roster(room)
           mark(m) == [room.members[m] EXCEPT !.conn =
                         IF @ = "online" /\ poker[c].seen[m] # "fresh" THEN "offline" ELSE @]
           marked == [m \in people |-> mark(m)]
           new == [room EXCEPT !.members = marked]
<1>1. /\ P!SoundRoom(room) /\ people \subseteq Members
      /\ room.members \in [people -> P!Member]
  BY OpenRoomIsSound DEF P!SoundRoom, P!SoundRoster, P!Roster
<1>2. Marked(c) = new
  BY DEF Marked, Store!Roster, P!Roster
<1>3. ASSUME NEW m \in people
      PROVE  /\ marked[m] \in P!Member /\ marked[m].seat = room.members[m].seat
             /\ marked[m].role = room.members[m].role
             /\ marked[m].elders = room.members[m].elders
  BY <1>1 DEF P!Member, P!Connections
<1>4. marked \in [people -> P!Member] /\ DOMAIN marked = people
  BY <1>3
<1> HIDE DEF marked
<1>5. /\ new \in P!RoomOf(people) /\ new.members = marked /\ P!Roster(new) = people
      /\ new.id = room.id /\ new.game = room.game /\ new.active = room.active
      /\ new.host = room.host /\ new.status = room.status
  BY <1>1, <1>4 DEF P!SoundRoom, P!RoomOf, P!Roster
<1> HIDE DEF new
<1>6. P!SoundRoster(marked)
  BY <1>1, <1>3, <1>4 DEF P!SoundRoom, P!SoundRoster, P!JoinOrder, P!Roster
<1>7. P!Hosted(new)
  BY <1>1, <1>3, <1>5 DEF P!SoundRoom, P!Hosted, P!Roster
<1>8. P!SoundRoom(new)
  BY <1>1, <1>5, <1>6, <1>7 DEF P!SoundRoom
<1> QED
  BY <1>2, <1>3, <1>5, <1>8 DEF SameRoom

LEMMA SameRoomStep ==
  ASSUME PokerInv, NEW c \in Codes, Open(c), NEW room, SameRoom(rooms[c], room),
         rooms' = [rooms EXCEPT ![c] = room], UNCHANGED sessions
  PROVE  P!RoomStep
<1>1. P!RoomsAreSound /\ rooms'[c] = room
  BY DEF PokerInv, P!IInv, P!RoomsAreSound
<1>2. P!Evolves(c)
  BY <1>1 DEF SameRoom, P!Evolves, P!Idle, P!Open, Open, Store!Open
<1> QED
  BY <1>1, <1>2, StoreAssumptions, P!OneRoomStep

LEMMA SameRooms ==
  ASSUME PokerInv, UNCHANGED <<rooms, sessions>>
  PROVE  P!RoomStep
BY DEF PokerInv, P!IInv, P!RoomsAreSound, P!RoomStep, P!Evolves

LEMMA NobodyLooks ==
  ASSUME PokerInv, UNCHANGED view
  PROVE  Glimpses
BY DEF PokerInv, Typed, Glimpses

\* The service changes one of its rooms quietly.
LEMMA QuietChange ==
  ASSUME PokerInv, P!RoomStep, UNCHANGED <<saved, turn>>, Glimpses,
         NEW c \in Codes, NEW r, poker' = [poker EXCEPT ![c] = r],
         poker'[c] = r => Quiet(c)
  PROVE  PokerInv'
<1>1. poker' = [d \in Codes |-> poker'[d]] /\ poker'[c] = r
      /\ \A d \in Codes : d # c => poker'[d] = poker[d]
  BY DEF PokerInv, Typed
<1>2. \A d \in Codes : Quiet(d)
  BY <1>1 DEF Quiet
<1> QED
  BY <1>1, <1>2, QuietStep

LEMMA SeenFits ==
  ASSUME NEW r \in Room, NEW m \in Members
  PROVE  /\ Seen(r, m) \in Room /\ Seen(r, m).table = r.table /\ Seen(r, m).session = r.session
         /\ Seen(r, m).pending = r.pending /\ Seen(r, m).version = r.version
         /\ Seen(r, m).target = r.target /\ Seen(r, m).clock = r.clock
BY DEF Seen, Room, Ages

\* What every request does first: the member is seen, and online.
LEMMA RequestMarks ==
  ASSUME PokerInv, NEW c \in Codes, NEW m \in Members, Request(c, m)
  PROVE  /\ Served(c) /\ Open(c) /\ poker[c] \in Room /\ AtTable(c, m) \in Room
         /\ AtTable(c, m).table = poker[c].table /\ AtTable(c, m).session = poker[c].session
         /\ AtTable(c, m).pending = poker[c].pending
         /\ AtTable(c, m).version = poker[c].version /\ poker[c].version \in Nat
         /\ AtTable(c, m).target = poker[c].target /\ AtTable(c, m).clock = poker[c].clock
         /\ SameRoom(rooms[c], InRoom(c, m))
         /\ rooms' = [rooms EXCEPT ![c] = InRoom(c, m)] /\ UNCHANGED sessions => P!RoomStep
<1>1. Served(c) /\ Open(c) /\ IsMember(c, m)
  BY DEF Request, IsMember
<1>2. poker[c] \in Room /\ poker[c].version \in Nat
  BY <1>1, ServedRoom
<1>3. SameRoom(rooms[c], InRoom(c, m))
  BY <1>1, OnlineIsSameRoom DEF InRoom
<1> QED
  BY <1>1, <1>2, <1>3, SeenFits, SameRoomStep DEF AtTable

LEMMA PollKeeps ==
  ASSUME PokerInv, NEW c \in Codes, NEW m \in Members, Poll(c, m)
  PROVE  PokerInv'
<1>1. Request(c, m) /\ UNCHANGED <<sessions, saved, turn>>
      /\ poker' = [poker EXCEPT ![c] = AtTable(c, m)]
      /\ rooms' = [rooms EXCEPT ![c] = InRoom(c, m)]
  BY DEF Poll
<1>2. Glimpses
  <2>1. [version |-> poker[c].version, session |-> poker[c].session, turn |-> turn[c]] \in View
    BY <1>1, RequestMarks DEF Room, View, PokerInv, Typed
  <2> QED
    BY <1>1, <2>1, RequestMarks DEF Poll, Glimpses, PokerInv, Typed
<1>3. poker'[c] = AtTable(c, m) => Quiet(c)
  BY <1>1, RequestMarks DEF Quiet, Seated, InPlay, Settling
<1> QED
  BY <1>1, <1>2, <1>3, RequestMarks, QuietChange

LEMMA ConfigureKeeps ==
  ASSUME PokerInv, NEW c \in Codes, NEW m \in Members, NEW target \in 2 .. MaxPlayers,
         Configure(c, m, target)
  PROVE  PokerInv'
<1> DEFINE r == [AtTable(c, m) EXCEPT !.target = target]
<1>1. Request(c, m) /\ UNCHANGED <<sessions, saved, view, turn>> /\ ~Seated(c)
      /\ poker' = [poker EXCEPT ![c] = Bumped(r)]
      /\ rooms' = [rooms EXCEPT ![c] = InRoom(c, m)]
  BY DEF Configure
<1>2. /\ r \in Room /\ r.table = poker[c].table /\ r.session = poker[c].session
      /\ r.pending = poker[c].pending /\ r.version = poker[c].version
  BY <1>1, RequestMarks DEF Room
<1> HIDE DEF r
<1>3. ~InPlay(c) /\ ~Settling(c)
  BY <1>1 DEF PokerInv, Fits, Settles, InPlay, HandDone
<1>4. poker'[c] = Bumped(r) => Quiet(c)
  BY <1>1, <1>2, <1>3, BumpedFits, RequestMarks DEF Quiet, Settling
<1> QED
  BY <1>1, <1>4, RequestMarks, NobodyLooks, QuietChange

LEMMA LobbyKeeps ==
  ASSUME PokerInv, NEW c \in Codes, NEW m \in Members, Lobby(c, m)
  PROVE  PokerInv'
<1> DEFINE r == [AtTable(c, m) EXCEPT !.table = NoTable, !.session = NoSession]
<1>1. Request(c, m) /\ UNCHANGED <<sessions, saved, view, turn>>
      /\ ~InPlay(c) /\ ~Settling(c)
      /\ poker' = [poker EXCEPT ![c] = Bumped(r)]
      /\ rooms' = [rooms EXCEPT ![c] = InRoom(c, m)]
  BY DEF Lobby
<1>2. /\ r \in Room /\ r.table = NoTable /\ r.session = NoSession
      /\ r.pending = poker[c].pending /\ r.version = poker[c].version
  BY <1>1, RequestMarks DEF Room
<1> HIDE DEF r
<1>3. poker'[c] = Bumped(r) => Quiet(c)
  BY <1>1, <1>2, BumpedFits, RequestMarks DEF Quiet, Settling
<1> QED
  BY <1>1, <1>3, RequestMarks, NobodyLooks, QuietChange

LEMMA LeaveKeeps ==
  ASSUME PokerInv, NEW c \in Codes, NEW m \in Members, Leave(c, m)
  PROVE  PokerInv'
<1> DEFINE r == [poker[c] EXCEPT !.seen[m] = "gone", !.table = NoTable, !.session = NoSession]
           room == InRoom(c, m)
           new == Store!Release(room, {m})
<1>1. Request(c, m) /\ UNCHANGED <<sessions, saved, view, turn>>
      /\ ~InPlay(c) /\ ~Settling(c) /\ rooms[c].active = NoSession
      /\ poker' = [poker EXCEPT ![c] = Bumped(r)]
      /\ rooms' = [rooms EXCEPT ![c] = new]
  BY DEF Leave
<1>2. new = P!Release(room, {m})
  BY SameHelpers
<1> HIDE DEF new
<1>3. /\ Open(c) /\ P!SoundRoom(room) /\ room.id = rooms[c].id /\ room.active = NoSession
      /\ P!RoomsAreSound
      /\ Served(c) /\ poker[c] \in Room /\ poker[c].version \in Nat
  BY <1>1, RequestMarks, OpenRoomIsSound DEF SameRoom
<1> HIDE DEF room
<1>4. /\ r \in Room /\ r.table = NoTable /\ r.session = NoSession
      /\ r.pending = poker[c].pending /\ r.version = poker[c].version
  <2> DEFINE seen == [poker[c].seen EXCEPT ![m] = "gone"]
  <2>1. seen \in [Members -> Ages]
    BY <1>3 DEF Room, Ages
  <2>2. r = [poker[c] EXCEPT !.seen = seen, !.table = NoTable, !.session = NoSession]
    BY <1>3 DEF Room
  <2> HIDE DEF seen, r
  <2> QED
    BY <1>3, <2>1, <2>2 DEF Room
<1> HIDE DEF r
<1>5. poker'[c] = Bumped(r) => Quiet(c)
  BY <1>1, <1>3, <1>4, BumpedFits DEF Quiet, Settling
<1>6. \/ new = NoRoom
      \/ P!SoundRoom(new) /\ new.id = rooms[c].id /\ new.active = NoSession
  BY <1>2, <1>3, StoreAssumptions, P!ReleaseKeepsSound
<1>7. P!Evolves(c)
  BY <1>1, <1>3, <1>6 DEF P!Evolves, P!Idle, P!Open, Open, Store!Open, P!RoomsAreSound
<1>8. P!RoomStep
  BY <1>1, <1>3, <1>7, StoreAssumptions, P!OneRoomStep
<1> QED
  BY <1>1, <1>5, <1>8, NobodyLooks, QuietChange

LEMMA JoinKeeps ==
  ASSUME PokerInv, NEW c \in Codes, NEW m \in Members, Join(c, m)
  PROVE  PokerInv'
<1> DEFINE r == Seen(poker[c], m)
<1>1. Served(c) /\ Open(c) /\ UNCHANGED <<saved, view, turn>>
      /\ poker' = [poker EXCEPT ![c] = Bumped(r)]
  BY DEF Join
<1>2. P!RoomStep
  <2>1. CASE Store!Rejoin(c, m)
    <3>1. P!Rejoin(c, m)
      BY <2>1, SameOperations
    <3>2. /\ P!Open(c) /\ m \in P!Roster(rooms[c]) /\ "online" \in P!Connections
          /\ rooms' = [rooms EXCEPT ![c].members[m].conn = "online"] /\ UNCHANGED sessions
      BY <3>1 DEF P!Rejoin, P!Connections
    <3> QED
      BY <3>2, StoreAssumptions, P!ConnectionStep DEF PokerInv
  <2>2. CASE Store!Enter(c, m)
    BY <2>2, SameOperations, StoreAssumptions, P!EnterStep DEF PokerInv
  <2> QED
    BY <2>1, <2>2 DEF Join
<1>3. /\ r \in Room /\ r.table = poker[c].table /\ r.session = poker[c].session
      /\ r.pending = poker[c].pending /\ r.version = poker[c].version /\ poker[c].version \in Nat
  BY <1>1, ServedRoom, SeenFits
<1> HIDE DEF r
<1>4. poker'[c] = Bumped(r) => Quiet(c)
  BY <1>1, <1>3, BumpedFits DEF Quiet, Seated, InPlay, Settling
<1> QED
  BY <1>1, <1>2, <1>4, NobodyLooks, QuietChange

LEMMA CreateKeeps ==
  ASSUME PokerInv, NEW c \in Codes, NEW m \in Members, NEW id \in RoomIds,
         NEW target \in 2 .. MaxPlayers, Create(c, m, id, target)
  PROVE  PokerInv'
<1> USE DEF Served, Seated, InPlay, HandDone, Settling, Store!Exists
<1> DEFINE new == [target |-> target, table |-> NoTable, version |-> 1, session |-> NoSession,
                   clock |-> "open",
                   seen |-> [x \in Members |-> IF x = m THEN "fresh" ELSE "gone"],
                   pending |-> NoRecord, retry |-> "none"]
<1>1. /\ P!CreateRoom(c, m, Holdem, id) /\ UNCHANGED <<saved, view, turn>>
      /\ poker' = [poker EXCEPT ![c] = new]
  BY SameOperations DEF Create
<1>2. new \in Room /\ new # NoTable
  <2>1. new \in Room
    BY DEF Room, Ages, Clocks
  <2> HIDE DEF new
  <2> QED
    BY <2>1, NoTableIsNoRoom
<1>3. /\ new.session = NoSession /\ new.table = NoTable /\ new.pending = NoRecord
  OBVIOUS
<1> HIDE DEF new
<1>4. P!IInv'
  BY <1>1, StoreAssumptions, P!CreateRoomKeepsInvariant DEF PokerInv
<1>5. /\ rooms[c] = NoRoom /\ UNCHANGED sessions
      /\ rooms'[c].active = NoSession /\ \A d \in Codes : d # c => rooms'[d] = rooms[d]
      /\ poker' = [d \in Codes |-> poker'[d]] /\ poker'[c] = new
      /\ \A d \in Codes : d # c => poker'[d] = poker[d]
  BY <1>1 DEF P!CreateRoom, P!Open, PokerInv, Typed, P!IInv, P!RoomsAreSound
<1>6. \A d \in Codes : d # c => Fits(d)'
  BY <1>1, <1>5 DEF PokerInv, Fits, Settles, HasSession, Open, Store!Open
<1>7. Fits(c)'
  BY <1>2, <1>3, <1>5 DEF Fits, Settles, HasSession
<1>8. Typed'
  <2>1. \A d \in Codes : poker'[d] \in Room \cup {NoTable}
    BY <1>2, <1>5 DEF PokerInv, Typed
  <2> QED
    BY <1>1, <1>5, <2>1 DEF PokerInv, Typed
<1>9. \A d \in Codes : \A s : s # NoSession /\ Shows(d, s)' => d # c /\ Shows(d, s)
  BY <1>3, <1>5 DEF Shows
<1>10. SessionsAreDistinct'
  <2>1. \A s \in SessionIds : s # NoSession
    BY StoreAssumptions
  <2> QED
    BY <1>9, <2>1 DEF PokerInv, SessionsAreDistinct
<1>11. ViewsAreDated'
  <2> SUFFICES ASSUME NEW k \in Members, view[k] # NoView
               PROVE  /\ view[k].session = NoSession \/ sessions[view[k].session] # NoSession
                      /\ \A d \in Codes : Shows(d, view[k].session)'
                                          /\ view[k].session # NoSession =>
                           /\ view[k].version <= poker'[d].version
                           /\ view[k].version = poker'[d].version => view[k].turn = turn[d]
    BY <1>1, <1>5 DEF ViewsAreDated, Shows
  <2>1. ASSUME NEW d \in Codes, Shows(d, view[k].session)', view[k].session # NoSession
        PROVE  d # c /\ Shows(d, view[k].session)
    BY <1>3, <1>5, <2>1, <1>1 DEF Shows
  <2> QED
    BY <1>5, <2>1 DEF PokerInv, ViewsAreDated
<1>12. \A s \in SessionIds : HandRecorded(s)'
  <2>1. ASSUME NEW s \in SessionIds, NEW d \in Codes, Settling(d), Shows(d, s)
        PROVE  Settling(d)' /\ Shows(d, s)'
    <3>1. rooms[d] # NoRoom
      BY <2>1 DEF PokerInv, Fits, Settles, Open, Store!Open
    <3> QED
      BY <1>5, <2>1, <3>1 DEF Shows
  <2> QED
    BY <1>1, <1>5, <2>1 DEF PokerInv, HandRecorded, Store!Ended
<1> QED
  BY <1>4, <1>6, <1>7, <1>8, <1>10, <1>11, <1>12 DEF PokerInv

LEMMA ForgetKeeps ==
  ASSUME PokerInv, NEW c \in Codes, Forget(c)
  PROVE  PokerInv'
<1>1. /\ UNCHANGED <<rooms, sessions, saved, view, turn>> /\ ~Open(c)
      /\ poker' = [poker EXCEPT ![c] = NoTable]
  BY DEF Forget
<1> QED
  BY <1>1, SameRooms, NobodyLooks, QuietChange DEF Quiet

LEMMA ClocksKeep ==
  ASSUME PokerInv, NEW c \in Codes,
         TurnClock(c) \/ RetryClock(c) \/ \E m \in Members : SeenClock(c, m)
  PROVE  PokerInv'
<1> DEFINE r == poker'[c]
<1>1. Served(c) /\ UNCHANGED <<rooms, sessions, saved, view, turn>>
  BY DEF TurnClock, RetryClock, SeenClock, InPlay, Seated, Settling
<1>2. /\ poker[c] \in Room /\ poker[c].version \in Nat /\ poker \in [Codes -> Room \cup {NoTable}]
  BY <1>1, ServedRoom DEF PokerInv, Typed
<1>3. /\ poker' = [poker EXCEPT ![c] = r] /\ r \in Room /\ r.table = poker[c].table
      /\ r.session = poker[c].session /\ r.pending = poker[c].pending
      /\ r.version = poker[c].version
  <2>1. CASE TurnClock(c)
    BY <1>2, <2>1 DEF TurnClock, Room, Clocks
  <2>2. CASE RetryClock(c)
    BY <1>2, <2>2 DEF RetryClock, Room
  <2>3. ASSUME NEW m \in Members, SeenClock(c, m)
        PROVE  /\ poker' = [poker EXCEPT ![c] = r] /\ r \in Room /\ r.table = poker[c].table
               /\ r.session = poker[c].session /\ r.pending = poker[c].pending
               /\ r.version = poker[c].version
    BY <1>2, <2>3 DEF SeenClock, Room, Ages
  <2> QED
    BY <2>1, <2>2, <2>3
<1> HIDE DEF r
<1>4. poker'[c] = r => Quiet(c)
  BY <1>1, <1>2, <1>3 DEF Quiet, Seated, InPlay, Settling
<1> QED
  BY <1>1, <1>3, <1>4, SameRooms, NobodyLooks, QuietChange

\* Steps that concern the store alone.
LEMMA StoreOnly ==
  ASSUME PokerInv, P!RoomStep, UNCHANGED <<poker, saved, view, turn>>
  PROVE  PokerInv'
BY NobodyLooks, QuietStep DEF PokerInv, Typed, Quiet

LEMMA StoreClockKeeps ==
  ASSUME PokerInv, NEW c \in Codes, NEW m \in Members, StoreClock(c, m)
  PROVE  PokerInv'
<1>1. P!GraceElapses(c, m)
  BY SameOperations DEF StoreClock
<1>2. P!RoomStep
  <2>1. /\ P!Open(c) /\ m \in P!Roster(rooms[c]) /\ "expired" \in P!Connections
        /\ rooms' = [rooms EXCEPT ![c].members[m].conn = "expired"] /\ UNCHANGED sessions
    BY <1>1 DEF P!GraceElapses, P!Connections
  <2> QED
    BY <2>1, StoreAssumptions, P!ConnectionStep DEF PokerInv
<1> QED
  BY <1>2, StoreOnly DEF StoreClock

LEMMA ListLobbyKeeps ==
  ASSUME PokerInv, ListLobby
  PROVE  PokerInv'
<1>1. P!ExpireOfflineMembers
  BY SameOperations DEF ListLobby
<1> QED
  BY <1>1, StoreAssumptions, P!ExpireStep, StoreOnly DEF ListLobby, PokerInv

LEMMA MarkOfflineKeeps ==
  ASSUME PokerInv, NEW c \in Codes, MarkOffline(c)
  PROVE  PokerInv'
<1>1. P!RoomStep
  BY MarkedIsSameRoom, SameRoomStep DEF MarkOffline, Serviced
<1> QED
  BY <1>1, StoreOnly DEF MarkOffline

LEMMA ReclaimKeeps ==
  ASSUME PokerInv, NEW c \in Codes, Reclaim(c)
  PROVE  PokerInv'
<1> DEFINE room == Marked(c)
           new == IF rooms[c].active = NoSession THEN Store!Release(room, Gone(c)) ELSE room
           r == poker'[c]
<1>1. /\ Served(c) /\ Open(c) /\ ~Settling(c) /\ ~InPlay(c)
      /\ rooms' = [rooms EXCEPT ![c] = new]
      /\ UNCHANGED <<sessions, saved, view, turn>>
  BY DEF Reclaim, Serviced
<1>2. SameRoom(rooms[c], room) /\ P!RoomsAreSound /\ rooms[c].active = NoSession
  BY <1>1, MarkedIsSameRoom, OpenRoomIsSound DEF PokerInv, Fits, HasSession
<1>3. new = P!Release(room, Gone(c))
  BY <1>2, SameHelpers
<1> HIDE DEF room, new
<1>4. \/ new = NoRoom
      \/ P!SoundRoom(new) /\ new.id = rooms[c].id /\ new.active = NoSession
  BY <1>2, <1>3, StoreAssumptions, P!ReleaseKeepsSound DEF SameRoom
<1>5. P!Evolves(c)
  BY <1>1, <1>2, <1>4 DEF P!Evolves, P!Idle, P!Open, Open, Store!Open, P!RoomsAreSound
<1>6. P!RoomStep
  BY <1>1, <1>2, <1>5, StoreAssumptions, P!OneRoomStep
<1>7. Cardinality(Gone(c)) \in Nat
  BY <1>1, OpenRoomIsSound, FiniteSupplies, FS_Subset, FS_CardinalityType
     DEF Gone, Store!Roster, P!Roster
<1>8. /\ poker[c] \in Room /\ poker[c].version \in Nat
      /\ poker \in [Codes -> Room \cup {NoTable}]
  BY <1>1, ServedRoom DEF PokerInv, Typed
<1>9. /\ poker' = [poker EXCEPT ![c] = r] /\ r \in Room /\ r.table = NoTable
      /\ r.session = poker[c].session /\ r.pending = poker[c].pending
      /\ r.version = poker[c].version + Cardinality(Gone(c))
  <2> DEFINE n == Cardinality(Gone(c))
             cleared == [poker[c] EXCEPT !.table = NoTable]
             given == [cleared EXCEPT !.version = @ + n]
  <2>1. poker' = [poker EXCEPT ![c].table = NoTable, ![c].version = @ + n]
    BY DEF Reclaim
  <2> HIDE DEF n
  <2>2. poker' = [poker EXCEPT ![c] = given]
    BY <1>8, <2>1
  <2>3. r = given
    BY <1>8, <2>2
  <2>4. /\ given \in Room /\ given.table = NoTable
        /\ given.session = poker[c].session /\ given.pending = poker[c].pending
        /\ given.version = poker[c].version + n
    <3>1. n \in Nat
      BY <1>7 DEF n
    <3>2. /\ cleared \in Room /\ cleared.table = NoTable
          /\ cleared.session = poker[c].session /\ cleared.pending = poker[c].pending
          /\ cleared.version = poker[c].version
      BY <1>8 DEF Room
    <3> HIDE DEF cleared
    <3> QED
      BY <1>8, <3>1, <3>2 DEF Room
  <2> HIDE DEF given, r
  <2> QED
    BY <2>2, <2>3, <2>4 DEF n
<1> HIDE DEF r
<1>10. poker'[c] = r => Quiet(c)
  BY <1>1, <1>7, <1>8, <1>9 DEF Quiet, Settling
<1> QED
  BY <1>1, <1>6, <1>9, <1>10, NobodyLooks, QuietChange

-----------------------------------------------------------------------------
(* Requests and the ticker: steps of a hand *)

\* The hand that a room plays: its session is running, and nothing of it is on
\* record.
LEMMA HandInPlay ==
  ASSUME PokerInv, NEW c \in Codes, InPlay(c), NEW room, SameRoom(rooms[c], room)
  PROVE  LET s == poker[c].session
         IN  /\ Served(c) /\ Open(c) /\ s \in SessionIds /\ Carries(c, s, room, sessions)
             /\ saved[s] = NoRecord /\ poker[c].pending = NoRecord
             /\ poker[c].table.solvent \in SUBSET Players
             /\ poker[c].table.solvent \cap Members = sessions[s].humans
<1> DEFINE s == poker[c].session
<1>1. /\ Served(c) /\ Open(c) /\ rooms[c].active = s /\ rooms[c].active # NoSession
      /\ poker[c].table.solvent \cap Members = sessions[s].humans
      /\ poker[c].table.solvent \cap Members \subseteq Store!Roster(rooms[c])
      /\ ~Settling(c)
  BY DEF PokerInv, Fits, HasSession, Settles, InPlay, HandDone, Seated
<1>2. /\ s \in SessionIds /\ poker[c] \in Room /\ poker[c].table \in Hands
  BY <1>1, ServedRoom DEF InPlay, Seated
<1>3. /\ sessions[s] \in P!Session /\ sessions[s].status = "running"
      /\ sessions[s].room = rooms[c].id /\ sessions = [sessions EXCEPT ![s] = sessions[s]]
  BY <1>1, <1>2 DEF PokerInv, P!IInv, P!SessionsTyped, P!SessionsBelongToRooms, P!Open, P!Idle,
     P!Exists, Open, Store!Open
<1>4. Carries(c, s, room, sessions)
  BY <1>1, <1>3 DEF Carries, SameRoom, Shows, Store!Roster, P!Roster
<1>5. saved[s] = NoRecord
  <2>1. ~Store!Ended(s)
    BY <1>3 DEF Store!Ended
  <2>2. \A d \in Codes : Shows(d, s) => d = c
    BY <1>1, <1>2 DEF PokerInv, SessionsAreDistinct, Shows
  <2> QED
    BY <1>1, <1>2, <2>1, <2>2 DEF PokerInv, HandRecorded
<1> QED
  BY <1>1, <1>2, <1>4, <1>5 DEF Hands, Settling

LEMMA ActionKeeps ==
  ASSUME PokerInv, NEW c \in Codes, NEW m \in Members, Action(c, m)
  PROVE  PokerInv'
<1> DEFINE r == AtTable(c, m)
           s == poker[c].session
           room == InRoom(c, m)
<1>1. Request(c, m) /\ InPlay(c) /\ UNCHANGED view
  BY DEF Action
<1>2. /\ r \in Room /\ r.session = s /\ r.table = poker[c].table /\ r.version = poker[c].version
      /\ r.pending = poker[c].pending /\ SameRoom(rooms[c], room) /\ Served(c)
  BY <1>1, RequestMarks
<1> HIDE DEF r, room
<1>3. /\ s \in SessionIds /\ Carries(c, s, room, sessions)
      /\ saved[s] = NoRecord /\ r.pending = NoRecord
      /\ r.table.solvent \in SUBSET Players
      /\ r.table.solvent \cap Members = sessions[s].humans
  BY <1>1, <1>2, HandInPlay
<1>4. PICK hand \in Outcomes(c, r.table.solvent) : GoesOn(c, r, hand, "early", room, sessions)
  BY DEF Action, r, room
<1> HIDE DEF s
<1> QED
  BY <1>1, <1>2, <1>3, <1>4, GoesOnKeeps DEF Clocks

LEMMA AutoMoveKeeps ==
  ASSUME PokerInv, NEW c \in Codes, AutoMove(c)
  PROVE  PokerInv'
<1> DEFINE r == poker[c]
           s == poker[c].session
           room == Marked(c)
<1>1. Served(c) /\ Open(c) /\ InPlay(c) /\ UNCHANGED view
  BY DEF AutoMove, Serviced
<1>2. r \in Room /\ SameRoom(rooms[c], room)
  BY <1>1, ServedRoom, MarkedIsSameRoom
<1> HIDE DEF room
<1>3. /\ s \in SessionIds /\ Carries(c, s, room, sessions)
      /\ saved[s] = NoRecord /\ r.pending = NoRecord
      /\ r.table.solvent \in SUBSET Players
      /\ r.table.solvent \cap Members = sessions[s].humans
  BY <1>1, <1>2, HandInPlay
<1>4. PICK hand \in Outcomes(c, r.table.solvent) : GoesOn(c, r, hand, "early", room, sessions)
  BY DEF AutoMove, room
<1> QED
  BY <1>1, <1>2, <1>3, <1>4, GoesOnKeeps DEF Clocks

LEMMA RetryKeeps ==
  ASSUME PokerInv, NEW c \in Codes, Retry(c)
  PROVE  PokerInv'
<1> DEFINE r == poker[c]
           s == poker[c].session
           hand == poker[c].table
<1>1. Served(c) /\ Open(c) /\ Settling(c) /\ UNCHANGED <<view, turn>>
      /\ SavePending(c, r, rooms[c], sessions)
  BY DEF Retry
<1>2. /\ rooms[c].active = s /\ rooms[c].active # NoSession /\ hand.status = "done"
      /\ r.pending = [session |-> s, result |-> hand.solvent]
      /\ saved[s] \in {NoRecord, hand.solvent} /\ hand # NoTable
  BY <1>1 DEF PokerInv, Fits, Settles, HasSession, HandDone, Seated
<1>3. s \in SessionIds /\ r \in Room /\ hand \in Hands
  BY <1>1, <1>2, ServedRoom
<1>4. P!SoundRoom(rooms[c])
  BY <1>1, OpenRoomIsSound
<1>5. /\ sessions[s] \in P!Session /\ sessions[s].status = "running"
      /\ sessions[s].room = rooms[c].id /\ sessions = [sessions EXCEPT ![s] = sessions[s]]
      /\ sessions[s].humans \subseteq P!Roster(rooms[c])
  BY <1>1, <1>2, <1>3 DEF PokerInv, P!IInv, P!SessionsTyped, P!SessionsBelongToRooms,
     P!HumansStaySeated, P!Open, P!Idle, P!Exists, Open, Store!Open
<1>6. Carries(c, s, rooms[c], sessions)
  BY <1>1, <1>2, <1>4, <1>5 DEF Carries, Shows
<1>7. turn' \in [Codes -> Nat] /\ UNCHANGED turn
  BY <1>1 DEF PokerInv, Typed
<1> HIDE DEF s, hand, r
<1> QED
  BY <1>1, <1>2, <1>3, <1>6, <1>7, SavePendingKeeps DEF r, s, hand

\* A hand for those with chips, in a session that nobody knows yet.
LEMMA StartHandKeeps ==
  ASSUME PokerInv, NEW c \in Codes, NEW m \in Members, Request(c, m), ~Settling(c),
         NEW solvent \in SUBSET Players, UNCHANGED view,
         StartHand(c, AtTable(c, m), solvent, InRoom(c, m))
  PROVE  PokerInv'
<1> DEFINE old == AtTable(c, m)
           room == InRoom(c, m)
           opened(s) == [room EXCEPT !.active = s, !.status = "in_game"]
           session(s) == [room |-> room.id, game |-> Holdem,
                          sequence |-> Store!NextSequence(room.id), status |-> "running",
                          humans |-> solvent \cap Members, stateVersion |-> 0]
<1>1. /\ old \in Room /\ old.table = poker[c].table /\ old.version = poker[c].version
      /\ old.pending = NoRecord /\ SameRoom(rooms[c], room) /\ Served(c) /\ Open(c)
  BY RequestMarks DEF Settling
<1>2. /\ room.active = NoSession /\ solvent \cap Members \subseteq P!Roster(room)
      /\ P!SoundRoom(room) /\ room.id = rooms[c].id /\ rooms[c].active = NoSession
  BY <1>1 DEF StartHand, SameRoom, Store!Roster, P!Roster
<1>3. PICK s \in SessionIds, hand \in Outcomes(c, solvent) :
        /\ ~Store!Exists(s)
        /\ GoesOn(c, [old EXCEPT !.session = s], hand, "open", opened(s),
                  [sessions EXCEPT ![s] = session(s)])
  <2>1. NewSessionId \in SessionIds /\ ~Store!Exists(NewSessionId)
    BY DEF StartHand, NewSessionId
  <2>2. PICK hand \in Outcomes(c, solvent) :
          GoesOn(c, [old EXCEPT !.session = NewSessionId], hand, "open", opened(NewSessionId),
                 [sessions EXCEPT ![NewSessionId] = session(NewSessionId)])
    BY DEF StartHand
  <2> HIDE DEF old, opened, session
  <2> QED
    BY <2>1, <2>2
<1> HIDE DEF old, room
<1> DEFINE r == [old EXCEPT !.session = s]
           new == opened(s)
           begun == session(s)
           allSessions == [sessions EXCEPT ![s] = begun]
<1>4. /\ r \in Room /\ r.session = s /\ r.version = poker[c].version /\ r.pending = NoRecord
  BY <1>1 DEF Room
<1>5. /\ P!SoundRoom(new) /\ new.id = rooms[c].id /\ new.active = s /\ P!Roster(new) = P!Roster(room)
  <2>1. s # NoSession
    BY StoreAssumptions
  <2> QED
    BY <1>2, <2>1 DEF P!SoundRoom, P!RoomOf, P!Hosted, P!Roster
<1>6. /\ begun \in P!Session /\ begun.status = "running" /\ begun.room = rooms[c].id
      /\ begun.humans = solvent \cap Members
      /\ begun.sequence = Store!NextSequence(rooms[c].id)
  <2>1. rooms[c].id \in RoomIds
    BY <1>1, OpenRoomIsSound
  <2>2. Store!NextSequence(rooms[c].id) \in Nat
    BY <2>1, SameHelpers, StoreAssumptions, P!NextSequenceIsNew DEF PokerInv, P!IInv
  <2> QED
    BY <1>2, <2>1, <2>2 DEF P!Session
<1> HIDE DEF r, new, begun
<1>7. allSessions[s] = begun
  BY DEF PokerInv, P!IInv, P!SessionsTyped
<1>8. Carries(c, s, new, allSessions)
  BY <1>1, <1>2, <1>3, <1>5, <1>6 DEF Carries
<1>9. saved[s] = NoRecord
  <2>1. ~Store!Ended(s)
    BY <1>3 DEF Store!Ended
  <2>2. ASSUME NEW d \in Codes, Settling(d), Shows(d, s) PROVE FALSE
    <3>1. s # NoSession
      BY StoreAssumptions
    <3> QED
      BY <1>3, <2>2, <3>1 DEF PokerInv, Fits, Shows
  <2> QED
    BY <2>1, <2>2 DEF PokerInv, HandRecorded
<1>10. GoesOn(c, r, hand, "open", new, allSessions)
  BY <1>3 DEF r, new, begun
<1> HIDE DEF allSessions
<1> QED
  BY <1>1, <1>4, <1>6, <1>7, <1>8, <1>9, <1>10, GoesOnKeeps DEF Clocks

LEMMA StartTableKeeps ==
  ASSUME PokerInv, NEW c \in Codes, NEW m \in Members, StartTable(c, m)
  PROVE  PokerInv'
<1> DEFINE r == AtTable(c, m)
           people == Store!Roster(rooms[c])
           bots == 1 .. r.target - Cardinality(people)
<1>1. /\ Request(c, m) /\ ~Settling(c) /\ UNCHANGED view
      /\ StartHand(c, r, people \cup bots, InRoom(c, m))
  BY DEF StartTable
<1>2. /\ people \subseteq Members /\ people # {} /\ IsFiniteSet(people)
  BY <1>1, RequestMarks, OpenRoomIsSound, FiniteSupplies, FS_Subset DEF Store!Roster, P!Roster
<1>3. Cardinality(people) \in Nat /\ Cardinality(people) # 0
  BY <1>2, FS_CardinalityType, FS_EmptySet
<1>4. r.target \in 2 .. MaxPlayers
  BY <1>1, RequestMarks DEF Room
<1>5. bots \subseteq Bots
  <2> HIDE DEF r, people
  <2> QED
    BY <1>3, <1>4, BoundsAreNaturals DEF Bots
<1>6. people \cup bots \in SUBSET Players
  BY <1>2, <1>5 DEF Players
<1> HIDE DEF people, bots
<1> QED
  BY <1>1, <1>6, StartHandKeeps

LEMMA NextHandKeeps ==
  ASSUME PokerInv, NEW c \in Codes, NEW m \in Members, NextHand(c, m)
  PROVE  PokerInv'
<1>1. /\ Request(c, m) /\ ~Settling(c) /\ HandDone(c) /\ UNCHANGED view
      /\ StartHand(c, AtTable(c, m), AtTable(c, m).table.solvent, InRoom(c, m))
  BY DEF NextHand
<1>2. AtTable(c, m).table.solvent \in SUBSET Players
  BY <1>1, RequestMarks, ServedRoom DEF HandDone, Seated, Hands
<1> QED
  BY <1>1, <1>2, StartHandKeeps

-----------------------------------------------------------------------------
(* The invariant *)

LEMMA InitKeeps == Init => PokerInv
<1> SUFFICES ASSUME Init PROVE PokerInv
  OBVIOUS
<1>1. P!IInv
  <2>1. P!Init
    BY DEF Init, P!Init
  <2> QED
    BY <2>1, StoreAssumptions, P!InitInvariant
<1>2. /\ \A c \in Codes : rooms[c] = NoRoom /\ poker[c] = NoTable
      /\ \A s \in SessionIds : sessions[s] = NoSession /\ saved[s] = NoRecord
      /\ \A m \in Members : view[m] = NoView
  BY DEF Init
<1>3. Typed
  BY DEF Init, Typed
<1>4. \A c \in Codes : Fits(c) /\ ~Served(c)
  BY <1>2 DEF Fits, Settles, HasSession, Served, Seated, InPlay, Settling, Open, Store!Open
<1> QED
  BY <1>1, <1>2, <1>3, <1>4
     DEF PokerInv, SessionsAreDistinct, ViewsAreDated, HandRecorded, Shows, Store!Ended, Store!Exists

LEMMA NextKeeps == PokerInv /\ [Next]_vars => PokerInv'
<1> SUFFICES ASSUME PokerInv, [Next]_vars PROVE PokerInv'
  OBVIOUS
<1>1. CASE UNCHANGED vars
  BY <1>1, SameRooms, StoreOnly DEF vars
<1>2. CASE ListLobby
  BY <1>2, ListLobbyKeeps
<1>3. ASSUME NEW c \in Codes, Tick(c) PROVE PokerInv'
  BY <1>3, ForgetKeeps, RetryKeeps, AutoMoveKeeps, ReclaimKeeps, MarkOfflineKeeps DEF Tick
<1>4. ASSUME NEW c \in Codes, NEW m \in Members,
             \/ \E id \in RoomIds, target \in 2 .. MaxPlayers : Create(c, m, id, target)
             \/ \E target \in 2 .. MaxPlayers : Configure(c, m, target)
             \/ Join(c, m) \/ Poll(c, m) \/ StartTable(c, m) \/ NextHand(c, m)
             \/ Lobby(c, m) \/ Action(c, m) \/ Leave(c, m) \/ StoreClock(c, m)
      PROVE  PokerInv'
  BY <1>4, CreateKeeps, ConfigureKeeps, JoinKeeps, PollKeeps, StartTableKeeps, NextHandKeeps,
     LobbyKeeps, ActionKeeps, LeaveKeeps, StoreClockKeeps
<1>5. ASSUME NEW c \in Codes,
             TurnClock(c) \/ RetryClock(c) \/ \E m \in Members : SeenClock(c, m)
      PROVE  PokerInv'
  BY <1>5, ClocksKeep
<1> QED
  BY <1>1, <1>2, <1>3, <1>4, <1>5 DEF Next

\* The inductive invariant holds in every reachable state.
THEOREM PokerInvariance == Spec => []PokerInv
BY InitKeeps, NextKeeps, PTL DEF Spec

-----------------------------------------------------------------------------
(* Safety *)

\* A hand that is over and not yet recorded stays on the table, its session
\* open, until its own result is saved.
THEOREM SettlementStaysFaithful == Spec => []SettlementIsFaithful
<1>1. PokerInv => SettlementIsFaithful
  BY DEF PokerInv, Fits, Settles, SettlementIsFaithful
<1> QED
  BY <1>1, PokerInvariance, PTL

LEMMA InvariantMeansKept == PokerInv => HandsAreKept
<1> SUFFICES ASSUME PokerInv PROVE HandsAreKept
  OBVIOUS
<1>1. HandsHaveSessions
  BY DEF PokerInv, Fits, HasSession, HandsHaveSessions
<1>2. P!TypeOK
  <2>1. P!LedgerInv
    BY DEF P!LedgerInv, P!EventsAreIdempotent
  <2> QED
    BY <2>1, StoreAssumptions, P!InvariantsImplyTypes DEF PokerInv
<1>3. Store!TypeOK
  BY <1>2 DEF P!TypeOK, Store!TypeOK, P!Open, Store!Open, P!RoomOf, Store!RoomOf, P!Member,
     Store!Member, P!Connections, Store!Connections, P!Session, Store!Session, P!Event, Store!Event
<1>4. TypeOK
  BY <1>3 DEF TypeOK, PokerInv, Typed
<1> QED
  BY <1>1, <1>4 DEF HandsAreKept

\* The service and the store agree on what is played in every room, and those
\* who were dealt in keep their seats until the hand is settled.
THEOREM HandsStayKept == Spec => []HandsAreKept
BY PokerInvariance, InvariantMeansKept, PTL

\* No hand is lost, and none is recorded before it is over.
THEOREM EveryHandIsAlwaysRecorded == Spec => []EveryHandIsRecorded
<1>1. PokerInv => EveryHandIsRecorded
  BY DEF PokerInv, HandRecorded, Shows, EveryHandIsRecorded
<1> QED
  BY <1>1, PokerInvariance, PTL

\* An action plays the very turn that its sender saw.
THEOREM ActionsAlwaysMeetTheirTurn == Spec => ActionsMeetTheirTurn
<1>1. ASSUME PokerInv, NEW c \in Codes, NEW m \in Members, Action(c, m)
      PROVE  view[m].turn = turn[c]
  <2>1. /\ Request(c, m) /\ InPlay(c)
        /\ view[m] # NoView /\ view[m].version = AtTable(c, m).version
        /\ view[m].session = AtTable(c, m).session
    BY <1>1 DEF Action
  <2>2. /\ view[m].version = poker[c].version /\ Shows(c, view[m].session)
    BY <1>1, <2>1, RequestMarks DEF Shows
  <2>3. view[m].session # NoSession
    BY <1>1, <2>1, <2>2 DEF PokerInv, Fits, HasSession, InPlay, Seated, Shows
  <2> QED
    BY <1>1, <2>1, <2>2, <2>3 DEF PokerInv, ViewsAreDated
<1>2. PokerInv /\ [Next]_vars =>
        [\A c \in Codes, m \in Members : Action(c, m) => view[m].turn = turn[c]]_vars
  BY <1>1
<1> QED
  BY <1>2, PokerInvariance, PTL DEF Spec, ActionsMeetTheirTurn
=============================================================================
