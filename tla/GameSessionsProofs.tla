------------------------- MODULE GameSessionsProofs -------------------------
(***************************************************************************)
(* Proofs about GameSessions, for any numbers of people, matches and       *)
(* changes of the game.  The handlers use the store of rooms by its own    *)
(* operations, so that what is proved of the store (PartyStoreProofs)      *)
(* holds here too; and most steps of a handler neither begin a match, nor  *)
(* open a session, nor build a snapshot, so that one lemma settles what    *)
(* they keep (OrdinaryKeeps).                                              *)
(***************************************************************************)
EXTENDS GameSessions, FiniteSetTheorems, TLAPS

P == INSTANCE PartyStoreProofs WITH
  Codes <- {Code}, Actors <- {}, ActionIds <- {}, NoAction <- Nobody,
  MaxVersion <- MaxEdits, MaxEvents <- 0,
  events <- {}, actionIDs <- [s \in SessionIds |-> {}], nextEventID <- 0

-----------------------------------------------------------------------------
(* The inductive invariant *)

Typed ==
  /\ Life!TypeOK /\ match <= MaxMatches
  /\ joined \subseteq Members
  /\ handlers \in [Actors -> Handler]
  /\ edits \in Nat /\ told \in Nat
  /\ shown \in [SessionIds -> Nat] /\ serves \in [SessionIds -> Nat]

\* A handler that has started a match and may still open a session for it.
Starts(h) == h.at \in {"ensure", "open"}

\* A handler that builds a snapshot.
Builds(h) == h.at \in {"read", "commit"}

\* An unused id is left for every handler that may open a session and for every
\* match to come, and nobody knows of matches that have not begun.
IdsSuffice ==
  /\ Cardinality(UnusedIds) >= Cardinality(Starting) + (MaxMatches - match)
  /\ \A s \in SessionIds : serves[s] <= match
  /\ \A a \in Actors : Starts(handlers[a]) => handlers[a].match <= match

\* While a match is on, its people are those its handler or its session knows.
SeatsFit ==
  status = "playing" =>
    /\ \A a \in Actors : Starts(handlers[a]) /\ handlers[a].match = match =>
         handlers[a].people = people
    /\ \A s \in SessionIds : Running(s) /\ serves[s] = match => sessions[s].humans = people

\* A handler whose version is still the session's has read a state of the game
\* that is not older than what the session shows.
BuildFits(h) ==
  /\ h.session \in SessionIds /\ Store!Exists(h.session)
  /\ h.version <= sessions[h.session].stateVersion
  /\ h.at = "commit" =>
       /\ h.seen <= edits
       /\ h.version = sessions[h.session].stateVersion => shown[h.session] <= h.seen

SnapshotsFit ==
  /\ \A s \in SessionIds : shown[s] <= edits
  /\ \A a \in Actors : Builds(handlers[a]) => BuildFits(handlers[a])

SessionsInv == /\ P!IInv /\ P!LedgerInv
               /\ Typed /\ IdsSuffice /\ SeatsFit /\ SnapshotsFit

-----------------------------------------------------------------------------
(* The store as GameSessions uses it and the store that was proved correct *)

LEMMA StoreAssumptions ==
  /\ P!IsFiniteSet(Members) /\ P!IsFiniteSet(SessionIds)
  /\ Catalogue \in [Games -> P!GameEntry]
  /\ \A g \in Games : Catalogue[g].min <= Catalogue[g].max
  /\ MaxEdits \in Nat /\ 0 \in Nat
  /\ NoSession \notin SessionIds \cup P!Session
  /\ \A members \in SUBSET Members : NoRoom \notin P!RoomOf(members) /\ NoSession # members
<1>1. P!IsFiniteSet(Members) /\ P!IsFiniteSet(SessionIds)
  BY FiniteSupplies DEF P!IsFiniteSet, IsFiniteSet
<1>2. /\ Catalogue \in [Games -> P!GameEntry]
      /\ \A g \in Games : Catalogue[g].min <= Catalogue[g].max
  BY CatalogueIsValid DEF P!GameEntry, Store!GameEntry
<1>3. MaxEdits \in Nat
  BY BoundsAreNumbers
<1>4. NoSession \notin SessionIds \cup P!Session
  BY NullsAreDistinct DEF P!Session, Store!Session
<1>5. \A members \in SUBSET Members : NoRoom \notin P!RoomOf(members) /\ NoSession # members
  BY NullsAreDistinct
  DEF P!RoomOf, Store!RoomOf, P!Member, Store!Member, P!Connections, Store!Connections
<1> QED
  BY <1>1, <1>2, <1>3, <1>4, <1>5

LEMMA SameHelpers ==
  /\ \A members : Store!NextSeat(members) = P!NextSeat(members)
  /\ \A room, gone : Store!Release(room, gone) = P!Release(room, gone)
  /\ \A id : Store!NextSequence(id) = P!NextSequence(id)
<1>1. ASSUME NEW members PROVE Store!NextSeat(members) = P!NextSeat(members)
  BY DEF Store!NextSeat, P!NextSeat, Store!Min, P!Min, Store!Cardinality, P!Cardinality
<1>2. ASSUME NEW room, NEW gone PROVE Store!Release(room, gone) = P!Release(room, gone)
  BY DEF Store!Release, P!Release, Store!Roster, P!Roster, Store!PromoteHost, P!PromoteHost,
     Store!Successor, P!Successor
<1>3. ASSUME NEW id PROVE Store!NextSequence(id) = P!NextSequence(id)
  BY DEF Store!NextSequence, P!NextSequence, Store!Max, P!Max, Store!Sequences, P!Sequences,
     Store!SessionsOf, P!SessionsOf, Store!Exists, P!Exists
<1> QED
  BY <1>1, <1>2, <1>3

\* What a step of the store may be: none, one on the room, one that ends a session,
\* one that opens a session, or a snapshot.
StoreOperation(m) ==
  \/ \E g \in Games, id \in RoomIds : Store!CreateRoom(Code, m, g, id)
  \/ Store!Rejoin(Code, m) \/ Store!Enter(Code, m) \/ Store!LeaveRoom(Code, m)
  \/ Store!SetConnection(Code, m, "offline")
  \/ Store!GraceElapses(Code, m)
  \/ \E g \in Games : Store!SelectGame(Code, m, g)

LEMMA RoomOperationIsStores ==
  ASSUME NEW m \in Members, StoreOperation(m)
  PROVE  P!Next /\ UNCHANGED sessions
<1> DEFINE c == Code
<1> USE DEF Store!Idle, P!Idle, Store!Open, P!Open, Store!Exists, P!Exists,
            Store!Roster, P!Roster, Store!ledger, P!ledger
<1>1. ASSUME NEW g \in Games, NEW id \in RoomIds, Store!CreateRoom(c, m, g, id)
      PROVE  P!Next /\ UNCHANGED sessions
  <2>1. P!CreateRoom(c, m, g, id) /\ UNCHANGED sessions
    BY <1>1 DEF Store!CreateRoom, P!CreateRoom, Store!FreshRoomId, P!FreshRoomId,
       Store!SessionsOf, P!SessionsOf
  <2> QED
    BY <2>1 DEF P!Next
<1>2. ASSUME Store!Rejoin(c, m) PROVE P!Next /\ UNCHANGED sessions
  <2>1. P!Rejoin(c, m) /\ UNCHANGED sessions
    BY <1>2 DEF Store!Rejoin, P!Rejoin
  <2> QED
    BY <2>1 DEF P!Next
<1>3. ASSUME Store!Enter(c, m) PROVE P!Next /\ UNCHANGED sessions
  <2>1. P!Enter(c, m) /\ UNCHANGED sessions
    BY <1>3, SameHelpers DEF Store!Enter, P!Enter, Store!Cardinality, P!Cardinality
  <2> QED
    BY <2>1 DEF P!Next
<1>4. ASSUME Store!LeaveRoom(c, m) PROVE P!Next /\ UNCHANGED sessions
  <2>1. P!LeaveRoom(c, m) /\ UNCHANGED sessions
    BY <1>4, SameHelpers DEF Store!LeaveRoom, P!LeaveRoom
  <2> QED
    BY <2>1 DEF P!Next
<1>5. ASSUME Store!SetConnection(c, m, "offline") PROVE P!Next /\ UNCHANGED sessions
  <2>1. P!SetConnection(c, m, "offline") /\ UNCHANGED sessions
    BY <1>5 DEF Store!SetConnection, P!SetConnection
  <2> QED
    BY <2>1 DEF P!Next
<1>6. ASSUME Store!GraceElapses(c, m) PROVE P!Next /\ UNCHANGED sessions
  <2>1. P!GraceElapses(c, m) /\ UNCHANGED sessions
    BY <1>6 DEF Store!GraceElapses, P!GraceElapses
  <2> QED
    BY <2>1 DEF P!Next
<1>7. ASSUME NEW g \in Games, Store!SelectGame(c, m, g) PROVE P!Next /\ UNCHANGED sessions
  <2>1. P!SelectGame(c, m, g) /\ UNCHANGED sessions
    BY <1>7 DEF Store!SelectGame, P!SelectGame, Store!Cardinality, P!Cardinality
  <2> QED
    BY <2>1 DEF P!Next
<1> QED
  BY <1>1, <1>2, <1>3, <1>4, <1>5, <1>6, <1>7 DEF StoreOperation

LEMMA ExpiryIsStores ==
  ASSUME Store!ExpireOfflineMembers
  PROVE  P!Next /\ UNCHANGED sessions
<1> USE DEF Store!Idle, P!Idle, Store!Open, P!Open, Store!Roster, P!Roster,
            Store!ledger, P!ledger
<1>1. P!ExpireOfflineMembers /\ UNCHANGED sessions
  BY SameHelpers DEF Store!ExpireOfflineMembers, P!ExpireOfflineMembers
<1> QED
  BY <1>1 DEF P!Next

LEMMA StartSessionIsStores ==
  ASSUME NEW s \in SessionIds, NEW m \in Members, NEW humans \in SUBSET Members,
         Store!StartSession(Code, m, humans, 0, s)
  PROVE  P!StartSession(Code, m, humans, 0, s) /\ P!Next
<1>1. P!StartSession(Code, m, humans, 0, s)
  BY SameHelpers
  DEF Store!StartSession, P!StartSession, Store!Cardinality, P!Cardinality, Store!Idle, P!Idle,
      Store!Open, P!Open, Store!Exists, P!Exists, Store!Roster, P!Roster, Store!ledger, P!ledger
<1>2. P!Cardinality(Members) \in Nat
  BY StoreAssumptions, P!FS_CardinalityType
<1>3. 0 \in 0 .. P!Cardinality(Members)
  BY <1>2
<1> QED
  BY <1>1, <1>3 DEF P!Next

LEMMA EndSessionIsStores ==
  ASSUME NEW outcome \in {"finished", "abandoned"}, Store!EndSession(Code, outcome)
  PROVE  P!EndSession(Code, outcome) /\ P!Next
<1>1. P!EndSession(Code, outcome)
  BY DEF Store!EndSession, P!EndSession, Store!Open, P!Open, Store!ledger, P!ledger
<1> QED
  BY <1>1 DEF P!Next

LEMMA CommitIsStores ==
  ASSUME NEW s \in SessionIds, NEW v \in Nat, Store!CommitSnapshot(s, v)
  PROVE  P!CommitSnapshot(s, v) /\ P!Next
<1>1. P!CommitSnapshot(s, v) /\ v < MaxEdits
  BY DEF Store!CommitSnapshot, P!CommitSnapshot, Store!Exists, P!Exists, Store!ledger, P!ledger
<1>2. v \in 0 .. MaxEdits
  BY <1>1, BoundsAreNumbers
<1> QED
  BY <1>1, <1>2 DEF P!Next

-----------------------------------------------------------------------------
(* Ids do not run out *)

LEMMA Counts ==
  /\ \A S \in SUBSET SessionIds : IsFiniteSet(S) /\ Cardinality(S) \in Nat
  /\ \A S \in SUBSET Actors : IsFiniteSet(S) /\ Cardinality(S) \in Nat
<1>1. IsFiniteSet(Actors)
  BY FiniteSupplies, FS_AddElement DEF Actors
<1> QED
  BY <1>1, FiniteSupplies, FS_Subset, FS_CardinalityType

LEMMA StartingIsRead == Starting = {a \in Actors : Starts(handlers[a])}
BY DEF Starting, Starts

LEMMA SessionIsLeft ==
  ASSUME SessionsInv, NEW a \in Actors, At(a, "open")
  PROVE  NewSessionId \in SessionIds /\ ~Store!Exists(NewSessionId)
<1>1. match \in Nat /\ match <= MaxMatches /\ MaxMatches \in Nat
  BY BoundsAreNumbers DEF SessionsInv, Typed, Life!TypeOK
<1>2. Starting \in SUBSET Actors /\ UnusedIds \in SUBSET SessionIds /\ a \in Starting
  BY DEF Starting, UnusedIds, At
<1>3. Cardinality(Starting) \in Nat /\ Cardinality(Starting) # 0
  BY <1>2, Counts, FS_EmptySet
<1>4. Cardinality(UnusedIds) # 0
  BY <1>1, <1>2, <1>3, Counts DEF SessionsInv, IdsSuffice
<1>5. UnusedIds # {}
  BY <1>4, FS_EmptySet
<1> QED
  BY <1>5 DEF NewSessionId, UnusedIds

\* Rooms without a session need no id of their own, and there are more ids than
\* sessions, each of which has been in one room.
LEMMA RoomIdIsLeft ==
  ASSUME ~Present
  PROVE  NewRoomId \in RoomIds
<1> DEFINE used(id) == Store!SessionsOf(id)
           of == [id \in RoomIds |-> CHOOSE s \in used(id) : TRUE]
<1>1. \E id \in RoomIds : used(id) = {}
  <2> SUFFICES ASSUME \A id \in RoomIds : used(id) # {} PROVE FALSE
    OBVIOUS
  <2>1. \A id \in RoomIds : of[id] \in used(id)
    OBVIOUS
  <2>2. \A id \in RoomIds : of[id] \in SessionIds /\ sessions[of[id]].room = id
    BY <2>1 DEF Store!SessionsOf
  <2>3. of \in [RoomIds -> SessionIds]
    BY <2>2
  <2> HIDE DEF of
  <2>4. PICK i, j \in RoomIds : i # j /\ of[i] = of[j]
    BY <2>3, FiniteSupplies, SuppliesSuffice, FS_PigeonHole
  <2> QED
    BY <2>2, <2>4
<1>2. \E id \in RoomIds : Store!FreshRoomId(id)
  BY <1>1 DEF Store!FreshRoomId, Present
<1> QED
  BY <1>2 DEF NewRoomId

-----------------------------------------------------------------------------
(* Ordinary steps *)

\* No match begins, and none goes on with other people.
TableKeeps == /\ match' = match
              /\ status' = "playing" => status = "playing" /\ people' = people

SessionKeeps(s) ==
  /\ Store!Exists(s)' <=> Store!Exists(s)
  /\ Store!Exists(s) =>
       /\ sessions'[s].humans = sessions[s].humans
       /\ sessions'[s].stateVersion = sessions[s].stateVersion
  /\ Running(s)' => Running(s)

HandlerKeeps(b) ==
  /\ Starts(handlers'[b]) => /\ Starts(handlers[b])
                             /\ handlers'[b].match = handlers[b].match
                             /\ handlers'[b].people = handlers[b].people
  /\ Builds(handlers'[b]) => handlers'[b] = handlers[b]

HandlersKeep == \A b \in Actors : HandlerKeeps(b)
SessionsKeep == \A s \in SessionIds : SessionKeeps(s)
ShownKeeps == shown' = shown /\ edits' \in Nat /\ edits <= edits'

StoreMoves == [P!Next]_(P!vars)

LEMMA StoreStepKeeps ==
  ASSUME SessionsInv, StoreMoves
  PROVE  P!IInv' /\ P!LedgerInv'
BY StoreAssumptions, P!NextInvariant, P!NextLedger DEF SessionsInv, StoreMoves

LEMMA QuietStore ==
  ASSUME SessionsInv, UNCHANGED platform
  PROVE  StoreMoves /\ SessionsKeep
BY DEF platform, P!vars, StoreMoves, SessionsKeep, SessionKeeps, Store!Exists, Running

LEMMA RoomStepKeeps ==
  ASSUME P!Next /\ UNCHANGED sessions
  PROVE  StoreMoves /\ SessionsKeep
BY DEF StoreMoves, SessionsKeep, SessionKeeps, Store!Exists, Running

\* Handlers that are through need no id any more.
LEMMA IdsKept ==
  ASSUME SessionsInv, match' = match, serves' = serves, \A s \in SessionIds : Store!Exists(s)' <=> Store!Exists(s),
         \A b \in Actors : Starts(handlers'[b]) =>
           Starts(handlers[b]) /\ handlers'[b].match = handlers[b].match
  PROVE  IdsSuffice'
<1>1. UnusedIds' = UnusedIds /\ UnusedIds \in SUBSET SessionIds
  BY DEF UnusedIds
<1>2. Starting' \in SUBSET Starting /\ Starting \in SUBSET Actors
  BY DEF Starting, Starts
<1>3. Cardinality(Starting') <= Cardinality(Starting)
  BY <1>2, Counts, FS_Subset
<1>4. /\ Cardinality(Starting') \in Nat /\ Cardinality(Starting) \in Nat
      /\ Cardinality(UnusedIds) \in Nat
  BY <1>1, <1>2, Counts
<1>5. match \in Nat /\ MaxMatches \in Nat
  BY BoundsAreNumbers DEF SessionsInv, Typed, Life!TypeOK
<1>6. Cardinality(UnusedIds') >= Cardinality(Starting') + (MaxMatches - match')
  BY <1>1, <1>3, <1>4, <1>5 DEF SessionsInv, IdsSuffice
<1> QED
  BY <1>6 DEF SessionsInv, IdsSuffice

LEMMA OrdinaryMatches ==
  ASSUME SessionsInv, TableKeeps, SessionsKeep, HandlersKeep, serves' = serves
  PROVE  IdsSuffice'
<1>1. \A s \in SessionIds : Store!Exists(s)' <=> Store!Exists(s)
  BY DEF SessionsKeep, SessionKeeps
<1>2. \A b \in Actors : Starts(handlers'[b]) =>
        Starts(handlers[b]) /\ handlers'[b].match = handlers[b].match
  BY DEF HandlersKeep, HandlerKeeps
<1> QED
  BY <1>1, <1>2, IdsKept DEF TableKeeps

LEMMA OrdinarySeats ==
  ASSUME SessionsInv, TableKeeps, SessionsKeep, HandlersKeep, serves' = serves
  PROVE  SeatsFit'
<1> SUFFICES ASSUME status' = "playing"
             PROVE  /\ \A a \in Actors : Starts(handlers'[a]) /\ handlers'[a].match = match' =>
                         handlers'[a].people = people'
                    /\ \A s \in SessionIds : Running(s)' /\ serves'[s] = match' =>
                         sessions'[s].humans = people'
  BY DEF SeatsFit
<1>1. status = "playing" /\ people' = people /\ match' = match
  BY DEF TableKeeps
<1>2. \A b \in Actors : HandlerKeeps(b)
  BY DEF HandlersKeep
<1>3. \A s \in SessionIds : SessionKeeps(s)
  BY DEF SessionsKeep
<1> QED
  BY <1>1, <1>2, <1>3 DEF SessionsInv, SeatsFit, HandlerKeeps, SessionKeeps, Running

LEMMA OrdinarySnapshots ==
  ASSUME SessionsInv, SessionsKeep, HandlersKeep, ShownKeeps
  PROVE  SnapshotsFit'
<1>1. \A s \in SessionIds : shown'[s] <= edits'
  BY DEF SessionsInv, SnapshotsFit, ShownKeeps, Typed
<1>2. ASSUME NEW a \in Actors, Builds(handlers'[a])
      PROVE  BuildFits(handlers[a])'
  <2>1. handlers'[a] = handlers[a] /\ BuildFits(handlers[a]) /\ handlers[a] \in Handler
    BY <1>2 DEF HandlersKeep, HandlerKeeps, SessionsInv, SnapshotsFit, Typed
  <2>2. SessionKeeps(handlers[a].session)
    BY <2>1 DEF SessionsKeep, BuildFits
  <2>3. handlers[a].seen \in Nat /\ edits \in Nat /\ edits' \in Nat
    BY <2>1 DEF Handler, SessionsInv, Typed, ShownKeeps
  <2> QED
    BY <2>1, <2>2, <2>3 DEF BuildFits, SessionKeeps, ShownKeeps
<1> QED
  BY <1>1, <1>2 DEF SnapshotsFit

\* What every step that begins no match, opens no session and builds no
\* snapshot keeps.
LEMMA OrdinaryKeeps ==
  ASSUME SessionsInv, Typed', StoreMoves,
         TableKeeps, SessionsKeep, HandlersKeep, ShownKeeps, serves' = serves
  PROVE  SessionsInv'
<1>1. P!IInv' /\ P!LedgerInv'
  BY StoreStepKeeps
<1>2. IdsSuffice' /\ SeatsFit' /\ SnapshotsFit'
  BY OrdinaryMatches, OrdinarySeats, OrdinarySnapshots
<1> QED
  BY <1>1, <1>2 DEF SessionsInv

-----------------------------------------------------------------------------
(* The table of the game *)

TableTyped == Life!TypeOK /\ match <= MaxMatches

TableStep(p) ==
  \/ Life!Rejoin(p) \/ Life!JoinPlayer(p, "normal") \/ Life!SetPlayerDisconnected(p)
  \/ Life!LeavePlayer(p) \/ Life!ResetRoomByHost(p)
  \/ \E q \in {p, Nobody} : Life!PrepareRematchByHost(q)
  \/ Life!RefusedStart(p) \/ Life!EndGame

LEMMA TableStepKeeps ==
  ASSUME TableTyped, NEW p \in Members, TableStep(p)
  PROVE  TableTyped' /\ TableKeeps
<1> USE DEF TableTyped, TableKeeps, Life!TypeOK
<1>1. CASE Life!Rejoin(p) \/ Life!SetPlayerDisconnected(p) \/ Life!EndGame
  BY <1>1 DEF Life!Rejoin, Life!SetPlayerDisconnected, Life!EndGame
<1>2. CASE Life!JoinPlayer(p, "normal")
  BY <1>2 DEF Life!JoinPlayer
<1>3. CASE Life!LeavePlayer(p)
  BY <1>3 DEF Life!LeavePlayer, Life!Keep, Life!Empty
<1>4. CASE Life!ResetRoomByHost(p)
  BY <1>4 DEF Life!ResetRoomByHost, Life!Empty
<1>5. CASE \E q \in {p, Nobody} : Life!PrepareRematchByHost(q)
  BY <1>5 DEF Life!PrepareRematchByHost, Life!Keep, Life!Online
<1>6. CASE Life!RefusedStart(p)
  BY <1>6 DEF Life!RefusedStart, Life!MayStart, Life!Keep, Life!Online
<1> QED
  BY <1>1, <1>2, <1>3, <1>4, <1>5, <1>6 DEF TableStep

LEMMA StartGameBegins ==
  ASSUME TableTyped, NEW p \in Members, Life!StartGame(p)
  PROVE  TableTyped' /\ match' = match + 1 /\ people' \in SUBSET Members
BY BoundsAreNumbers
   DEF TableTyped, Life!TypeOK, Life!StartGame, Life!MayStart, Life!Keep, Life!Online

LEMMA QuietTable ==
  ASSUME TableTyped, UNCHANGED game
  PROVE  TableTyped' /\ TableKeeps
BY DEF TableTyped, Life!TypeOK, TableKeeps, game

-----------------------------------------------------------------------------
(* The handler that takes a step *)

\* A handler that ends, or goes on without beginning a match or a snapshot.
LEMMA GoesKeeps ==
  ASSUME handlers \in [Actors -> Handler], NEW a \in Actors, NEW h \in Handler, Goes(a, h),
         ~Builds(h),
         Starts(h) => /\ Starts(handlers[a])
                      /\ h.match = handlers[a].match /\ h.people = handlers[a].people
  PROVE  handlers' \in [Actors -> Handler] /\ HandlersKeep
BY DEF Goes, HandlersKeep, HandlerKeeps

\* Where a handler may be that neither begins a match nor builds a snapshot.
Others == Places \ {"ensure", "open", "read", "commit"}

\* What a request leaves its handler to do.
FirstStep(h, at) ==
  \E back, over \in BOOLEAN :
    \/ h = [Resting EXCEPT !.at = at]
    \/ h = [Resting EXCEPT !.at = at, !.back = back]
    \/ h = [Resting EXCEPT !.at = at, !.over = over]

LEMMA RestingIsRead ==
  /\ Resting \in Handler /\ ~Starts(Resting) /\ ~Builds(Resting)
  /\ \A at \in Others : \A h : FirstStep(h, at) => h \in Handler /\ ~Starts(h) /\ ~Builds(h)
<1>1. Resting \in Handler /\ ~Starts(Resting) /\ ~Builds(Resting)
  BY DEF Resting, Handler, Places, Starts, Builds
<1>2. ASSUME NEW h, NEW at \in Others, FirstStep(h, at)
      PROVE  h \in Handler /\ h.at = at
  BY <1>1, <1>2 DEF Handler, FirstStep, Others
<1>3. ASSUME NEW h, NEW at \in Others, h.at = at PROVE ~Starts(h) /\ ~Builds(h)
  BY <1>3 DEF Starts, Builds, Others
<1> QED
  BY <1>1, <1>2, <1>3

LEMMA EndsKeeps ==
  ASSUME handlers \in [Actors -> Handler], NEW a \in Actors, Ends(a)
  PROVE  handlers' \in [Actors -> Handler] /\ HandlersKeep
BY GoesKeeps, RestingIsRead DEF Ends

LEMMA ProceedsKeeps ==
  ASSUME handlers \in [Actors -> Handler], NEW a \in Actors,
         NEW place \in Places \ {"read", "commit"}, Proceeds(a, place),
         place \in {"ensure", "open"} => Starts(handlers[a])
  PROVE  handlers' \in [Actors -> Handler] /\ HandlersKeep
<1> DEFINE h == [handlers[a] EXCEPT !.at = place]
<1>1. /\ h \in Handler /\ h.at = place
      /\ h.match = handlers[a].match /\ h.people = handlers[a].people
  BY DEF Handler
<1>2. Goes(a, h)
  BY DEF Proceeds
<1> HIDE DEF h
<1> QED
  BY <1>1, <1>2, GoesKeeps DEF Starts, Builds

LEMMA FirstStepKeeps ==
  ASSUME handlers \in [Actors -> Handler], NEW a \in Actors, NEW h, NEW at \in Others,
         FirstStep(h, at), Goes(a, h)
  PROVE  handlers' \in [Actors -> Handler] /\ HandlersKeep
BY RestingIsRead, GoesKeeps

LEMMA ClosesKeeps ==
  ASSUME handlers \in [Actors -> Handler], NEW a \in Actors, Closes(a)
  PROVE  handlers' \in [Actors -> Handler] /\ HandlersKeep
BY EndsKeeps, ProceedsKeeps DEF Closes, Places

LEMMA QuietHandlers ==
  ASSUME handlers \in [Actors -> Handler], UNCHANGED handlers
  PROVE  handlers' \in [Actors -> Handler] /\ HandlersKeep
BY DEF HandlersKeep, HandlerKeeps

-----------------------------------------------------------------------------
(* Requests *)

LEMMA InvariantTypes ==
  ASSUME SessionsInv
  PROVE  /\ TableTyped /\ joined \subseteq Members
         /\ handlers \in [Actors -> Handler]
         /\ edits \in Nat /\ told \in Nat /\ match \in Nat
         /\ shown \in [SessionIds -> Nat] /\ serves \in [SessionIds -> Nat]
BY DEF SessionsInv, Typed, TableTyped, Life!TypeOK

LEMMA PlainStep ==
  ASSUME SessionsInv, StoreMoves, SessionsKeep, TableTyped', TableKeeps,
         joined' \subseteq Members, handlers' \in [Actors -> Handler], HandlersKeep,
         edits' \in {edits, edits + 1}, told' \in Nat, UNCHANGED <<shown, serves>>
  PROVE  SessionsInv'
<1>1. edits' \in Nat /\ edits <= edits'
  BY InvariantTypes
<1>2. Typed' /\ ShownKeeps
  BY <1>1, InvariantTypes DEF Typed, TableTyped, ShownKeeps
<1> QED
  BY <1>2, OrdinaryKeeps

LEMMA MembersAct == Members \subseteq Actors
BY DEF Actors

LEMMA OpenRoomKeeps ==
  ASSUME SessionsInv, NEW p \in Members, OpenRoom(p)
  PROVE  SessionsInv'
<1>1. NewRoomId \in RoomIds
  BY RoomIdIsLeft DEF OpenRoom
<1>2. StoreOperation(p)
  BY <1>1 DEF OpenRoom, StoreOperation, Games
<1>3. StoreMoves /\ SessionsKeep
  BY <1>2, RoomOperationIsStores, RoomStepKeeps
<1>4. TableTyped' /\ TableKeeps
  BY InvariantTypes DEF OpenRoom, TableTyped, TableKeeps, Life!TypeOK
<1>5. handlers' \in [Actors -> Handler] /\ HandlersKeep
  BY InvariantTypes, QuietHandlers DEF OpenRoom
<1>6. /\ joined' \subseteq Members /\ edits' = edits + 1 /\ told' = told
      /\ UNCHANGED <<shown, serves>>
  BY InvariantTypes DEF OpenRoom, Edits, history
<1> QED
  BY <1>3, <1>4, <1>5, <1>6, InvariantTypes, PlainStep

LEMMA SeatRequestKeeps ==
  ASSUME SessionsInv, NEW p \in Members,
         JoinRoom(p) \/ LeaveRoom(p) \/ ResetRoom(p) \/ Rematch(p)
  PROVE  SessionsInv'
<1>1. UNCHANGED platform /\ TableStep(p) /\ joined' = joined
      /\ edits' = edits + 1 /\ told' = told /\ UNCHANGED <<shown, serves>>
  BY DEF JoinRoom, LeaveRoom, ResetRoom, Rematch, TableStep, Edits, history
<1>2. handlers' \in [Actors -> Handler] /\ HandlersKeep
  <2>1. CASE Rematch(p)
    BY <2>1, InvariantTypes, QuietHandlers DEF Rematch
  <2>2. CASE JoinRoom(p)
    <3> DEFINE back == p \in people
               h == [Resting EXCEPT !.at = "route", !.back = back]
    <3>1. Goes(p, h) /\ back \in BOOLEAN
      BY <2>2 DEF JoinRoom
    <3> HIDE DEF back
    <3>2. FirstStep(h, "route") /\ "route" \in Others
      BY <3>1 DEF FirstStep, Others, Places
    <3> HIDE DEF h
    <3> QED
      BY <3>1, <3>2, InvariantTypes, FirstStepKeeps, MembersAct
  <2>3. CASE LeaveRoom(p) \/ ResetRoom(p)
    <3>1. PICK at \in {"leave", "abandon"} : Goes(p, [Resting EXCEPT !.at = at])
      BY <2>3 DEF LeaveRoom, ResetRoom
    <3>2. FirstStep([Resting EXCEPT !.at = at], at) /\ at \in Others
      BY DEF FirstStep, Others, Places
    <3> QED
      BY <3>1, <3>2, InvariantTypes, FirstStepKeeps, MembersAct
  <2> QED
    BY <2>1, <2>2, <2>3
<1> QED
  BY <1>1, <1>2, InvariantTypes, TableStepKeeps, QuietStore, PlainStep

LEMMA DisconnectKeeps ==
  ASSUME SessionsInv, NEW p \in Members, Disconnect(p)
  PROVE  SessionsInv'
<1>1. StoreMoves /\ SessionsKeep
  <2>1. CASE IsMember(p)
    BY <2>1, RoomOperationIsStores, RoomStepKeeps DEF Disconnect, StoreOperation
  <2>2. CASE ~IsMember(p)
    BY <2>2, QuietStore DEF Disconnect
  <2> QED
    BY <2>1, <2>2
<1>2. handlers' \in [Actors -> Handler] /\ HandlersKeep
  <2>1. FirstStep([Resting EXCEPT !.at = "drop"], "drop") /\ "drop" \in Others
    BY DEF FirstStep, Others, Places
  <2>2. Goes(p, [Resting EXCEPT !.at = "drop"])
    BY DEF Disconnect
  <2> QED
    BY <2>1, <2>2, InvariantTypes, FirstStepKeeps, MembersAct
<1>3. /\ UNCHANGED game /\ joined' \subseteq Members /\ edits' = edits /\ told' = told
      /\ UNCHANGED <<shown, serves>>
  BY InvariantTypes DEF Disconnect, history
<1> QED
  BY <1>1, <1>2, <1>3, InvariantTypes, QuietTable, PlainStep

LEMMA SelectGameKeeps ==
  ASSUME SessionsInv, NEW p \in Members, NEW g \in Games, SelectGame(p, g)
  PROVE  SessionsInv'
<1>1. StoreMoves /\ SessionsKeep
  BY RoomOperationIsStores, RoomStepKeeps DEF SelectGame, StoreOperation
<1>2. /\ UNCHANGED <<game, joined, handlers, edits>> /\ told' = told
      /\ UNCHANGED <<shown, serves>>
  BY DEF SelectGame, history
<1> QED
  BY <1>1, <1>2, InvariantTypes, QuietTable, QuietHandlers, PlainStep

\* One more handler may open a session: an id is left for it, since a match has
\* begun, or since the bound on further starts leaves one.
LEMMA StartTakesAnId ==
  ASSUME SessionsInv, NEW p \in Actors, UNCHANGED sessions, serves' = serves,
         \A b \in Actors : b # p => handlers'[b] = handlers[b],
         handlers'[p].match = match', match' \in Nat,
         \/ match' = match + 1
         \/ /\ match' = match
            /\ Cardinality(UnusedIds) > Cardinality(Starting) + (MaxMatches - match)
  PROVE  IdsSuffice'
<1>1. UnusedIds' = UnusedIds /\ UnusedIds \in SUBSET SessionIds
  BY DEF UnusedIds, Store!Exists
<1>2. /\ Starting \in SUBSET Actors /\ Starting' \in SUBSET Actors
      /\ Starting' \in SUBSET (Starting \cup {p}) /\ Starting \cup {p} \in SUBSET Actors
  BY DEF Starting
<1>3. /\ Cardinality(Starting) \in Nat /\ Cardinality(Starting') \in Nat
      /\ Cardinality(UnusedIds) \in Nat
  BY <1>1, <1>2, Counts
<1>4. Cardinality(Starting') <= Cardinality(Starting) + 1
  <2>1. Cardinality(Starting') <= Cardinality(Starting \cup {p})
    BY <1>2, Counts, FS_Subset
  <2>2. Cardinality(Starting \cup {p}) \in {Cardinality(Starting), Cardinality(Starting) + 1}
    BY <1>2, Counts, FS_AddElement
  <2> QED
    BY <1>3, <2>1, <2>2
<1>5. match \in Nat /\ MaxMatches \in Nat /\ serves \in [SessionIds -> Nat]
  BY BoundsAreNumbers, InvariantTypes
<1>6. Cardinality(UnusedIds') >= Cardinality(Starting') + (MaxMatches - match')
  BY <1>1, <1>3, <1>4, <1>5 DEF SessionsInv, IdsSuffice
<1>7. \A s \in SessionIds : serves'[s] <= match'
  BY <1>5 DEF SessionsInv, IdsSuffice
<1>8. ASSUME NEW b \in Actors, Starts(handlers'[b]) PROVE handlers'[b].match <= match'
  <2>1. CASE b = p
    BY <1>5, <2>1
  <2>2. CASE b # p
    <3>1. handlers[b].match <= match /\ handlers'[b].match = handlers[b].match
      BY <1>8, <2>2 DEF SessionsInv, IdsSuffice
    <3>2. handlers[b].match \in Nat
      BY InvariantTypes DEF Handler
    <3> QED
      BY <1>5, <3>1, <3>2
  <2> QED
    BY <2>1, <2>2
<1> QED
  BY <1>6, <1>7, <1>8 DEF IdsSuffice

\* A new match has no session yet; a match that is on has the people at its table.
LEMMA StartGameKeeps ==
  ASSUME SessionsInv, NEW p \in Members, StartGame(p)
  PROVE  SessionsInv'
<1>1. /\ UNCHANGED platform /\ joined' = joined /\ edits' \in {edits, edits + 1} /\ told' = told
      /\ shown' = shown /\ serves' = serves
  BY DEF StartGame, StartsAgain, Edits, history
<1>2. StoreMoves /\ SessionsKeep /\ UNCHANGED sessions
  BY <1>1, QuietStore DEF platform
<1>3. CASE Life!RefusedStart(p) /\ UNCHANGED handlers
  <2>1. TableStep(p)
    BY <1>3 DEF TableStep
  <2> QED
    BY <1>1, <1>2, <1>3, <2>1, InvariantTypes, TableStepKeeps, QuietHandlers, PlainStep
<1> DEFINE back == status = "playing"
           h == [Resting EXCEPT !.at = "ensure", !.people = people', !.match = match', !.back = back]
<1>4. ASSUME Life!StartGame(p) \/ StartsAgain(p), Goes(p, h) PROVE SessionsInv'
  <2>1. /\ TableTyped' /\ people' \in SUBSET Members /\ match \in Nat /\ match' \in Nat
        /\ \/ match' = match + 1
           \/ /\ match' = match /\ people' = people /\ status = "playing"
              /\ Cardinality(UnusedIds) > Cardinality(Starting) + (MaxMatches - match)
    <3>1. CASE Life!StartGame(p)
      BY <3>1, InvariantTypes, StartGameBegins
    <3>2. CASE StartsAgain(p)
      <4>1. UNCHANGED game
        BY <3>2 DEF StartsAgain
      <4>2. TableTyped' /\ match' = match /\ people' = people
        BY <4>1, InvariantTypes, QuietTable DEF game
      <4>3. people \in SUBSET Members /\ match \in Nat
        BY InvariantTypes DEF TableTyped, Life!TypeOK
      <4> QED
        BY <3>2, <4>2, <4>3 DEF StartsAgain
    <3> QED
      BY <1>4, <3>1, <3>2
  <2>2. /\ h \in Handler /\ h.at = "ensure" /\ h.people = people' /\ h.match = match'
    <3>1. match' \in Nat /\ people' \in SUBSET Members /\ "ensure" \in Places /\ back \in BOOLEAN
      BY <2>1 DEF Places
    <3> HIDE DEF back
    <3> QED
      BY <3>1, RestingIsRead DEF Handler
  <2>3. Goes(p, h) /\ p \in Actors
    BY <1>4, MembersAct
  <2> HIDE DEF h, back
  <2>4. handlers' = [handlers EXCEPT ![p] = h] /\ handlers \in [Actors -> Handler]
    BY <2>3, InvariantTypes DEF Goes
  <2>5. /\ handlers' \in [Actors -> Handler] /\ handlers'[p] = h
        /\ \A b \in Actors : b # p => handlers'[b] = handlers[b]
    BY <2>2, <2>3, <2>4
  <2>6. edits \in Nat /\ edits' \in Nat /\ edits <= edits'
    BY <1>1, InvariantTypes
  <2>7. Typed'
    BY <1>1, <2>1, <2>5, <2>6, InvariantTypes DEF Typed, TableTyped
  <2>8. IdsSuffice'
    BY <1>1, <1>2, <2>1, <2>2, <2>3, <2>5, StartTakesAnId
  <2>9. /\ \A b \in Actors : Starts(handlers[b]) => handlers[b].match <= match
        /\ \A b \in Actors : handlers[b].match \in Nat
        /\ \A s \in SessionIds : serves[s] <= match /\ serves[s] \in Nat
    BY InvariantTypes DEF SessionsInv, IdsSuffice, Handler
  <2>10. SeatsFit'
    <3>1. ASSUME match' = match + 1 PROVE SeatsFit'
      <4>1. \A s \in SessionIds : ~(Running(s)' /\ serves'[s] = match')
        BY <1>1, <2>1, <2>9, <3>1
      <4>2. \A b \in Actors : Starts(handlers'[b]) /\ handlers'[b].match = match' =>
              handlers'[b].people = people'
        BY <2>1, <2>2, <2>5, <2>9, <3>1
      <4> QED
        BY <4>1, <4>2 DEF SeatsFit
    <3>2. ASSUME match' = match, people' = people, status = "playing" PROVE SeatsFit'
      <4>1. /\ \A a \in Actors : Starts(handlers[a]) /\ handlers[a].match = match =>
                 handlers[a].people = people
            /\ \A s \in SessionIds : Running(s) /\ serves[s] = match => sessions[s].humans = people
        BY <3>2 DEF SessionsInv, SeatsFit
      <4>2. \A b \in Actors : Starts(handlers'[b]) /\ handlers'[b].match = match' =>
              handlers'[b].people = people'
        BY <2>2, <2>5, <3>2, <4>1
      <4>3. \A s \in SessionIds : Running(s)' /\ serves'[s] = match' => sessions'[s].humans = people'
        BY <1>1, <1>2, <3>2, <4>1 DEF Running, Store!Exists
      <4> QED
        BY <4>2, <4>3 DEF SeatsFit
    <3> QED
      BY <2>1, <3>1, <3>2
  <2>11. SnapshotsFit'
    <3>1. \A s \in SessionIds : shown'[s] <= edits'
      BY <1>1, <2>6, InvariantTypes DEF SessionsInv, SnapshotsFit
    <3>2. ASSUME NEW b \in Actors, Builds(handlers'[b]) PROVE BuildFits(handlers[b])'
      <4>1. handlers'[b] = handlers[b]
        BY <2>2, <2>5, <3>2 DEF Builds
      <4>2. BuildFits(handlers[b]) /\ handlers[b].seen \in Nat
        BY <3>2, <4>1, InvariantTypes DEF SessionsInv, SnapshotsFit, Handler
      <4> QED
        BY <1>1, <1>2, <2>6, <4>1, <4>2, InvariantTypes DEF BuildFits, Store!Exists
    <3> QED
      BY <3>1, <3>2 DEF SnapshotsFit
  <2> QED
    BY <1>2, <2>7, <2>8, <2>10, <2>11, StoreStepKeeps DEF SessionsInv
<1> QED
  BY <1>3, <1>4 DEF StartGame

LEMMA MoveKeeps ==
  ASSUME SessionsInv, NEW a \in Actors, Move(a)
  PROVE  SessionsInv'
<1>1. PICK over \in BOOLEAN : /\ Life!EndGame \/ UNCHANGED game
                              /\ Goes(a, [Resting EXCEPT !.at = "look", !.over = over])
  BY DEF Move
<1>2. /\ UNCHANGED <<platform, joined, shown, serves>> /\ edits' = edits + 1 /\ told' = told
  BY DEF Move, Edits, history
<1>3. TableTyped' /\ TableKeeps
  <2>1. CASE Life!EndGame
    BY <2>1, InvariantTypes DEF Life!EndGame, TableTyped, TableKeeps, Life!TypeOK
  <2> QED
    BY <1>1, <2>1, InvariantTypes, QuietTable
<1>4. handlers' \in [Actors -> Handler] /\ HandlersKeep
  <2>1. FirstStep([Resting EXCEPT !.at = "look", !.over = over], "look") /\ "look" \in Others
    BY DEF FirstStep, Others, Places
  <2> QED
    BY <1>1, <2>1, InvariantTypes, FirstStepKeeps
<1> QED
  BY <1>2, <1>3, <1>4, InvariantTypes, QuietStore, PlainStep

-----------------------------------------------------------------------------
(* The second calls *)

\* A step of a handler that leaves the table alone.
LEMMA QuietStep ==
  ASSUME SessionsInv, NEW a \in Actors, StoreMoves, SessionsKeep,
         UNCHANGED <<game, edits, shown, serves>>,
         joined' \subseteq Members, told' \in Nat,
         handlers' \in [Actors -> Handler], HandlersKeep
  PROVE  SessionsInv'
BY InvariantTypes, QuietTable, PlainStep

LEMMA RoomChange ==
  ASSUME NEW p \in Members, StoreOperation(p)
  PROVE  StoreMoves /\ SessionsKeep
BY RoomOperationIsStores, RoomStepKeeps

LEMMA MembershipKeeps ==
  ASSUME SessionsInv, NEW p \in Members,
         Found(p) \/ Switch(p) \/ Join(p) \/ Leave(p)
  PROVE  SessionsInv'
<1>1. /\ UNCHANGED <<game, edits, shown, serves>> /\ told' = told
      /\ joined' \subseteq Members
  BY InvariantTypes DEF Found, Switch, Join, Leave, Quietly, history
<1>2. Ends(p) \/ \E place \in {"welcome", "join"} : Proceeds(p, place)
  BY DEF Found, Switch, Join, Leave
<1>3. handlers' \in [Actors -> Handler] /\ HandlersKeep
  <2>1. {"welcome", "join"} \subseteq Places \ {"read", "commit", "ensure", "open"}
    BY DEF Places
  <2> QED
    BY <1>2, <2>1, InvariantTypes, MembersAct, EndsKeeps, ProceedsKeeps
<1>4. UNCHANGED platform \/ StoreOperation(p)
  <2>1. CASE Found(p)
    <3>1. ~Present => NewRoomId \in RoomIds
      BY RoomIdIsLeft
    <3> QED
      BY <2>1, <3>1 DEF Found, StoreOperation, Games
  <2>2. CASE Switch(p) \/ Join(p) \/ Leave(p)
    BY <2>2 DEF Switch, Join, Leave, StoreOperation, Games
  <2> QED
    BY <2>1, <2>2
<1>5. StoreMoves /\ SessionsKeep
  BY <1>4, QuietStore, RoomChange
<1> QED
  BY <1>1, <1>3, <1>5, InvariantTypes, MembersAct, QuietStep

LEMMA RouteWelcomeKeep ==
  ASSUME SessionsInv, NEW p \in Members, Route(p) \/ Welcome(p)
  PROVE  SessionsInv'
<1>1. /\ UNCHANGED <<game, platform, joined, edits, shown, serves>>
      /\ told' \in Nat
  BY InvariantTypes DEF Route, Welcome, Quietly, history
<1>2. handlers' \in [Actors -> Handler] /\ HandlersKeep
  <2>1. CASE Route(p)
    <3>1. {"found", "join", "switch"} \subseteq Places \ {"read", "commit", "ensure", "open"}
      BY DEF Places
    <3>2. Ends(p) \/ \E place \in {"found", "join", "switch"} : Proceeds(p, place)
      BY <2>1 DEF Route
    <3> QED
      BY <3>1, <3>2, InvariantTypes, MembersAct, EndsKeeps, ProceedsKeeps
  <2>2. CASE Welcome(p)
    <3> DEFINE over == status = "finished"
               h == [Resting EXCEPT !.at = "look", !.over = over]
    <3>1. (Goes(p, h) \/ Ends(p)) /\ over \in BOOLEAN
      BY <2>2 DEF Welcome
    <3> HIDE DEF over
    <3>2. FirstStep(h, "look") /\ "look" \in Others
      BY <3>1 DEF FirstStep, Others, Places
    <3> HIDE DEF h
    <3> QED
      BY <3>1, <3>2, InvariantTypes, MembersAct, FirstStepKeeps, EndsKeeps
  <2> QED
    BY <2>1, <2>2
<1> QED
  BY <1>1, <1>2, InvariantTypes, MembersAct, QuietStore, QuietStep

LEMMA DropKeeps ==
  ASSUME SessionsInv, NEW p \in Members, Drop(p)
  PROVE  SessionsInv'
<1>1. UNCHANGED <<platform, joined, shown, serves>> /\ told' = told /\ Ends(p)
  BY DEF Drop, history
<1>2. TableTyped' /\ TableKeeps /\ edits' \in {edits, edits + 1}
  BY InvariantTypes, TableStepKeeps, QuietTable DEF Drop, TableStep, Edits
<1> QED
  BY <1>1, <1>2, InvariantTypes, MembersAct, EndsKeeps, QuietStore, PlainStep

LEMMA EnsureKeeps ==
  ASSUME SessionsInv, NEW a \in Actors, Ensure(a)
  PROVE  SessionsInv'
<1>1. UNCHANGED <<game, platform, joined, edits, shown, serves>> /\ Starts(handlers[a])
  BY DEF Ensure, At, Starts
<1>2. handlers[a].match \in Nat
  BY InvariantTypes DEF Handler
<1>3. \/ Ends(a) /\ told' = handlers[a].match
      \/ Proceeds(a, "look") /\ told' = handlers[a].match
      \/ Proceeds(a, "open") /\ told' = told
  BY DEF Ensure, Announces
<1>4. handlers' \in [Actors -> Handler] /\ HandlersKeep
  <2>1. {"look", "open"} \subseteq Places \ {"read", "commit"}
    BY DEF Places
  <2> QED
    BY <1>1, <1>3, <2>1, InvariantTypes, ProceedsKeeps, EndsKeeps
<1> QED
  BY <1>1, <1>2, <1>3, <1>4, InvariantTypes, QuietStore, QuietStep

LEMMA EndActiveKeeps ==
  ASSUME SessionsInv, NEW a \in Actors, Finish(a) \/ Abandon(a)
  PROVE  SessionsInv'
<1>1. /\ UNCHANGED <<game, joined, edits, shown, serves>> /\ told' = told
      /\ Ends(a)
  BY DEF Finish, Abandon, EndActive, Quietly, history
<1>2. StoreMoves /\ SessionsKeep
  <2>1. UNCHANGED platform \/ \E outcome \in {"finished", "abandoned"} : Store!EndSession(Code, outcome)
    BY DEF Finish, Abandon, EndActive
  <2>2. ASSUME NEW outcome \in {"finished", "abandoned"}, Store!EndSession(Code, outcome)
        PROVE  StoreMoves /\ SessionsKeep
    <3>1. PICK t : t = rooms[Code].active
      OBVIOUS
    <3>2. P!EndSession(Code, outcome) /\ P!Next
      BY <2>2, EndSessionIsStores
    <3>3. /\ t \in SessionIds /\ sessions[t] # NoSession /\ sessions[t].status = "running"
          /\ sessions'[t] # NoSession /\ sessions'[t].status = outcome
          /\ sessions'[t].humans = sessions[t].humans
          /\ sessions'[t].stateVersion = sessions[t].stateVersion
          /\ \A s \in SessionIds : s # t => sessions'[s] = sessions[s]
      BY <3>1, <3>2, StoreAssumptions, P!EndSessionCloses DEF SessionsInv
    <3> QED
      BY <3>2, <3>3 DEF StoreMoves, SessionsKeep, SessionKeeps, Store!Exists, Running
  <2> QED
    BY <2>1, <2>2, QuietStore
<1> QED
  BY <1>1, <1>2, InvariantTypes, EndsKeeps, QuietStep

-----------------------------------------------------------------------------
(* The session of a match *)

LEMMA OpenSessionKeeps ==
  ASSUME SessionsInv, NEW p \in Members, OpenSession(p)
  PROVE  SessionsInv'
<1> DEFINE h == handlers[p]
           s == NewSessionId
<1>1. UNCHANGED <<game, joined, edits, shown>> /\ p \in Actors /\ h \in Handler /\ Starts(h)
  BY InvariantTypes, MembersAct DEF OpenSession, At, Starts
<1>2. CASE Ends(p) /\ UNCHANGED <<platform, serves, told>>
  BY <1>1, <1>2, InvariantTypes, EndsKeeps, QuietStore, QuietStep
<1>3. CASE /\ Store!StartSession(Code, p, h.people, 0, s)
           /\ serves' = [serves EXCEPT ![s] = MatchServed(p)]
           /\ Announces(p)
  <2>1. s \in SessionIds /\ ~Store!Exists(s)
    BY <1>1, SessionIsLeft DEF OpenSession
  <2>2. h.people \in SUBSET Members /\ h.match \in Nat
    BY <1>1 DEF Handler
  <2>3. P!StartSession(Code, p, h.people, 0, s) /\ P!Next
    BY <1>3, <2>1, <2>2, StartSessionIsStores
  <2> HIDE DEF s
  <2>4. /\ sessions'[s] # NoSession /\ sessions'[s].humans = h.people
        /\ \A t \in SessionIds : t # s => sessions'[t] = sessions[t]
    BY <2>1, <2>2, <2>3, StoreAssumptions, P!StartSessionOpens, P!StartSessionSpares
    DEF SessionsInv
  <2>5. StoreMoves
    BY <2>3 DEF StoreMoves
  <2>6. handlers' \in [Actors -> Handler] /\ HandlersKeep
    <3>1. Ends(p) \/ Proceeds(p, "look")
      BY <1>3 DEF Announces
    <3>2. "look" \in Places \ {"read", "commit", "ensure", "open"}
      BY DEF Places
    <3> QED
      BY <1>1, <3>1, <3>2, InvariantTypes, ProceedsKeeps, EndsKeeps
  <2>7. /\ serves' \in [SessionIds -> Nat] /\ serves'[s] \in {0, h.match}
        /\ status = "playing" => serves'[s] = h.match
        /\ \A t \in SessionIds : t # s => serves'[t] = serves[t]
    <3>1. MatchServed(p) \in {0, h.match} /\ (status = "playing" => MatchServed(p) = h.match)
      BY DEF MatchServed
    <3> QED
      BY <1>3, <2>1, <2>2, <3>1, InvariantTypes
  <2>8. told' = h.match
    BY <1>3 DEF Announces
  <2>9. Typed'
    BY <1>1, <2>2, <2>6, <2>7, <2>8, InvariantTypes, QuietTable DEF Typed, TableTyped
  <2>10. h.match <= match /\ p \in Starting
    BY <1>1 DEF SessionsInv, IdsSuffice, Starting, Starts
  <2>11. ~Starts(handlers'[p])
    <3>1. \/ handlers' = [handlers EXCEPT ![p] = [h EXCEPT !.at = "look"]]
          \/ handlers' = [handlers EXCEPT ![p] = Resting]
      BY <1>3 DEF Announces, Proceeds, Ends, Goes
    <3>2. handlers'[p].at \in {"look", "idle"}
      BY <1>1, <3>1, InvariantTypes DEF Handler, Resting
    <3> QED
      BY <3>2 DEF Starts
  <2>12. \A b \in Actors : Starts(handlers'[b]) =>
           b # p /\ Starts(handlers[b]) /\ handlers'[b].match = handlers[b].match
    BY <1>1, <2>6, <2>11 DEF HandlersKeep, HandlerKeeps
  <2>13. match' = match /\ status' = status /\ people' = people
    BY <1>1 DEF game
  <2> HIDE DEF h
  <2>14. UnusedIds' = UnusedIds \ {s} /\ s \in UnusedIds /\ UnusedIds \in SUBSET SessionIds
    BY <2>1, <2>4 DEF Store!Exists, UnusedIds
  <2>15. IdsSuffice'
    <3>1. Starting' \in SUBSET (Starting \ {p}) /\ Starting \in SUBSET Actors
      BY <2>12 DEF Starting, Starts
    <3>2. /\ Cardinality(UnusedIds') = Cardinality(UnusedIds) - 1 /\ Cardinality(UnusedIds) \in Nat
          /\ Cardinality(Starting \ {p}) = Cardinality(Starting) - 1 /\ Cardinality(Starting) \in Nat
      BY <2>10, <2>14, <3>1, Counts, FS_RemoveElement
    <3>3. Cardinality(Starting') <= Cardinality(Starting \ {p}) /\ Cardinality(Starting') \in Nat
      BY <3>1, Counts, FS_Subset
    <3>4. match \in Nat /\ MaxMatches \in Nat
      BY BoundsAreNumbers, InvariantTypes
    <3>5. Cardinality(UnusedIds) >= Cardinality(Starting) + (MaxMatches - match)
      BY DEF SessionsInv, IdsSuffice
    <3>6. Cardinality(UnusedIds') >= Cardinality(Starting') + (MaxMatches - match')
      BY <2>13, <3>2, <3>3, <3>4, <3>5
    <3>7. ASSUME NEW t \in SessionIds PROVE serves'[t] <= match'
      <4>1. serves[t] <= match
        BY DEF SessionsInv, IdsSuffice
      <4> QED
        BY <2>7, <2>10, <2>13, <3>4, <4>1
    <3>8. \A b \in Actors : Starts(handlers'[b]) => handlers'[b].match <= match'
      BY <2>12, <2>13 DEF SessionsInv, IdsSuffice
    <3> QED
      BY <3>6, <3>7, <3>8 DEF IdsSuffice
  <2>16. SeatsFit'
    <3> SUFFICES ASSUME status = "playing"
                 PROVE  /\ \A b \in Actors : Starts(handlers'[b]) /\ handlers'[b].match = match =>
                             handlers'[b].people = people
                        /\ \A t \in SessionIds : Running(t)' /\ serves'[t] = match =>
                             sessions'[t].humans = people
      BY <2>13 DEF SeatsFit
    <3>1. /\ \A b \in Actors : Starts(handlers[b]) /\ handlers[b].match = match =>
               handlers[b].people = people
          /\ \A t \in SessionIds : Running(t) /\ serves[t] = match => sessions[t].humans = people
      BY DEF SessionsInv, SeatsFit
    <3>2. \A b \in Actors : Starts(handlers'[b]) /\ handlers'[b].match = match =>
            handlers'[b].people = people
      BY <2>6, <3>1 DEF HandlersKeep, HandlerKeeps
    <3>3. h.match = match => h.people = people
      BY <1>1, <3>1 DEF h
    <3>4. ASSUME NEW t \in SessionIds, Running(t)', serves'[t] = match
          PROVE  sessions'[t].humans = people
      <4>1. CASE t = s
        <5>1. h.match = match
          BY <2>7, <3>4, <4>1
        <5> QED
          BY <2>4, <3>3, <4>1, <5>1
      <4>2. CASE t # s
        BY <2>4, <2>7, <3>1, <3>4, <4>2 DEF Running, Store!Exists
      <4> QED
        BY <4>1, <4>2
    <3> QED
      BY <3>2, <3>4
  <2>17. SnapshotsFit'
    <3>1. ASSUME NEW b \in Actors, Builds(handlers'[b]) PROVE BuildFits(handlers[b])'
      <4>1. handlers'[b] = handlers[b] /\ BuildFits(handlers[b])
        BY <2>6, <3>1 DEF HandlersKeep, HandlerKeeps, SessionsInv, SnapshotsFit
      <4>2. handlers[b].session # s
        BY <2>1, <4>1 DEF BuildFits
      <4> QED
        BY <1>1, <2>4, <4>1, <4>2 DEF BuildFits, Store!Exists
    <3>2. handlers' = [b \in Actors |-> handlers'[b]] /\ \A t \in SessionIds : shown'[t] <= edits'
      BY <1>1, <2>6 DEF SessionsInv, SnapshotsFit
    <3>3. \A b \in Actors : Builds(handlers'[b]) => handlers'[b] = handlers[b]
      BY <2>6 DEF HandlersKeep, HandlerKeeps
    <3> QED
      BY <3>1, <3>2, <3>3 DEF SnapshotsFit
  <2> QED
    BY <2>5, <2>9, <2>15, <2>16, <2>17, StoreStepKeeps DEF SessionsInv
<1> QED
  BY <1>2, <1>3 DEF OpenSession

-----------------------------------------------------------------------------
(* Snapshots *)

\* A step that only gives one handler what it has read.
LEMMA ReadsKeep ==
  ASSUME SessionsInv, NEW a \in Actors, NEW h \in Handler, Goes(a, h),
         UNCHANGED <<game, platform, joined, edits, history>>,
         ~Starts(h), Builds(h), BuildFits(h)
  PROVE  SessionsInv'
<1>1. handlers \in [Actors -> Handler] /\ handlers' = [handlers EXCEPT ![a] = h]
  BY InvariantTypes DEF Goes
<1>2. /\ handlers' \in [Actors -> Handler] /\ handlers'[a] = h
      /\ \A b \in Actors : b # a => handlers'[b] = handlers[b]
  BY <1>1
<1>3. /\ UNCHANGED <<status, people, match, sessions, joined, edits, shown, serves, told>>
      /\ StoreMoves /\ SessionsKeep /\ TableTyped'
  BY InvariantTypes, QuietStore, QuietTable DEF game, platform, history
<1>4. Typed'
  BY <1>2, <1>3, InvariantTypes DEF Typed, TableTyped
<1>5. \A b \in Actors : Starts(handlers'[b]) => b # a /\ handlers'[b] = handlers[b]
  BY <1>2
<1>6. IdsSuffice'
  <2>1. \A s \in SessionIds : Store!Exists(s)' <=> Store!Exists(s)
    BY <1>3 DEF Store!Exists
  <2> QED
    BY <1>3, <1>5, <2>1, IdsKept
<1>7. SeatsFit'
  <2>1. SeatsFit /\ \A s \in SessionIds : Running(s)' <=> Running(s)
    BY <1>3 DEF SessionsInv, Running, Store!Exists
  <2> QED
    BY <1>3, <1>5, <2>1 DEF SeatsFit
<1>8. SnapshotsFit'
  <2>1. \A g : BuildFits(g) => g.session \in SessionIds /\ Store!Exists(g.session)'
    BY <1>3 DEF BuildFits, Store!Exists
  <2>2. ASSUME NEW b \in Actors, Builds(handlers'[b])
        PROVE  /\ BuildFits(handlers'[b])
    BY <1>2, <2>2 DEF SessionsInv, SnapshotsFit
  <2> QED
    BY <1>3, <2>1, <2>2 DEF SessionsInv, SnapshotsFit, BuildFits
<1> QED
  BY <1>3, <1>4, <1>6, <1>7, <1>8, StoreStepKeeps DEF SessionsInv

\* The session that the room points to is one the store knows.
LEMMA ActiveIsSession ==
  ASSUME SessionsInv, Active # NoSession
  PROVE  /\ Active \in SessionIds /\ Store!Exists(Active)
         /\ sessions[Active].stateVersion \in Nat
<1>1. P!Open(Code) /\ Active = rooms[Code].active /\ ~P!Idle(Code)
  BY DEF Active, Present, Store!Open, P!Open, P!Idle
<1>2. Active \in SessionIds
  BY <1>1 DEF SessionsInv, P!IInv, P!RoomsAreSound, P!SoundRoom, P!RoomOf
<1>3. P!Exists(Active) /\ sessions[Active] \in P!Session
  BY <1>1, <1>2 DEF SessionsInv, P!IInv, P!SessionsTyped, P!SessionsBelongToRooms, P!Exists
<1> QED
  BY <1>2, <1>3 DEF P!Session, P!Exists, Store!Exists

LEMMA LookKeeps ==
  ASSUME SessionsInv, NEW a \in Actors, Look(a)
  PROVE  SessionsInv'
<1>1. UNCHANGED <<game, platform, joined, edits, history>>
  BY DEF Look, Quietly
<1>2. CASE Closes(a)
  BY <1>1, <1>2, InvariantTypes, ClosesKeeps, QuietStore, QuietStep DEF history
<1>3. CASE /\ Active # NoSession
           /\ Goes(a, [handlers[a] EXCEPT !.at = "read", !.session = Active,
                                          !.version = sessions[Active].stateVersion])
  <2> DEFINE s == Active
             v == sessions[s].stateVersion
             h == [handlers[a] EXCEPT !.at = "read", !.session = s, !.version = v]
  <2>1. s \in SessionIds /\ Store!Exists(s) /\ v \in Nat /\ Goes(a, h)
    BY <1>3, ActiveIsSession
  <2>2. handlers[a] \in Handler /\ "read" \in Places
    BY InvariantTypes DEF Places
  <2>3. v = sessions[s].stateVersion
    OBVIOUS
  <2> HIDE DEF s, v
  <2>4. h \in Handler /\ h.at = "read" /\ h.session = s /\ h.version = v
    BY <2>1, <2>2 DEF Handler
  <2> HIDE DEF h
  <2>5. BuildFits(h) /\ Builds(h) /\ ~Starts(h)
    BY <2>1, <2>3, <2>4 DEF BuildFits, Builds, Starts
  <2> QED
    BY <1>1, <2>1, <2>4, <2>5, ReadsKeep
<1> QED
  BY <1>2, <1>3 DEF Look

LEMMA ReadKeeps ==
  ASSUME SessionsInv, NEW a \in Actors, Read(a)
  PROVE  SessionsInv'
<1>1. UNCHANGED <<game, platform, joined, edits, history>>
  BY DEF Read, Quietly
<1>2. CASE Closes(a)
  BY <1>1, <1>2, InvariantTypes, ClosesKeeps, QuietStore, QuietStep DEF history
<1>3. CASE Goes(a, [handlers[a] EXCEPT !.at = "commit", !.seen = edits])
  <2> DEFINE h == [handlers[a] EXCEPT !.at = "commit", !.seen = edits]
  <2>1. handlers[a] \in Handler /\ "commit" \in Places /\ edits \in Nat
    BY InvariantTypes DEF Places
  <2>2. /\ h \in Handler /\ h.at = "commit" /\ h.seen = edits
        /\ h.session = handlers[a].session /\ h.version = handlers[a].version
    BY <2>1 DEF Handler
  <2>3. BuildFits(handlers[a])
    BY DEF Read, At, Builds, SessionsInv, SnapshotsFit
  <2>4. Goes(a, h)
    BY <1>3
  <2> HIDE DEF h
  <2>5. shown[h.session] <= edits /\ edits <= edits
    BY <2>1, <2>2, <2>3 DEF BuildFits, SessionsInv, SnapshotsFit
  <2>6. BuildFits(h) /\ Builds(h) /\ ~Starts(h)
    BY <2>2, <2>3, <2>5 DEF BuildFits, Builds, Starts
  <2> QED
    BY <1>1, <2>2, <2>4, <2>6, ReadsKeep
<1> QED
  BY <1>2, <1>3 DEF Read

\* A commit shows the state that its handler has read, which is not older than
\* what the session shows; every other handler's version is then a past one.
LEMMA CommitShows ==
  ASSUME SessionsInv, NEW a \in Actors, Commit(a)
  PROVE  /\ \A s \in SessionIds : shown'[s] >= shown[s]
         /\ SessionsInv'
<1> DEFINE h == handlers[a]
           s == h.session
           v == h.version
<1>1. UNCHANGED <<game, joined, edits, serves, told>> /\ Closes(a)
  BY DEF Commit
<1>2. handlers' \in [Actors -> Handler] /\ HandlersKeep
  BY <1>1, InvariantTypes, ClosesKeeps
<1>3. h \in Handler /\ BuildFits(h) /\ h.at = "commit"
  BY InvariantTypes DEF Commit, At, Builds, SessionsInv, SnapshotsFit
<1>4. CASE UNCHANGED <<platform, shown>>
  <2>1. SessionsInv'
    BY <1>1, <1>2, <1>4, InvariantTypes, QuietStore, QuietStep
  <2>2. \A t \in SessionIds : shown'[t] = shown[t] /\ shown[t] \in Nat
    BY <1>4, InvariantTypes
  <2> QED
    BY <2>1, <2>2
<1>5. CASE /\ Store!CommitSnapshot(s, v) /\ sessions[s].stateVersion = v
           /\ shown' = [shown EXCEPT ![s] = h.seen]
  <2>1. s \in SessionIds /\ v \in Nat /\ h.seen \in Nat /\ h.seen <= edits /\ edits \in Nat
    BY <1>3, InvariantTypes DEF Handler, BuildFits
  <2>2. shown[s] <= h.seen
    BY <1>3, <1>5 DEF BuildFits
  <2>3. P!CommitSnapshot(s, v) /\ P!Next
    BY <1>5, <2>1, CommitIsStores
  <2>4. /\ sessions[s] # NoSession /\ sessions'[s] # NoSession
        /\ sessions'[s].status = sessions[s].status
        /\ sessions'[s].humans = sessions[s].humans
        /\ sessions'[s].stateVersion = v + 1
        /\ \A t \in SessionIds : t # s => sessions'[t] = sessions[t]
    BY <2>1, <2>3, StoreAssumptions, P!CommitSnapshotWrites DEF SessionsInv
  <2>5. sessions[s].stateVersion = v
    BY <1>5
  <2> HIDE DEF s, v, h
  <2>6. /\ shown' \in [SessionIds -> Nat] /\ shown'[s] = h.seen
        /\ \A t \in SessionIds : t # s => shown'[t] = shown[t]
    BY <1>5, <2>1, InvariantTypes
  <2>7. \A t \in SessionIds : shown'[t] >= shown[t]
    BY <2>1, <2>2, <2>6, InvariantTypes
  <2>8. StoreMoves /\ TableTyped' /\ TableKeeps
    BY <1>1, <2>3, InvariantTypes, QuietTable DEF StoreMoves
  <2>9. /\ \A t \in SessionIds : Store!Exists(t)' <=> Store!Exists(t)
        /\ \A t \in SessionIds : Running(t)' => Running(t) /\ sessions'[t].humans = sessions[t].humans
    BY <2>4 DEF Store!Exists, Running
  <2>10. Typed'
    BY <1>1, <1>2, <2>6, <2>8, InvariantTypes DEF Typed, TableTyped
  <2>11. UNCHANGED <<status, people, match, edits, serves>>
    BY <1>1 DEF game
  <2>12. \A b \in Actors : Starts(handlers'[b]) =>
           /\ Starts(handlers[b]) /\ handlers'[b].match = handlers[b].match
           /\ handlers'[b].people = handlers[b].people
    BY <1>2 DEF HandlersKeep, HandlerKeeps
  <2>13. IdsSuffice'
    BY <2>9, <2>11, <2>12, IdsKept
  <2>14. SeatsFit'
    <3>1. SeatsFit
      BY DEF SessionsInv
    <3> QED
      BY <2>9, <2>11, <2>12, <3>1 DEF SeatsFit
  <2>15. SnapshotsFit'
    <3>1. \A t \in SessionIds : shown'[t] <= edits'
      BY <2>1, <2>6, <2>11 DEF SessionsInv, SnapshotsFit
    <3>2. ASSUME NEW b \in Actors, Builds(handlers'[b]) PROVE BuildFits(handlers[b])'
      <4>1. handlers'[b] = handlers[b] /\ BuildFits(handlers[b]) /\ handlers[b].version \in Nat
        BY <1>2, <3>2, InvariantTypes DEF HandlersKeep, HandlerKeeps, SessionsInv, SnapshotsFit, Handler
      <4>2. CASE handlers[b].session = s
        BY <2>1, <2>4, <2>5, <2>11, <4>1, <4>2 DEF BuildFits, Store!Exists
      <4>3. CASE handlers[b].session # s
        BY <2>4, <2>6, <2>11, <4>1, <4>3 DEF BuildFits, Store!Exists
      <4> QED
        BY <4>2, <4>3
    <3>3. \A b \in Actors : Builds(handlers'[b]) => handlers'[b] = handlers[b]
      BY <1>2 DEF HandlersKeep, HandlerKeeps
    <3> QED
      BY <3>1, <3>2, <3>3 DEF SnapshotsFit
  <2> QED
    BY <2>7, <2>8, <2>10, <2>13, <2>14, <2>15, StoreStepKeeps DEF SessionsInv
<1> QED
  BY <1>4, <1>5 DEF Commit

-----------------------------------------------------------------------------
(* The invariant holds always *)

LEMMA InitKeeps == Init => SessionsInv
<1> SUFFICES ASSUME Init PROVE SessionsInv
  OBVIOUS
<1>1. P!Init
  BY DEF Init, Store!Init, P!Init
<1>2. P!IInv /\ P!LedgerInv
  BY <1>1, StoreAssumptions, P!InitInvariant, P!InitLedger
<1>3. Typed
  BY RestingIsRead, BoundsAreNumbers DEF Init, Life!Init, Typed, Life!TypeOK
<1>4. \A s \in SessionIds : ~Store!Exists(s) /\ ~Running(s)
  BY DEF Init, Store!Init, Store!Exists, Running
<1>5. \A a \in Actors : ~Starts(handlers[a]) /\ ~Builds(handlers[a])
  BY RestingIsRead DEF Init
<1>6. IdsSuffice
  <2>1. UnusedIds = SessionIds
    BY <1>4 DEF UnusedIds
  <2>2. Starting = {}
    BY <1>5, StartingIsRead
  <2>3. Cardinality(Starting) = 0 /\ Cardinality(SessionIds) \in Nat /\ MaxMatches \in Nat
    BY <2>2, FS_EmptySet, Counts, BoundsAreNumbers
  <2>4. match = 0 /\ \A s \in SessionIds : serves[s] = 0
    BY DEF Init, Life!Init
  <2>5. Cardinality(UnusedIds) >= Cardinality(Starting) + (MaxMatches - match)
    BY <2>1, <2>3, <2>4, SuppliesSuffice
  <2> QED
    BY <1>5, <2>4, <2>5 DEF IdsSuffice
<1>7. SeatsFit /\ SnapshotsFit
  BY <1>4, <1>5 DEF Init, SeatsFit, SnapshotsFit
<1> QED
  BY <1>2, <1>3, <1>6, <1>7 DEF SessionsInv

LEMMA LobbyKeeps ==
  ASSUME SessionsInv, Lobby
  PROVE  SessionsInv'
<1>1. StoreMoves /\ SessionsKeep
  BY RoomChange, ExpiryIsStores, RoomStepKeeps DEF Lobby, StoreOperation
<1>2. UNCHANGED <<game, joined, handlers, edits, shown, serves>> /\ told' = told
  BY DEF Lobby, history
<1> QED
  BY <1>1, <1>2, InvariantTypes, QuietTable, QuietHandlers, PlainStep

LEMMA StutterKeeps ==
  ASSUME SessionsInv, UNCHANGED vars
  PROVE  SessionsInv'
<1>1. UNCHANGED <<game, platform, joined, handlers, edits, shown, serves>> /\ told' = told
  BY DEF vars, history
<1> QED
  BY <1>1, InvariantTypes, QuietTable, QuietHandlers, QuietStore, PlainStep

-----------------------------------------------------------------------------
(* The timers *)

\* The timers' handler sends no requests: it tells people of a move.
TimersTell == handlers[Clock].at \in {"idle", "look", "read", "commit", "finish"}

LEMMA OneHandlerMoves ==
  ASSUME NEW a \in Actors, Step(a) \/ Move(a) \/ (a \in Members /\ Request(a))
  PROVE  UNCHANGED handlers \/ \E h : Goes(a, h)
<1>1. CASE Step(a)
  <2>1. Route(a) \/ Found(a) \/ Switch(a) \/ Join(a) \/ Welcome(a) => \E h : Goes(a, h)
    BY DEF Route, Found, Switch, Join, Welcome, Proceeds, Ends
  <2>2. Leave(a) \/ Drop(a) \/ Ensure(a) \/ OpenSession(a) => \E h : Goes(a, h)
    BY DEF Leave, Drop, Ensure, OpenSession, Announces, Proceeds, Ends
  <2>3. Look(a) \/ Read(a) \/ Commit(a) \/ Finish(a) \/ Abandon(a) => \E h : Goes(a, h)
    BY DEF Look, Read, Commit, Finish, Abandon, EndActive, Closes, Proceeds, Ends
  <2> QED
    BY <1>1, <2>1, <2>2, <2>3 DEF Step
<1>2. CASE Move(a)
  BY <1>2 DEF Move
<1>3. CASE Request(a)
  BY <1>3 DEF Request, OpenRoom, JoinRoom, LeaveRoom, Disconnect, SelectGame, StartGame, ResetRoom,
     Rematch
<1> QED
  BY <1>1, <1>2, <1>3

LEMMA TimersSteps ==
  ASSUME TimersTell, Step(Clock)
  PROVE  Look(Clock) \/ Read(Clock) \/ Commit(Clock) \/ Finish(Clock)
BY DEF TimersTell, Step, At, Route, Found, Switch, Join, Welcome, Leave, Drop, Ensure, OpenSession,
   Abandon, EndActive

LEMMA TimersKeep ==
  ASSUME SessionsInv, TimersTell, [Next]_vars
  PROVE  TimersTell'
<1>1. handlers \in [Actors -> Handler] /\ Clock \in Actors /\ Clock \notin Members
  BY InvariantTypes, ActorsAreTold DEF Actors
<1>2. CASE UNCHANGED handlers
  BY <1>2 DEF TimersTell
<1>3. ASSUME NEW a \in Actors, NEW h, a # Clock, Goes(a, h) PROVE TimersTell'
  BY <1>1, <1>3 DEF TimersTell, Goes
<1>4. ASSUME NEW h, Goes(Clock, h), h.at \in {"idle", "look", "read", "commit", "finish"}
      PROVE  TimersTell'
  BY <1>1, <1>4 DEF TimersTell, Goes
<1>5. CASE Move(Clock)
  <2>1. PICK over \in BOOLEAN : Goes(Clock, [Resting EXCEPT !.at = "look", !.over = over])
    BY <1>5 DEF Move
  <2>2. [Resting EXCEPT !.at = "look", !.over = over].at = "look"
    BY DEF Resting
  <2> QED
    BY <1>4, <2>1, <2>2
<1>6. CASE Step(Clock)
  <2>1. handlers[Clock] \in Handler
    BY <1>1
  <2>2. ASSUME NEW place \in {"finish"}, Proceeds(Clock, place) PROVE TimersTell'
    <3>1. [handlers[Clock] EXCEPT !.at = place].at = place
      BY <2>1 DEF Handler
    <3> QED
      BY <1>4, <2>2, <3>1 DEF Proceeds
  <2>3. CASE Ends(Clock)
    BY <1>4, <2>3 DEF Ends, Resting
  <2>4. CASE Closes(Clock)
    BY <2>2, <2>3, <2>4 DEF Closes
  <2>5. CASE Look(Clock) \/ Read(Clock)
    <3>1. ASSUME NEW s, NEW v,
                 Goes(Clock, [handlers[Clock] EXCEPT !.at = "read", !.session = s, !.version = v])
          PROVE  TimersTell'
      <4>1. [handlers[Clock] EXCEPT !.at = "read", !.session = s, !.version = v].at = "read"
        BY <2>1 DEF Handler
      <4> QED
        BY <1>4, <3>1, <4>1
    <3>2. CASE Goes(Clock, [handlers[Clock] EXCEPT !.at = "commit", !.seen = edits])
      <4>1. [handlers[Clock] EXCEPT !.at = "commit", !.seen = edits].at = "commit"
        BY <2>1 DEF Handler
      <4> QED
        BY <1>4, <3>2, <4>1
    <3> QED
      BY <2>4, <2>5, <3>1, <3>2 DEF Look, Read
  <2> QED
    BY <1>6, <2>3, <2>4, <2>5, TimersSteps DEF Commit, Finish, EndActive
<1>7. CASE UNCHANGED vars
  BY <1>2, <1>7 DEF vars
<1>8. CASE Next
  <2>1. Lobby => UNCHANGED handlers
    BY DEF Lobby
  <2> QED
    BY <1>1, <1>2, <1>3, <1>5, <1>6, <1>8, <2>1, OneHandlerMoves, MembersAct DEF Next
<1> QED
  BY <1>7, <1>8

LEMMA StepKeeps ==
  ASSUME SessionsInv, TimersTell, NEW a \in Actors, Step(a)
  PROVE  SessionsInv'
<1>1. CASE a \in Members
  BY <1>1, RouteWelcomeKeep, MembershipKeeps, DropKeeps, EnsureKeeps, OpenSessionKeeps,
     LookKeeps, ReadKeeps, CommitShows, EndActiveKeeps DEF Step
<1>2. CASE a = Clock
  BY <1>2, TimersSteps, LookKeeps, ReadKeeps, CommitShows, EndActiveKeeps
<1> QED
  BY <1>1, <1>2 DEF Actors

LEMMA NextKeeps == SessionsInv /\ TimersTell /\ [Next]_vars => SessionsInv' /\ TimersTell'
<1> SUFFICES ASSUME SessionsInv, TimersTell, [Next]_vars PROVE SessionsInv'
  BY TimersKeep
<1>1. ASSUME NEW p \in Members, Request(p) PROVE SessionsInv'
  BY <1>1, OpenRoomKeeps, SeatRequestKeeps, DisconnectKeeps, SelectGameKeeps, StartGameKeeps
  DEF Request
<1> QED
  BY <1>1, LobbyKeeps, MoveKeeps, StepKeeps, StutterKeeps DEF Next

\* However handlers interleave, the handlers and the sessions of a match know its
\* people, and a snapshot under way is not older than the
\* one its version would replace.
THEOREM SessionsInvariance == Spec => [](SessionsInv /\ TimersTell)
<1>1. Init => TimersTell
  BY DEF Init, TimersTell, Resting, Actors
<1> QED
  BY <1>1, InitKeeps, NextKeeps, PTL DEF Spec

-----------------------------------------------------------------------------
(* Safety *)

LEMMA InvariantMeansAgreement == SessionsInv => RoomsAgree
<1> SUFFICES ASSUME SessionsInv PROVE TypeOK /\ SessionsSeatTheTable
  BY DEF RoomsAgree
<1>1. TypeOK
  <2>1. P!TypeOK
    BY StoreAssumptions, P!InvariantsImplyTypes DEF SessionsInv
  <2>2. Store!TypeOK
    BY <2>1 DEF P!TypeOK, Store!TypeOK, P!Open, Store!Open, P!RoomOf, Store!RoomOf,
       P!Member, Store!Member, P!Connections, Store!Connections, P!Session, Store!Session,
       P!Event, Store!Event
  <2> QED
    BY <2>2 DEF TypeOK, SessionsInv, Typed
<1>2. ASSUME NEW s \in SessionIds, Running(s), status = "playing", serves[s] = match
      PROVE  sessions[s].humans = people /\ Active = s
  <2>1. sessions[s].humans = people
    BY <1>2 DEF SessionsInv, SeatsFit
  <2>2. P!Open(Code) /\ rooms[Code].active = s
    BY <1>2 DEF Running, Store!Exists, P!Exists, SessionsInv, P!IInv, P!SessionsBelongToRooms
  <2> QED
    BY <2>1, <2>2 DEF Active, Present, Store!Open, P!Open
<1> QED
  BY <1>1, <1>2 DEF SessionsSeatTheTable

\* While a match is on, the session opened for it seats the people at its table
\* and is the one its room plays: the two stores do not drift apart, though each
\* handler changes one after the other.
THEOREM RoomsStayInAgreement == Spec => []RoomsAgree
BY SessionsInvariance, InvariantMeansAgreement, PTL

LEMMA ShownGrows ==
  ASSUME SessionsInv, [Next]_vars
  PROVE  \A s \in SessionIds : shown'[s] >= shown[s]
<1>1. ASSUME UNCHANGED shown PROVE \A s \in SessionIds : shown'[s] >= shown[s]
  <2>1. \A s \in SessionIds : shown'[s] = shown[s] /\ shown[s] \in Nat
    BY <1>1, InvariantTypes
  <2> QED
    BY <2>1
<1>2. ASSUME NEW p \in Members, Request(p) PROVE UNCHANGED shown
  BY <1>2 DEF Request, OpenRoom, JoinRoom, LeaveRoom, Disconnect, SelectGame, StartGame, ResetRoom,
     Rematch, history
<1>3. ASSUME NEW a \in Actors, Move(a) \/ Step(a), ~Commit(a) PROVE UNCHANGED shown
  BY <1>3 DEF Move, Step, Route, Found, Switch, Join, Welcome, Leave, Drop, Ensure, OpenSession,
     Look, Read, Finish, Abandon, EndActive, Quietly, history
<1>4. Lobby \/ UNCHANGED vars => UNCHANGED shown
  BY DEF Lobby, vars, history
<1> QED
  BY <1>1, <1>2, <1>3, <1>4, CommitShows DEF Next

\* Snapshots built at the same time and committed in any order never take a
\* session back to an older state of its game.
THEOREM SnapshotsStayInOrder == Spec => SnapshotsNeverGoBack
<1>1. SessionsInv /\ [Next]_vars => [\A s \in SessionIds : shown'[s] >= shown[s]]_vars
  BY ShownGrows
<1> QED
  BY <1>1, SessionsInvariance, PTL DEF Spec, SnapshotsNeverGoBack

-----------------------------------------------------------------------------
(* The handlers change the store by its own operations only *)

LEMMA EveryStepMoves ==
  ASSUME SessionsInv, TimersTell, [Next]_vars
  PROVE  StoreMoves
<1>1. ASSUME NEW a \in Actors, Ensure(a) \/ Welcome(a) \/ Route(a) \/ Drop(a) \/ Look(a) \/ Read(a) \/ Move(a)
      PROVE  UNCHANGED platform
  BY <1>1 DEF Ensure, Welcome, Route, Drop, Look, Read, Move
<1>2. ASSUME NEW p \in Members,
             Found(p) \/ Switch(p) \/ Join(p) \/ Leave(p) \/ OpenRoom(p) \/ Disconnect(p)
      PROVE  UNCHANGED platform \/ StoreOperation(p)
  <2>1. ~Present => NewRoomId \in RoomIds
    BY RoomIdIsLeft
  <2>2. CASE Found(p) \/ OpenRoom(p)
    BY <2>1, <2>2 DEF Found, OpenRoom, StoreOperation, Games
  <2>3. CASE Switch(p) \/ Join(p) \/ Leave(p) \/ Disconnect(p)
    BY <2>3 DEF Switch, Join, Leave, Disconnect, StoreOperation, Games
  <2> QED
    BY <1>2, <2>2, <2>3
<1>3. ASSUME NEW p \in Members, Request(p)
      PROVE  UNCHANGED platform \/ StoreOperation(p)
  <2>1. JoinRoom(p) \/ LeaveRoom(p) \/ StartGame(p) \/ ResetRoom(p) \/ Rematch(p)
          => UNCHANGED platform
    BY DEF JoinRoom, LeaveRoom, StartGame, ResetRoom, Rematch
  <2>2. ASSUME NEW g \in Games, SelectGame(p, g) PROVE StoreOperation(p)
    BY <2>2 DEF SelectGame, StoreOperation
  <2> QED
    BY <1>2, <1>3, <2>1, <2>2 DEF Request
<1>4. ASSUME NEW p \in Members, OpenSession(p) PROVE UNCHANGED platform \/ P!Next
  <2>1. p \in Actors /\ At(p, "open") /\ handlers[p].people \in SUBSET Members
    BY <1>4, MembersAct, InvariantTypes DEF OpenSession, Handler
  <2>2. NewSessionId \in SessionIds
    BY <2>1, SessionIsLeft
  <2> QED
    BY <1>4, <2>1, <2>2, StartSessionIsStores DEF OpenSession
<1>5. ASSUME NEW a \in Actors, Commit(a) PROVE UNCHANGED platform \/ P!Next
  <2>1. BuildFits(handlers[a]) /\ handlers[a].version \in Nat
    BY <1>5, InvariantTypes DEF Commit, At, Builds, SessionsInv, SnapshotsFit, Handler
  <2> QED
    BY <1>5, <2>1, CommitIsStores DEF Commit, BuildFits
<1>6. ASSUME NEW a \in Actors, Finish(a) \/ Abandon(a) PROVE UNCHANGED platform \/ P!Next
  BY <1>6, EndSessionIsStores DEF Finish, Abandon, EndActive
<1>7. ASSUME UNCHANGED platform \/ P!Next \/ \E p \in Members : StoreOperation(p)
      PROVE  StoreMoves
  BY <1>7, QuietStore, RoomChange DEF StoreMoves
<1>8. ASSUME NEW p \in Members, Step(p) PROVE StoreMoves
  BY <1>1, <1>2, <1>4, <1>5, <1>6, <1>7, <1>8, MembersAct DEF Step
<1>9. Step(Clock) => StoreMoves
  BY <1>1, <1>5, <1>6, <1>7, TimersSteps DEF Actors
<1>10. Lobby => StoreMoves
  BY RoomChange, ExpiryIsStores, RoomStepKeeps DEF Lobby, StoreOperation
<1>11. UNCHANGED vars => StoreMoves
  BY QuietStore DEF vars, platform
<1>12. ASSUME NEW a \in Actors, Move(a) \/ Step(a) PROVE StoreMoves
  BY <1>1, <1>7, <1>8, <1>9, <1>12 DEF Actors
<1> QED
  BY <1>3, <1>7, <1>10, <1>11, <1>12 DEF Next

\* Two stores in step by nothing but the order of calls, and yet the store of
\* rooms is used by its own operations only: what is proved of it holds here.
THEOREM HandlersImplementStore == Spec => P!Spec
<1>1. Init => P!Init
  BY DEF Init, Store!Init, P!Init
<1>2. SessionsInv /\ TimersTell /\ [Next]_vars => [P!Next]_(P!vars)
  BY EveryStepMoves DEF StoreMoves
<1> QED
  BY <1>1, <1>2, SessionsInvariance, PTL DEF Spec, P!Spec

\* While a match has its session nobody joins the room, leaves it or changes
\* seat, and a session that has ended is never changed again.
THEOREM MatchesStaySealed == Spec => P!RosterIsFrozenDuringMatch /\ P!EndedSessionsAreSealed
BY HandlersImplementStore, StoreAssumptions, P!RosterStaysFrozen, P!EndedSessionsStaySealed
=============================================================================
