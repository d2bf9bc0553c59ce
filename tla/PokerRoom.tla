----------------------------- MODULE PokerRoom -----------------------------
(***************************************************************************)
(* The poker service (internal/poker/service.go Service) on top of the     *)
(* store of social rooms (PartyStore), a table (PokerHand) and the records *)
(* of settled hands (records.go Records, a database).  One mutex covers    *)
(* each request and each tick, so each is one action.                      *)
(*                                                                         *)
(* A request from a member first marks him as seen and online, whatever    *)
(* comes of it; a refused request is therefore a Poll.  Clients poll for   *)
(* the state and base their requests on what they saw last: an answer that *)
(* is lost, or a request that is late or sent twice, acts on an old view.  *)
(***************************************************************************)
EXTENDS Integers, FiniteSets

CONSTANTS
  Codes, RoomIds, Members, SessionIds, NoRoom, NoSession,  \* as in PartyStore
  Holdem,      \* the id of this game in the catalogue
  MaxPlayers,  \* seats at a table, 9 in the code
  NoTable, NoRecord, NoView,
  MaxVersion,  \* bound on the version of a room
  MaxTurns,    \* bound on the deals and moves in a room; the last one ends its hand
  Absentees    \* bound: the members who may stay away

VARIABLES
  rooms, sessions,  \* of the store
  poker,            \* the service's room under each code, or NoTable
  saved,            \* result recorded for the hand of each session, or NoRecord
  view,             \* what each member last saw: version, session and turn
  turn              \* number of deals and moves in each room, to tell turns apart

vars == <<rooms, sessions, poker, saved, view, turn>>

Catalogue == [g \in {Holdem} |-> [status |-> "active", min |-> 1, max |-> MaxPlayers]]

\* The service uses neither snapshots nor events of the store.
Store == INSTANCE PartyStore WITH
  Games <- {Holdem}, Actors <- {}, ActionIds <- {}, NoAction <- NoRecord, MaxEvents <- 0,
  snapshots <- [s \in SessionIds |-> 0], events <- {},
  actionIDs <- [s \in SessionIds |-> {}], nextEventID <- 0

Bots == 1 .. MaxPlayers - 1
Players == Members \cup Bots
Nobody == 0
Table(c) == INSTANCE PokerHand WITH Seats <- Players, hand <- poker[c].table
Outcomes(c, solvent) == Table(c)!Outcomes(solvent)

-----------------------------------------------------------------------------
(* Records *)

\* Where now stands to moveAfter and deadline; a bot is "open" from botAt on.
Clocks == {"early", "open", "due"}
\* Time since a member was seen: within 15 s, within 90 s, or longer (or never).
Ages == {"fresh", "stale", "gone"}
Hands == [status : {"playing", "done"}, actor : Players \cup {Nobody}, solvent : SUBSET Players]
Record == [session : SessionIds, result : SUBSET Players]
Room == [target : 2 .. MaxPlayers, table : Hands \cup {NoTable}, version : Nat,
         session : SessionIds \cup {NoSession}, clock : Clocks, seen : [Members -> Ages],
         pending : Record \cup {NoRecord}, retry : {"none", "waiting", "due"}]
View == [version : Nat, session : SessionIds \cup {NoSession}, turn : Nat]

ASSUME FiniteSupplies == IsFiniteSet(Members) /\ IsFiniteSet(SessionIds)
ASSUME BoundsAreNaturals ==
  MaxPlayers \in Nat /\ MaxPlayers >= 2 /\ MaxVersion \in Nat /\ MaxTurns \in Nat
ASSUME PlayersAreDistinct == Members \cap (Bots \cup {Nobody}) = {}
ASSUME NullsAreDistinct ==
  /\ NoSession \notin SessionIds \cup Store!Session
  /\ \A people \in SUBSET Members : NoRoom \notin Store!RoomOf(people) /\ NoSession # people
  /\ NoTable \notin Room \cup Hands
  /\ NoRecord \notin Record /\ \A result \in SUBSET Players : NoRecord # result
  /\ NoView \notin View

TypeOK ==
  /\ Store!TypeOK
  /\ poker \in [Codes -> Room \cup {NoTable}]
  /\ saved = [s \in SessionIds |-> saved[s]]
  /\ \A s \in SessionIds : saved[s] = NoRecord \/ saved[s] \in SUBSET Players
  /\ view \in [Members -> View \cup {NoView}]
  /\ turn \in [Codes -> Nat]

Open(c) == Store!Open(c)
Served(c) == poker[c] # NoTable
Seated(c) == Served(c) /\ poker[c].table # NoTable
InPlay(c) == Seated(c) /\ poker[c].table.status = "playing"
HandDone(c) == Seated(c) /\ poker[c].table.status = "done"
Settling(c) == Served(c) /\ poker[c].pending # NoRecord
IsMember(c, m) == Open(c) /\ m \in Store!Roster(rooms[c])

-----------------------------------------------------------------------------
(* Helpers *)

Online(room, m) == [room EXCEPT !.members[m].conn = "online"]
Seen(r, m) == [r EXCEPT !.seen[m] = "fresh"]
Bumped(r) == [r EXCEPT !.version = @ + 1]

\* The room and the session once FinishSession has run.
Freed(room) == [room EXCEPT !.active = NoSession, !.status = "open"]

\* savePending: the database saves the hand once (ON CONFLICT DO NOTHING) and
\* the session is finished; or it reports a failure, whether or not the
\* transaction was committed, and the settlement is kept for a retry.
Recorded(record) == [saved EXCEPT ![record.session] = IF @ = NoRecord THEN record.result ELSE @]

\* Faulty variants, each named for its fault, stand before the definition they
\* vary; no specification uses them.
SaveOnlyOnce(c, r, room, allSessions) ==
  /\ saved' \in {saved, Recorded(r.pending)}
  /\ poker' = [poker EXCEPT ![c] = [r EXCEPT !.pending = NoRecord]]
  /\ rooms' = [rooms EXCEPT ![c] = IF saved' = saved THEN room ELSE Freed(room)]
  /\ sessions' = IF saved' = saved THEN allSessions
                 ELSE [allSessions EXCEPT ![room.active].status = "finished"]

FinishBeforeSaving(c, r, room, allSessions) ==
  /\ saved' \in {saved, Recorded(r.pending)}
  /\ poker' = [poker EXCEPT ![c] = [r EXCEPT !.retry = "waiting"]]
  /\ rooms' = [rooms EXCEPT ![c] = Freed(room)]
  /\ sessions' = [allSessions EXCEPT ![r.session].status = "finished"]

SavePending(c, r, room, allSessions) ==
  \/ /\ saved' = Recorded(r.pending)
     /\ poker' = [poker EXCEPT ![c] = Bumped([r EXCEPT !.pending = NoRecord, !.retry = "none"])]
     /\ rooms' = [rooms EXCEPT ![c] = Freed(room)]
     /\ sessions' = [allSessions EXCEPT ![room.active].status = "finished"]
  \/ /\ saved' \in {saved, Recorded(r.pending)}
     /\ poker' = [poker EXCEPT ![c] = [r EXCEPT !.retry = "waiting"]]
     /\ rooms' = [rooms EXCEPT ![c] = room]
     /\ sessions' = allSessions

\* The table stands at "hand" after a deal or a move: wait for the next player,
\* or capture the settlement and save it (afterAction, startHand, finishHand).
GoesOn(c, r, hand, clock, room, allSessions) ==
  LET next == Bumped([r EXCEPT !.table = hand, !.clock = clock])
  IN  /\ turn[c] < MaxTurns
      /\ turn' = [turn EXCEPT ![c] = @ + 1]
      /\ turn[c] + 1 = MaxTurns => hand.status = "done"
      /\ IF hand.status = "playing"
         THEN /\ poker' = [poker EXCEPT ![c] = next]
              /\ rooms' = [rooms EXCEPT ![c] = room]
              /\ sessions' = allSessions
              /\ UNCHANGED saved
         ELSE SavePending(c, [next EXCEPT !.pending = [session |-> r.session,
                                                       result |-> hand.solvent]],
                          room, allSessions)

\* Ids are opaque, so it does not matter which of the unused ones is next.
NewSessionId == CHOOSE s \in SessionIds : ~Store!Exists(s)

\* startHand by the host: open a session for the players with chips and deal.
StartHand(c, r, solvent, room) ==
  /\ Cardinality(solvent) \in 2 .. MaxPlayers
  /\ room.active = NoSession
  /\ solvent \cap Members \subseteq Store!Roster(room)
  /\ \E s \in SessionIds : ~Store!Exists(s)  \* bound on the sessions
  /\ \E hand \in Outcomes(c, solvent) :
       GoesOn(c, [r EXCEPT !.session = NewSessionId], hand, "open",
                 [room EXCEPT !.active = NewSessionId, !.status = "in_game"],
                 [sessions EXCEPT ![NewSessionId] =
                    [room |-> room.id, game |-> Holdem, sequence |-> Store!NextSequence(room.id),
                     status |-> "running", humans |-> solvent \cap Members, stateVersion |-> 0]])

-----------------------------------------------------------------------------
(* Requests *)

Init ==
  /\ rooms = [c \in Codes |-> NoRoom]
  /\ sessions = [s \in SessionIds |-> NoSession]
  /\ poker = [c \in Codes |-> NoTable]
  /\ saved = [s \in SessionIds |-> NoRecord]
  /\ view = [m \in Members |-> NoView]
  /\ turn = [c \in Codes |-> 0]

Create(c, m, id, target) ==
  /\ Store!CreateRoom(c, m, Holdem, id)
  /\ poker' = [poker EXCEPT ![c] =
       [target |-> target, table |-> NoTable, version |-> 1, session |-> NoSession,
        clock |-> "open", seen |-> [x \in Members |-> IF x = m THEN "fresh" ELSE "gone"],
        pending |-> NoRecord, retry |-> "none"]]
  /\ UNCHANGED <<saved, view, turn>>

Join(c, m) ==
  /\ Served(c) /\ Open(c)
  /\ poker[c].version < MaxVersion
  /\ IsMember(c, m) \/ (~Seated(c) /\ Cardinality(Store!Roster(rooms[c])) < poker[c].target)
  /\ Store!Rejoin(c, m) \/ Store!Enter(c, m)
  /\ poker' = [poker EXCEPT ![c] = Bumped(Seen(@, m))]
  /\ UNCHANGED <<saved, view, turn>>

\* A member's request starts by marking him as seen and online.
Request(c, m) == Served(c) /\ IsMember(c, m) /\ poker[c].version < MaxVersion
AtTable(c, m) == Seen(poker[c], m)
InRoom(c, m) == Online(rooms[c], m)

\* The state request, and every request that is refused.  The answer may be
\* lost; one that comes with any other request is left to a Poll after it.
Poll(c, m) ==
  /\ Request(c, m)
  /\ poker' = [poker EXCEPT ![c] = AtTable(c, m)]
  /\ rooms' = [rooms EXCEPT ![c] = InRoom(c, m)]
  /\ view' \in {view, [view EXCEPT ![m] = [version |-> poker[c].version,
                                           session |-> poker[c].session, turn |-> turn[c]]]}
  /\ UNCHANGED <<sessions, saved, turn>>

Configure(c, m, target) ==
  /\ Request(c, m)
  /\ rooms[c].host = m /\ ~Seated(c)
  /\ Cardinality(Store!Roster(rooms[c])) <= target
  /\ poker' = [poker EXCEPT ![c] = Bumped([AtTable(c, m) EXCEPT !.target = target])]
  /\ rooms' = [rooms EXCEPT ![c] = InRoom(c, m)]
  /\ UNCHANGED <<sessions, saved, view, turn>>

StartTable(c, m) ==
  LET r == AtTable(c, m)
      people == Store!Roster(rooms[c])
  IN  /\ Request(c, m) /\ ~Settling(c)
      /\ rooms[c].host = m /\ ~Seated(c)
      /\ view[m] # NoView /\ view[m].version = r.version
      /\ Cardinality(people) <= r.target
      /\ \A p \in people : r.seen[p] = "fresh"
      /\ StartHand(c, r, people \cup 1 .. r.target - Cardinality(people), InRoom(c, m))
      /\ poker'[c].table.status = "playing"  \* stacks of 1,000 outlast the blinds
      /\ UNCHANGED view

NextHand(c, m) ==
  LET r == AtTable(c, m)
  IN  /\ Request(c, m) /\ ~Settling(c)
      /\ rooms[c].host = m /\ HandDone(c)
      /\ view[m] # NoView /\ view[m].version = r.version /\ view[m].session = r.session
      /\ StartHand(c, r, r.table.solvent, InRoom(c, m))
      /\ UNCHANGED view

LobbyWhileSettling(c, m) ==
  /\ Request(c, m)
  /\ rooms[c].host = m /\ ~InPlay(c)
  /\ poker' = [poker EXCEPT ![c] =
       Bumped([AtTable(c, m) EXCEPT !.table = NoTable, !.session = NoSession])]
  /\ rooms' = [rooms EXCEPT ![c] = InRoom(c, m)]
  /\ UNCHANGED <<sessions, saved, view, turn>>

Lobby(c, m) ==
  /\ Request(c, m) /\ ~Settling(c)
  /\ rooms[c].host = m /\ ~InPlay(c)
  /\ poker' = [poker EXCEPT ![c] =
       Bumped([AtTable(c, m) EXCEPT !.table = NoTable, !.session = NoSession])]
  /\ rooms' = [rooms EXCEPT ![c] = InRoom(c, m)]
  /\ UNCHANGED <<sessions, saved, view, turn>>

ActionOnAnyVersion(c, m) ==
  LET r == AtTable(c, m)
  IN  /\ Request(c, m)
      /\ InPlay(c) /\ r.table.actor = m
      /\ view[m] # NoView /\ view[m].session = r.session
      /\ r.clock = "open"
      /\ \E hand \in Outcomes(c, r.table.solvent) :
           GoesOn(c, r, hand, "early", InRoom(c, m), sessions)
      /\ UNCHANGED view

Action(c, m) ==
  LET r == AtTable(c, m)
  IN  /\ Request(c, m)
      /\ InPlay(c) /\ r.table.actor = m
      /\ view[m] # NoView /\ view[m].version = r.version /\ view[m].session = r.session
      /\ r.clock = "open"
      /\ \E hand \in Outcomes(c, r.table.solvent) :
           GoesOn(c, r, hand, "early", InRoom(c, m), sessions)
      /\ UNCHANGED view

Leave(c, m) ==
  /\ Request(c, m) /\ ~Settling(c) /\ ~InPlay(c)
  /\ rooms[c].active = NoSession
  /\ rooms' = [rooms EXCEPT ![c] = Store!Release(InRoom(c, m), {m})]
  /\ poker' = [poker EXCEPT ![c] =
       Bumped([@ EXCEPT !.seen[m] = "gone", !.table = NoTable, !.session = NoSession])]
  /\ UNCHANGED <<sessions, saved, view, turn>>

-----------------------------------------------------------------------------
(* The ticker *)

\* The store has deleted the room.
Forget(c) ==
  /\ Served(c) /\ ~Open(c)
  /\ poker' = [poker EXCEPT ![c] = NoTable]
  /\ UNCHANGED <<rooms, sessions, saved, view, turn>>

RetryTooEarly(c) ==
  /\ Served(c) /\ Open(c) /\ Settling(c)
  /\ poker[c].retry = "none"
  /\ SavePending(c, poker[c], rooms[c], sessions)
  /\ UNCHANGED <<view, turn>>

Retry(c) ==
  /\ Served(c) /\ Open(c) /\ Settling(c)
  /\ poker[c].retry # "waiting"
  /\ SavePending(c, poker[c], rooms[c], sessions)
  /\ UNCHANGED <<view, turn>>

Serviced(c) == Served(c) /\ Open(c) /\ ~Settling(c)

\* The room with the members unseen for 15 s marked as offline.
Marked(c) ==
  [rooms[c] EXCEPT !.members = [m \in Store!Roster(rooms[c]) |->
     [rooms[c].members[m] EXCEPT !.conn =
        IF @ = "online" /\ poker[c].seen[m] # "fresh" THEN "offline" ELSE @]]]

AutoMoveOfBots(c) ==
  /\ Serviced(c) /\ InPlay(c)
  /\ poker[c].clock = "open" /\ poker[c].table.actor \in Bots
  /\ \E hand \in Outcomes(c, poker[c].table.solvent) :
       GoesOn(c, poker[c], hand, "early", Marked(c), sessions)
  /\ UNCHANGED view

\* A bot acts when its time has come, and anybody whose time is up is acted for.
AutoMove(c) ==
  /\ Serviced(c) /\ InPlay(c)
  /\ poker[c].clock = "due" \/ (poker[c].clock = "open" /\ poker[c].table.actor \in Bots)
  /\ \E hand \in Outcomes(c, poker[c].table.solvent) :
       GoesOn(c, poker[c], hand, "early", Marked(c), sessions)
  /\ UNCHANGED view

Gone(c) == {m \in Store!Roster(rooms[c]) : poker[c].seen[m] = "gone"}

\* No hand is played: seats unseen for 90 s are given up, and the table with them.
Reclaim(c) ==
  /\ Serviced(c) /\ ~InPlay(c) /\ Gone(c) # {}
  /\ rooms' = [rooms EXCEPT ![c] = IF @.active = NoSession THEN Store!Release(Marked(c), Gone(c))
                                   ELSE Marked(c)]
  /\ poker' = [poker EXCEPT ![c].table = NoTable,
                            ![c].version = @ + Cardinality(Gone(c))]
  /\ UNCHANGED <<sessions, saved, view, turn>>

\* A tick that finds nothing to do but to mark who is offline.
MarkOffline(c) ==
  /\ Serviced(c)
  /\ IF InPlay(c) THEN poker[c].clock # "due" /\ (poker[c].clock = "open" => poker[c].table.actor \in Members)
     ELSE Gone(c) = {}
  /\ rooms' = [rooms EXCEPT ![c] = Marked(c)]
  /\ UNCHANGED <<sessions, poker, saved, view, turn>>

Tick(c) == Forget(c) \/ Retry(c) \/ AutoMove(c) \/ Reclaim(c) \/ MarkOffline(c)

-----------------------------------------------------------------------------
(* Time, and the other users of the store *)

TurnClock(c) ==
  /\ InPlay(c) /\ poker[c].clock # "due"
  /\ poker[c].clock = "open" => poker[c].table.actor \in Members
  /\ poker' = [poker EXCEPT ![c].clock = IF @ = "early" THEN "open" ELSE "due"]
  /\ UNCHANGED <<rooms, sessions, saved, view, turn>>

RetryClock(c) ==
  /\ Settling(c) /\ poker[c].retry = "waiting"
  /\ poker' = [poker EXCEPT ![c].retry = "due"]
  /\ UNCHANGED <<rooms, sessions, saved, view, turn>>

SeenClock(c, m) ==
  /\ m \in Absentees
  /\ Served(c) /\ poker[c].seen[m] # "gone"
  /\ poker' = [poker EXCEPT ![c].seen[m] = IF @ = "fresh" THEN "stale" ELSE "gone"]
  /\ UNCHANGED <<rooms, sessions, saved, view, turn>>

\* The store's own 90 s run from the moment the service marked the member, 15 s
\* after the service's; in an idle room the ticker takes the seat before.
StoreClock(c, m) ==
  /\ InPlay(c) \/ Settling(c)
  /\ poker[c].seen[m] = "gone"
  /\ Store!GraceElapses(c, m)
  /\ UNCHANGED <<poker, saved, view, turn>>

\* Somebody lists the public lobby.
ListLobby == Store!ExpireOfflineMembers /\ UNCHANGED <<poker, saved, view, turn>>

Next ==
  \/ ListLobby
  \/ \E c \in Codes :
       \/ Tick(c) \/ TurnClock(c) \/ RetryClock(c)
       \/ \E m \in Members :
            \/ \E id \in RoomIds, target \in 2 .. MaxPlayers : Create(c, m, id, target)
            \/ \E target \in 2 .. MaxPlayers : Configure(c, m, target)
            \/ Join(c, m) \/ Poll(c, m) \/ StartTable(c, m) \/ NextHand(c, m)
            \/ Lobby(c, m) \/ Action(c, m) \/ Leave(c, m)
            \/ SeenClock(c, m) \/ StoreClock(c, m)

Spec == Init /\ [][Next]_vars

\* The ticker runs every 200 ms, time passes, and the database is not down for
\* ever: a settlement that is retried again and again is saved at last.  The host
\* may deal the next hand before the tick that would take a seat, and that on and
\* on: some hand is followed by a tick before the host has seen it end.
SaveSucceeds(c) == Retry(c) /\ poker'[c].pending = NoRecord

FairSpec ==
  /\ Spec
  /\ \A c \in Codes : /\ WF_vars(Tick(c)) /\ WF_vars(TurnClock(c)) /\ WF_vars(RetryClock(c))
                       /\ SF_vars(SaveSucceeds(c)) /\ SF_vars(Reclaim(c))

-----------------------------------------------------------------------------
(* Properties *)

\* A hand that is over and not yet recorded stays on the table, with its
\* session still open, until it is; and if the database did record it without
\* telling, it recorded this very result (finishHand, savePending and the
\* refusal of next, lobby and leave in handleContext).
SettlementIsFaithful ==
  \A c \in Codes : Settling(c) =>
    /\ Open(c) /\ HandDone(c)
    /\ rooms[c].active = poker[c].session
    /\ poker[c].pending = [session |-> poker[c].session, result |-> poker[c].table.solvent]
    /\ saved[poker[c].session] \in {NoRecord, poker[c].table.solvent}

\* The service and the store agree on what is going on in a room: it has an
\* active session exactly while a hand is played or settled, it is that hand's
\* session, and those it was dealt to keep their seats (startHand, Reclaim,
\* leave; neither side looks at the other's lock).
HandsHaveSessions ==
  \A c \in Codes : Open(c) =>
    /\ Served(c)
    /\ rooms[c].active # NoSession <=> InPlay(c) \/ Settling(c)
    /\ InPlay(c) => /\ rooms[c].active = poker[c].session
                    /\ poker[c].table.solvent \cap Members = sessions[poker[c].session].humans
                    /\ poker[c].table.solvent \cap Members \subseteq Store!Roster(rooms[c])

\* Both records of a hand, the service's and the store's, are what they should
\* be and say the same (startHand, tick, leave).
HandsAreKept == TypeOK /\ HandsHaveSessions

\* No hand is lost and none is recorded before it is over: a session is
\* finished only when its hand is on record, and a recorded hand's session is
\* finished or about to be (savePending saves first, then finishes).
EveryHandIsRecorded ==
  \A s \in SessionIds :
    /\ Store!Ended(s) => saved[s] # NoRecord
    /\ saved[s] # NoRecord /\ ~Store!Ended(s) =>
         \E c \in Codes : Settling(c) /\ poker[c].session = s

\* An action is applied only to the turn that its sender saw: one that is late,
\* or sent twice, never plays a later turn, nor a turn of a later hand (the
\* version and session checks of handleContext).
ActionsMeetTheirTurn ==
  [][\A c \in Codes, m \in Members : Action(c, m) => view[m].turn = turn[c]]_vars

\* Whoever stays away for 90 s loses the seat in the end, even when that
\* happens during a hand or a settlement (README.md:150; tick).
AbandonedSeatsAreFreed ==
  \A c \in Codes, m \in Members :
    (IsMember(c, m) /\ poker[c].seen[m] = "gone") ~>
      (~IsMember(c, m) \/ poker[c].seen[m] # "gone")

\* A settlement that failed is completed (docs/deployment/neon-postgres.md:50).
SettlementsComplete == \A c \in Codes : Settling(c) ~> ~Settling(c)
=============================================================================
