------------------------------ MODULE GameLife ------------------------------
(***************************************************************************)
(* A room of "Who is AI" as the rest of the program sees it: the people    *)
(* at its table, and whether their game is waiting, on or over             *)
(* (internal/game/room.go, and the two calls of service.go that begin and  *)
(* end a game).  What is played, and whether AI players make up the        *)
(* numbers, is left open.  WhoIsAI implements this specification.          *)
(***************************************************************************)
EXTENDS Naturals, FiniteSets

CONSTANTS Humans, Nobody, Modes, MinHumans, MaxMatches

VARIABLES
  status, mode,
  people,    \* seated
  ahead,     \* <<p, q>> when p sits before q
  offline,   \* people whose connection is lost
  match      \* games begun

vars == <<status, mode, people, ahead, offline, match>>

TypeOK ==
  /\ status \in {"absent", "waiting", "playing", "finished"}
  /\ mode \in {"normal", "test", "solo"}
  /\ people \subseteq Humans /\ ahead \subseteq people \X people
  /\ offline \subseteq people
  /\ match \in Nat

Online == people \ offline
IsHost(p) == p \in Online /\ \A q \in Online : <<q, p>> \notin ahead

Keep(kept) == people' = kept /\ ahead' = ahead \cap (kept \X kept)
Empty == people' = {} /\ ahead' = {} /\ offline' = {} /\ mode' = "normal"

Init == /\ status = "absent" /\ mode = "normal"
        /\ people = {} /\ ahead = {} /\ offline = {} /\ match = 0

CreateRoom ==
  /\ status # "playing"
  /\ status' = "waiting" /\ Empty
  /\ UNCHANGED match

Rejoin(p) ==
  /\ status # "absent" /\ p \in people
  /\ offline' = offline \ {p}
  /\ UNCHANGED <<status, mode, people, ahead, match>>

JoinPlayer(p, m) ==
  /\ status = "waiting" /\ p \notin people
  /\ people = {} \/ mode = m
  /\ people' = people \cup {p} /\ ahead' = ahead \cup (people \X {p})
  /\ mode' = m
  /\ UNCHANGED <<status, offline, match>>

SetPlayerDisconnected(p) ==
  /\ status # "absent" /\ p \in people
  /\ offline' = offline \cup {p}
  /\ UNCHANGED <<status, mode, people, ahead, match>>

\* The room goes with its last person, unless AI players stay.
LeavePlayer(p) ==
  /\ status \in {"waiting", "finished"} /\ p \in people
  /\ \/ /\ Keep(people \ {p}) /\ offline' = offline \ {p}
        /\ UNCHANGED <<status, mode>>
     \/ people = {p} /\ status' = "absent" /\ Empty
  /\ UNCHANGED match

ResetRoomByHost(p) ==
  /\ status # "absent" /\ IsHost(p)
  /\ status' = "waiting" /\ Empty
  /\ UNCHANGED match

\* The host's name is empty when nobody is online, and so is that of somebody who
\* has not joined: he may ask for a rematch then.
PrepareRematchByHost(p) ==
  /\ status # "absent"
  /\ IsHost(p) \/ (p = Nobody /\ Online = {})
  /\ status' = "waiting" /\ Keep(Online) /\ offline' = {}
  /\ UNCHANGED <<mode, match>>

MayStart(p) ==
  /\ status \in {"waiting", "finished"}
  /\ p \in people /\ (mode # "normal" \/ IsHost(p))

\* The offline people lose their seats before the others are counted.
RefusedStart(p) ==
  /\ MayStart(p)
  /\ Keep(Online) /\ offline' = {}
  /\ UNCHANGED <<status, mode, match>>

StartGame(p) ==
  /\ MayStart(p)
  /\ IF mode = "normal" THEN Cardinality(Online) >= MinHumans ELSE Online # {}
  /\ match < MaxMatches
  /\ status' = "playing" /\ match' = match + 1
  /\ Keep(Online) /\ offline' = {}
  /\ UNCHANGED mode

\* A vote of TeamVote or MissionVote that decides the game.
EndGame ==
  /\ status = "playing"
  /\ status' = "finished"
  /\ UNCHANGED <<mode, people, ahead, offline, match>>

Next ==
  \/ CreateRoom \/ EndGame
  \/ \E p \in Humans :
       \/ Rejoin(p) \/ \E m \in Modes : JoinPlayer(p, m)
       \/ SetPlayerDisconnected(p) \/ LeavePlayer(p)
       \/ ResetRoomByHost(p) \/ RefusedStart(p) \/ StartGame(p)
  \/ \E p \in Humans \cup {Nobody} : PrepareRematchByHost(p)

Spec == Init /\ [][Next]_vars
=============================================================================
