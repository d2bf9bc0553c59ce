--------------------------- MODULE PartyContract ---------------------------
(***************************************************************************)
(* What the platform promises about rooms and matches, whatever game is    *)
(* played: a room is a set of people that plays numbered matches one at a  *)
(* time, and nobody joins or leaves while a match runs.                    *)
(***************************************************************************)
EXTENDS Naturals

CONSTANTS RoomIds, Members,
          NoMatch   \* "playing" when no match runs

VARIABLES
  roster,   \* people of each room; {} before it opens and after it closes
  playing,  \* people seated in the running match, or NoMatch
  played    \* matches the room has started

vars == <<roster, playing, played>>

Init == /\ roster = [r \in RoomIds |-> {}]
        /\ playing = [r \in RoomIds |-> NoMatch]
        /\ played = [r \in RoomIds |-> 0]

\* A room opens once: a room that has played never comes back.
Found(r, m) == /\ roster[r] = {} /\ playing[r] = NoMatch /\ played[r] = 0
               /\ roster' = [roster EXCEPT ![r] = {m}]
               /\ UNCHANGED <<playing, played>>

Join(r, m) == /\ roster[r] # {} /\ m \notin roster[r]
              /\ playing[r] = NoMatch
              /\ roster' = [roster EXCEPT ![r] = @ \cup {m}]
              /\ UNCHANGED <<playing, played>>

\* People leave, from any number of rooms at once.
Depart == /\ roster' = [r \in RoomIds |-> roster'[r]]
          /\ \A r \in RoomIds : /\ roster'[r] \subseteq roster[r]
                                /\ roster'[r] # roster[r] => playing[r] = NoMatch
          /\ UNCHANGED <<playing, played>>

StartMatch(r, people) == /\ roster[r] # {} /\ people \subseteq roster[r]
                         /\ playing[r] = NoMatch
                         /\ playing' = [playing EXCEPT ![r] = people]
                         /\ played' = [played EXCEPT ![r] = @ + 1]
                         /\ UNCHANGED roster

EndMatch(r) == /\ playing[r] # NoMatch
               /\ playing' = [playing EXCEPT ![r] = NoMatch]
               /\ UNCHANGED <<roster, played>>

Next == \/ Depart
        \/ \E r \in RoomIds : \/ EndMatch(r)
                              \/ \E m \in Members : Found(r, m) \/ Join(r, m)
                              \/ \E people \in SUBSET Members : StartMatch(r, people)

Spec == Init /\ [][Next]_vars
=============================================================================
