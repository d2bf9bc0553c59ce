----------------------------- MODULE PokerHand -----------------------------
(***************************************************************************)
(* What the poker service relies on at a table, whatever the bets: while a *)
(* hand is played somebody who sat down with chips is to act; a hand that  *)
(* is done waits for nobody and leaves a player with chips.                *)
(***************************************************************************)
EXTENDS Integers, FiniteSets

CONSTANTS Seats, Nobody

VARIABLE hand   \* status; seat to act; seats with chips before, or after, the hand

Hand == [status : {"idle", "playing", "done"}, actor : Seats \cup {Nobody},
         solvent : SUBSET Seats]

\* How a hand can stand after a deal or a move: somebody is to act, or it is
\* settled.
Outcomes(solvent) ==
  [status : {"playing"}, actor : solvent, solvent : {solvent}] \cup
  [status : {"done"}, actor : {Nobody}, solvent : (SUBSET solvent) \ {{}}]

Init == hand \in [status : {"idle"}, actor : {Nobody}, solvent : SUBSET Seats]

Deal == /\ hand.status # "playing"
        /\ Cardinality(hand.solvent) >= 2
        /\ hand' \in Outcomes(hand.solvent)

Move == /\ hand.status = "playing"
        /\ hand' \in Outcomes(hand.solvent)

Next == Deal \/ Move

Spec == Init /\ [][Next]_hand
=============================================================================
