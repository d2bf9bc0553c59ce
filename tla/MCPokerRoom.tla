---------------------------- MODULE MCPokerRoom ----------------------------
(* Instances of PokerRoom for TLC. *)
EXTENDS PokerRoom, TLC

RoomSymmetry == Permutations(Members)
=============================================================================
