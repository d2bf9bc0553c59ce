----------------------------- MODULE MCDuelRoom -----------------------------
(* Instances of DuelRoom for TLC. *)
EXTENDS DuelRoom, TLC

RequestSymmetry == Permutations(Requests) \cup Permutations(SessionIds) \cup Permutations(Members)
=============================================================================
