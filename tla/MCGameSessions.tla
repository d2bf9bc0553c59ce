--------------------------- MODULE MCGameSessions ---------------------------
(* Instances of GameSessions for TLC. *)
EXTENDS GameSessions

SmallCatalogue ==
  [g \in Games |-> [status |-> "active", min |-> IF g = WhoIsAI THEN 1 ELSE 2, max |-> 2]]
=============================================================================
