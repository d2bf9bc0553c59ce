---------------------------- MODULE MCGameTimers ----------------------------
(* Instances of GameTimers for TLC: two to a table, rules scaled down. *)
EXTENDS GameTimers, WhoIsAILife, TLC

TwoTeams == 2 :> <<1, 2>>
NoInfiltrators == [n \in MinPlayers .. MaxPlayers |-> 0]
=============================================================================
