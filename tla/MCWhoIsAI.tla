----------------------------- MODULE MCWhoIsAI -----------------------------
(* Instances of WhoIsAI for TLC: three to a table, rules scaled down. *)
EXTENDS WhoIsAI, TLC

SmallTeams == 3 :> <<1, 2, 2>> @@ 4 :> <<2, 2>>
OneInfiltrator == [n \in MinPlayers .. MaxPlayers |-> 1]
HumansAreAlike == Permutations(Humans)
=============================================================================
