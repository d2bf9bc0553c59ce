---------------------------- MODULE MCPokerTable ----------------------------
(* Instances of PokerTable for TLC. *)
EXTENDS PokerTable, TLC

CONSTANTS Bank,      \* chips on a table of everybody
          DeepBank   \* chips on a table with the last seat broke

Divisions(chips) == {s \in [Seats -> 0 .. chips] : Sum(s) = chips}

\* Every division of the bank over the seats, and of the deep bank over all but
\* the last.
MCStacks == Divisions(Bank) \cup {s \in Divisions(DeepBank) : s[N - 1] = 0}
=============================================================================
