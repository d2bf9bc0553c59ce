---------------------------- MODULE MCPartyStore ----------------------------
(* Instances of PartyStore for TLC. *)
EXTENDS PartyStore, TLC

CONSTANTS m1, m2, m3, duel, party, table

\* Three kinds of games: a duel, a larger game bots can fill, and one that
\* the catalogue announces but does not offer.
MCCatalogue == [g \in Games |->
  CASE g = duel  -> [status |-> "active", min |-> 2, max |-> 2]
    [] g = party -> [status |-> "active", min |-> 1, max |-> 3]
    [] OTHER     -> [status |-> "coming_soon", min |-> 1, max |-> 3]]

MemberSymmetry == Permutations(Members)
SessionSymmetry == Permutations(Codes) \cup Permutations(RoomIds)
                     \cup Permutations(Members) \cup Permutations(SessionIds)
=============================================================================
