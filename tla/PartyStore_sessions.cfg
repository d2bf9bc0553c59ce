\* Two codes and two room ids: a code is used again after its room has died,
\* and sessions of live, dead and re-founded rooms lie next to each other.
CONSTANTS
  Codes = {c1, c2}
  RoomIds = {r1, r2}
  Members = {m1, m2}
  m1 = m1  m2 = m2  m3 = m3
  duel = duel  party = party  table = table
  Games = {party}
  Catalogue <- MCCatalogue
  SessionIds = {s1, s2}
  Actors = {}
  ActionIds = {}
  NoRoom = NoRoom  NoSession = NoSession  NoAction = NoAction
  MaxVersion = 0
  MaxEvents = 0
SPECIFICATION Spec
SYMMETRY SessionSymmetry
INVARIANTS SessionsBelongToRooms SequencesAreDense
PROPERTIES KeepsContract
