\* A game that is started once more while it is decided: two people and the timers.
SPECIFICATION Spec
CONSTANTS
  Code = c1
  RoomIds = {r1, r2, r3}
  Members = {m1, m2}
  SessionIds = {s1, s2}
  Clock = Clock
  WhoIsAI = WhoIsAI  OtherGame = WhoIsAI
  Catalogue <- SmallCatalogue
  NoRoom = NoRoom  NoSession = NoSession  Nobody = Nobody
  MinHumans = 1
  MaxMatches = 1
  MaxEdits = 6
INVARIANTS SettledGamesHaveNoSession
