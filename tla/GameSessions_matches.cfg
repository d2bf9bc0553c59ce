\* Two people and the timers in one room: up to two matches, everybody's requests
\* handled step by step.
SPECIFICATION FairSpec
CONSTANTS
  Code = c1
  RoomIds = {r1, r2, r3, r4}
  Members = {m1, m2}
  SessionIds = {s1, s2, s3}
  Clock = Clock
  WhoIsAI = WhoIsAI  OtherGame = OtherGame
  Catalogue <- SmallCatalogue
  NoRoom = NoRoom  NoSession = NoSession  Nobody = Nobody
  MinHumans = 1
  MaxMatches = 2
  MaxEdits = 5
CHECK_DEADLOCK FALSE
INVARIANTS RoomsAgree
PROPERTIES SnapshotsNeverGoBack FinishedGamesEndSessions
