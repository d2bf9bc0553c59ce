\* Two people, one of whom may stay away while the other deals the next hand; a clock, a
\* ticker and a database that go on.
SPECIFICATION FairSpec
CONSTANTS
  Codes = {c1}
  RoomIds = {i1}
  Members = {ann, bob}
  SessionIds = {s1, s2}
  NoRoom = NoRoom  NoSession = NoSession
  Holdem = Holdem
  MaxPlayers = 2
  NoTable = NoTable  NoRecord = NoRecord  NoView = NoView
  MaxVersion = 6
  MaxTurns = 4
  Absentees = {bob}
PROPERTIES AbandonedSeatsAreFreed SettlementsComplete
