\* One room, two people (or one and a bot): two hands, lost answers, late and
\* repeated requests, absences, and a database that fails with or without saving.
SPECIFICATION Spec
CONSTANTS
  Codes = {c1}
  RoomIds = {i1}
  Members = {ann, bob}
  SessionIds = {s1, s2}
  NoRoom = NoRoom  NoSession = NoSession
  Holdem = Holdem
  MaxPlayers = 2
  NoTable = NoTable  NoRecord = NoRecord  NoView = NoView
  MaxVersion = 7
  MaxTurns = 3
  Absentees = {ann, bob}
SYMMETRY RoomSymmetry
INVARIANTS SettlementIsFaithful HandsAreKept EveryHandIsRecorded
PROPERTIES ActionsMeetTheirTurn
