\* Two people with two configurations to choose from; one is changed while a match starts.
CONSTANTS
  Codes = {c1}
  RoomIds = {r1}
  Members = {m1, m2}
  SessionIds = {s1, s2}
  DuelGames = {bean}
  Styles = {swift, steady}
  Requests = {q1, q2}
  NoSession = NoSession  NoDuel = NoDuel  NoResult = NoResult  NoRoom = NoRoom
  NoMember = NoMember  NoCopy = NoCopy  NoData = NoData
  MaxTrips = 2
  MaxRequests = 3
SPECIFICATION Spec
SYMMETRY RequestSymmetry
CHECK_DEADLOCK FALSE
INVARIANTS PlayedAsFrozen
