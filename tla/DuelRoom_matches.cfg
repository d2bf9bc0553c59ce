\* Two people and two duel games: one room, its members coming, going and changing
\* the game, while two handlers run step by step and start up to two matches.
CONSTANTS
  Codes = {c1}
  RoomIds = {r1}
  Members = {m1, m2}
  SessionIds = {s1, s2}
  DuelGames = {bean, sumo}
  Styles = {swift}
  Requests = {q1, q2}
  NoSession = NoSession  NoDuel = NoDuel  NoResult = NoResult  NoRoom = NoRoom
  NoMember = NoMember  NoCopy = NoCopy  NoData = NoData
  MaxTrips = 4
  MaxRequests = 3
SPECIFICATION FairSpec
CHECK_DEADLOCK FALSE
INVARIANTS MatchesAreKept FinishedMatchesHaveResults
PROPERTIES MatchesEnd
