\* One room and three people: every order of joining, leaving, dropping out,
\* expiring, changing the game and playing one match with its snapshots and
\* its events.
CONSTANTS
  Codes = {c1}
  RoomIds = {r1}
  Members = {m1, m2, m3}
  m1 = m1  m2 = m2  m3 = m3
  duel = duel  party = party  table = table
  Games = {duel, party, table}
  Catalogue <- MCCatalogue
  SessionIds = {s1}
  Actors = {bot}
  ActionIds = {a1}
  NoRoom = NoRoom  NoSession = NoSession  NoAction = NoAction
  MaxVersion = 2
  MaxEvents = 2
SPECIFICATION Spec
SYMMETRY MemberSymmetry
INVARIANTS TypeOK HostIsSeated SeatsAreDistinct EventsAreIdempotent RoomFitsGame HumansStaySeated
PROPERTIES RosterIsFrozenDuringMatch HostPassesToOnlineMember EndedSessionsAreSealed
