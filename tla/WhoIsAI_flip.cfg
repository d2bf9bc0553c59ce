\* One game of three people and what late votes make of it.
SPECIFICATION Spec
CONSTANTS
  Humans = {h1, h2, h3}
  Nobody = Nobody
  Bots = {1}
  Modes = {"normal"}
  MinHumans = 2
  MinPlayers = 3
  MaxPlayers = 3
  MaxRounds = 3
  MissionsToWin = 2
  MaxRejections = 2
  TeamSizes <- SmallTeams
  UsualPlayers = 3
  Infiltrators <- OneInfiltrator
  MaxMatches = 1
  MaxResults = 4
  MaxStreak = 3
SYMMETRY HumansAreAlike
PROPERTIES OutcomeIsFinal
