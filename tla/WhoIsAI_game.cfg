\* Two games at one table of two people and up to two AI players, in the normal
\* mode and in the one with the debug panel.
SPECIFICATION Spec
CONSTANTS
  Humans = {h1, h2}
  Nobody = Nobody
  Bots = {1, 2}
  Modes = {"normal", "solo"}
  MinHumans = 2
  MinPlayers = 3
  MaxPlayers = 3
  MaxRounds = 3
  MissionsToWin = 2
  MaxRejections = 2
  TeamSizes <- SmallTeams
  UsualPlayers = 3
  Infiltrators <- OneInfiltrator
  MaxMatches = 2
  MaxResults = 4
  MaxStreak = 3
SYMMETRY HumansAreAlike
INVARIANTS TypeOK PlayingIsUndecided PollsAreOpen VotesAreFresh GameIsStaffed
PROPERTIES HonestTeamsSucceed
