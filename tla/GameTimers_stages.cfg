\* One game, in either line-up of two that two people and an AI player make;
\* anybody may stop to move, or lose the connection, at any time.
SPECIFICATION FairTimersSpec
CONSTANTS
  Humans = {h1, h2}
  Nobody = Nobody
  Bots = {1}
  Modes = {"normal"}
  MinHumans = 1
  MinPlayers = 2
  MaxPlayers = 2
  MaxRounds = 2
  MissionsToWin = 2
  MaxRejections = 2
  TeamSizes <- TwoTeams
  UsualPlayers = 2
  Infiltrators <- NoInfiltrators
  MaxMatches = 1
  MaxResults = 4
  MaxStreak = 6
  MaxJobs = 2
  MaxTimers = 1
INVARIANTS GamesAreTimed
PROPERTIES GamesEnd KeepsLife
