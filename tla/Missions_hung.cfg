\* One mission, one delivery, no cancel, nothing dies.
CONSTANTS
  Missions = {m1}
  Jobs = {j1}
  Clients = {}
  MaxStarts = 1
  Outcomes = {"completed"}
  MaxCrashes = 0
  Posters = {"t1", "t2"}
  Attempts = 2
  MaxServerRestarts = 2
  ClientKeys = {"k"}
  Limit = 2
  Window = 5
  Ticks = 2
  MaxClock = 9
  Domains <- TwoDomains
  Profiles_ <- TwoProfiles
  Fetches <- SomeFetches
  MinPoints = 3
  Runners = {"cron"}
  LastDay = 2
  MaxKilledRuns = 1
  Focuses = {"missions"}
SPECIFICATION ServicesSpec
PROPERTIES
  NoThreadMissionHangs
CHECK_DEADLOCK FALSE
