\* Missions: one delivery at a time, a cancel, and a process that dies; two calls
\* of a server that restarts twice; a window of two requests; two days of snapshots.
CONSTANTS
  Missions = {m1}
  Jobs = {j1}
  Clients = {c1}
  MaxStarts = 2
  Outcomes = {"completed", "failed"}
  MaxCrashes = 1
  Posters = {"t1", "t2"}
  Attempts = 2
  MaxServerRestarts = 2
  ClientKeys = {"k"}
  Limit = 2
  Window = 5
  Ticks = 2
  MaxClock = 9
  Domains <- TwoDomains
  Profiles_ <- TwoProfiles
  Fetches <- SomeFetches
  MinPoints = 3
  Runners = {"cron"}
  LastDay = 2
  MaxKilledRuns = 1
  Focuses = {"missions", "sessions", "admission", "health"}
CHECK_DEADLOCK FALSE
SPECIFICATION ServicesSpec
INVARIANTS
  MissionsInv
  SessionsInv
  AdmissionInv
  HealthInv
PROPERTIES
  CancelIsFinal
  FreshSessionKept
  NoMissionHangs
  EveryPostEnds
