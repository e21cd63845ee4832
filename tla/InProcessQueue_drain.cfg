\* Two submissions, one drive each, which share the work; heartbeats come in time.
CONSTANTS
  Runs = {r1, r2}
  Workers = {d1, d2}
  WorkerIds <- SharedIds
  WorkerId <- SharedId
  MaxAttempts = 2
  LeaseS = 2
  RetryDelay = 1
  RetryJitter = 0
  MaxBackoff = 2
  MaxCrashes = 0
SPECIFICATION InProcessSpec
SYMMETRY Symmetry
CONSTRAINT Followed
INVARIANTS
  InProcessInv
