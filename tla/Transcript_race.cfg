\* One or two workers, a cancel request and crashes on either side.
CONSTANTS
  Runs = {r1}
  Workers = {w1, w2}
  WorkerIds <- SharedIds
  WorkerId <- SharedId
  MaxAttempts = 2
  LeaseS = 1
  RetryDelay = 1
  RetryJitter = 0
  MaxBackoff = 2
  MaxCrashes = 1
  ApiMayDie = TRUE
SPECIFICATION DeployedSpec
SYMMETRY Symmetry
INVARIANTS
  ThreadTellsOutcome
PROPERTIES
  LoneReplyStable
