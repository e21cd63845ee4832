\* One worker serves two runs and is killed once: does every run end?
CONSTANTS
  Runs = {r1, r2}
  Workers = {w1}
  WorkerIds <- SharedIds
  WorkerId <- SharedId
  MaxAttempts = 2
  LeaseS = 1
  RetryDelay = 1
  RetryJitter = 0
  MaxBackoff = 1
  MaxCrashes = 1
SPECIFICATION FairSpec
PROPERTIES
  EventuallyOver
