\* Two replicas race for one run of two attempts.
CONSTANTS
  Runs = {r1}
  Workers = {w1, w2}
  WorkerIds <- SharedIds
  WorkerId <- SharedId
  MaxAttempts = 2
  LeaseS = 1
  RetryDelay = 1
  RetryJitter = 0
  MaxBackoff = 2
  MaxCrashes = 1
SPECIFICATION Spec
SYMMETRY Symmetry
INVARIANTS
  RowsAgree
  SingleOwner
PROPERTIES
  OnlyForward
  ImplementsLifecycle
  BackendsAgree
