SPECIFICATION MCSpec
CONSTANTS
  Runs = {"r1", "r2"}
  MaxAttempts <- Tries
  Kinds = {"answer.delta"}
  Results = {"run.completed"}
  MaxRows = 3
  Clients = {"ui"}
  Following = {"r1", "thread"}
  Backends = {"polling", "memory", "redis"}
  MaxDrops = 1
CHECK_DEADLOCK FALSE
INVARIANTS
  StreamsInv
PROPERTIES
  EveryFollowerLearns
