\* The instance of Agent_parts.cfg, for what is said of a retry.
CONSTANTS
  Payloads <- SomePayloads
  Starters = {"q1", "q2"}
  Question <- SomeQuestion
  Stopwords = {"last"}
  Answers <- SomeAnswers
  Resolutions <- SomeResolutions
  Ceiling = 2
  TTL = 1
  Order <- ThreeModels
  Callers = {"c1", "c2"}
  Threshold = 2
  Cooldown = 2
  Chains <- StrongAndFast
  Gates = {"breaker", "chain"}
  CallKinds = {"q1", "s1"}
  ToolOf <- SomeTools
  CatalogueTools = {"s"}
  Batch = 2
  MaxCalls = 3
  SpareRequests = 2
  MaxRevisions = 1
  AgentRetries = 1
  Routes = {"alias", "conversation", "agent"}
  Asked <- SomeAsked
  Supports <- SomeSupports
  ToolCalls = {"t1", "t2"}
  MaxQueries = 4
  FirstYear = 2026
  LastYear = 2030
  Anchors <- SomeAnchors
  Phrasings <- SomePhrasings
  Rows <- SomeRows
  MaxRows = 3
  MinShare = 20
  MaxSegments = 2
  FUNNEL_STEPS <- ThreeSteps
  Histories <- SomeHistories
  AsOf = 7
  HistoryBase = 2
  CandidateCap = 2
  MinObservations = 2
  MinHistory = 2
  Registry <- SomeModels
  Variants <- ThreeVariants
  MaxEstimates = 2
  MaxForecasts = 1
  MaxReplies = 3
  Kinds <- SomeKinds
  Scopes <- SomeScopes
  MinRows = 2
  MaxArtifacts = 3
  ActionCalls = {"a1", "a2"}
  ActionIds = {"p", "q"}
  IdempotencyKeys = {"k", "l"}
  MaxRestarts = 1
  Replicas = {"r1", "r2", "r3"}
  Directory <- ThreeReleases
  LegacyRows = {1}
  MaxKills = 3
SPECIFICATION PartsSpec
\* A mission and a start end.
CHECK_DEADLOCK FALSE
INVARIANTS
  RetryIsReal
