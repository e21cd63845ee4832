SPECIFICATION VoiceSpec
CONSTANTS
  Runs = {"r1", "r2"}
  MaxAttempts <- Once
  Kinds = {"progress"}
  Results = {"run.completed", "run.failed"}
  MaxRows = 2
  Clients = {"voice"}
  Following = {"nothing"}
  Backends = {"polling"}
  MaxDrops = 1
  Questions <- InOrder
CHECK_DEADLOCK FALSE
INVARIANTS
  VoiceInv
PROPERTIES
  DroppedStaysSilent
  QuestionsSettle
