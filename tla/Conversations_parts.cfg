\* Two requests about one approval; one attachment and three requests, on either
\* blob store; three memories and three requests, in either database; two
\* operations on the local files at once, and one kill; every context of up to two
\* texts per source; three rows and pages of one or two.
CONSTANTS
  Approvals = {a1}
  Handlers = {h1, h2}
  Processes = {p1, p2}
  AllowWrites = TRUE
  MayCrash = TRUE
  MaxCalls = 2
  Files = {"f1"}
  Requests = {q1, q2, q3}
  Stores = {"local", "minio"}
  Items = {"m1", "m2", "m3"}
  Says <- Facts
  Calls = {q1, q2, q3}
  Databases = {"postgres", "memory"}
  Writers = {"w1", "w2"}
  Does <- TwoOperations
  MaxKilled = 1
  Texts <- SomeTexts
  MaxTexts = 2
  Budgets <- SomeBudgets
  SummaryLimits = {0, 1, 2, 3, 4}
  Ids = {1, 2, 3}
  MaxTime = 2
  Limits = {1, 2}
SPECIFICATION ConversationsSpec
SYMMETRY Symmetry
\* Every request is made once, every operation ends, and so does a walk.
CHECK_DEADLOCK FALSE
INVARIANTS
  ApprovalsInv
  LibraryInv
  MemoriesInv
  FileStoreInv
  ContextFits
  WalkIsComplete
PROPERTIES
  SettledStays
