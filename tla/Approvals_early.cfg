\* A request asks for an execution that nobody has approved.
CONSTANTS
  Approvals = {a1}
  Handlers = {h1}
  Processes = {p1}
  AllowWrites = TRUE
  MayCrash = FALSE
  MaxCalls = 2
SPECIFICATION Spec
INVARIANTS
  AppliedOnlyIfApproved
