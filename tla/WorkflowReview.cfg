SPECIFICATION MCSpec
SYMMETRY HandlerSymmetry
CONSTANTS
  None = None
  Tools = {"issuance", "weekly_report", "wealth_benchmark"}
  Workflows = {"issuance", "wealth_review"}
  ToolsOf <- Both
  Data <- AllData
  Grade <- Grades
  Payloads <- AnyInput
  Principals <- Everyone
  Requests = {"r1"}
  Handlers = {h1, h2}
  Codes = {"v1", "v2"}
  LeaseSeconds = 1
  MaxAttempts = 1
  MaxRunsPerOwner = 1
  MaxTotalRuns = 1
  MaxRevision = 2
INVARIANTS CheckpointsSound ReviewableIsComplete ExportIsReviewed
PROPERTIES KeepsPromise CheckpointsKept
CHECK_DEADLOCK FALSE
