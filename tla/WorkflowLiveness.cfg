SPECIFICATION LiveSpec
CONSTANTS
  None = None
  Tools = {"issuance"}
  Workflows = {"issuance"}
  ToolsOf <- Issuance
  Data <- AllData
  Grade <- Grades
  Payloads <- AnyCalendar
  Principals <- OnlyAlice
  Requests = {"r1"}
  Handlers = {h1, h2}
  Codes = {"v1"}
  LeaseSeconds = 1
  MaxAttempts = 2
  MaxRunsPerOwner = 1
  MaxTotalRuns = 1
  MaxRevision = 1
PROPERTIES AdvanceConverges LiveBatchIsExclusive
CHECK_DEADLOCK FALSE
