SPECIFICATION DeskSpec
CONSTANTS
  None = None
  Tools = {"issuance"}
  Workflows = {"issuance"}
  ToolsOf <- Issuance
  Data <- AllData
  Grade <- Grades
  Payloads <- AnyCalendar
  Principals <- AliceAndBob
  Requests = {"r1"}
  Handlers = {h1}
  Codes = {"v1"}
  LeaseSeconds = 1
  MaxAttempts = 1
  MaxRunsPerOwner = 1
  MaxTotalRuns = 1
  MaxRevision = 2
PROPERTY VerdictOnWhatWasShown
CHECK_DEADLOCK FALSE
