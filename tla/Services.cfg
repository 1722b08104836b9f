SPECIFICATION MCSpec
CONSTANTS
  None = None
  a = a
  b = b
  c = c
  d = d
  p1 = p1
  p2 = p2
  p3 = p3
  Calls = {a, b, c, d}
  Processes = {p1, p2, p3}
  ProcessOf <- ByProcess
  ReadOnly = {p3}
  Accepts <- InOrder
  MaxTries = 2
  Requests = {r1, r2}
  Inputs = {x, y}
  MaxRevision = 6
  Jobs = {j1, j2}
  Workers = {w1, w2}
  MaxAttempts = 2
  MaxCrashes = 1
  MaxSent = 3
  Arrivals = {q1, q2, q3}
  Names = {n1}
  Limit = 2
  MaxGuesses = 5
INVARIANTS AnswersAreTrue ConflictMeansProgress FilesAreCurrent EntryIsOrderly
PROPERTIES CallsEnd KeepsPromise JobsAreNotLost ReceiptEnds
CHECK_DEADLOCK FALSE
