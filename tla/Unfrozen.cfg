SPECIFICATION MCSpec
CONSTANTS
  Foci = {"joined"}
  None = None
  v1 = v1
  v2 = v2
  r1 = r1
  r2 = r2
  s1 = s1
  p1 = p1
  p2 = p2
  t1 = t1
  t2 = t2
  a = a
  Docs = {v1, v2}
  Version <- Versions
  Uploader <- Uploaders
  InForce = {v1, v2}
  Actors = {"ann", "bob"}
  Reviews = {r1, r2}
  Searches = {s1}
  Processes = {p1, p2}
  ProcessOf <- Apart
  Withdrawable = {v1}
  MaxFaults = 1
  Instances = {i}
  Candidates = {k}
  Tasks = {t1, t2}
  Orders = {o1, o2, o3}
  Sampled = {o3}
  Submits = {t1, t2}
  MinSamples = 2
  Num = 1
  Den = 2
  MaxTotal = 3
  Copies = {d1, d2, d3}
  Fewer = {d1, d2}
  Files = {f1, f2}
  MaxTouched = 1
  Strategies = {a, b}
  Feedbacks = {"w", "x", "y", "z"}
  Telling = {"w", "x", "y", "z"}
  RuleOf <- OneTwice
  DeptOf <- ForTwo
  MaxSuggestions = 2
  Approvals = {q}
  Departments = {e1, e2}
  Hub = hub
  All = dept_all
  MAX_VERIFY_RETRY = 2
  Dept <- Versions
  Cites <- FirstNamed
  Near <- OtherLast
  Alike <- EachOther
  Conflicting <- Both
  TopK = 1
  Extra = 1
INVARIANT SharedFreezeHolds
CHECK_DEADLOCK FALSE
