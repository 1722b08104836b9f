SPECIFICATION MCSpec
CONSTANTS
  Foci = {"sessions", "organization", "notes", "answers", "runs", "dag", "documents", "index",
          "configuration", "models", "desk"}
  None = None
  c1 = c1
  c2 = c2
  c3 = c3
  e1 = e1
  e2 = e2
  Turns = {t1, t2}
  Users = {u1, u2}
  Documents = {d1, d2}
  Items = {i1}
  Notes = {n1, n2}
  Readers = {r1, r2}
  MaxUses = 2
  Chunks = {c1, c2, c3}
  DeptOf <- LastApart
  Approved = {c1, c3}
  Remembered = {c2}
  MAX_VERIFY_RETRY = 2
  Calls = {k1, k2}
  Cycles = {l1}
  Depts = {e1, e2}
  MaxArtifacts = 2
  MaxBlocks = 3
  People = {p1, p2, p3}
  Reviews = {v1, v2}
INVARIANTS MemoryHolds PassedIsGrounded PiIsContained TextsAreFound
CHECK_DEADLOCK FALSE
