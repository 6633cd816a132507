SPECIFICATION GwSpec
CONSTANTS
  None = None
  PRs = {p1}
  MaxHead = 2
  Deliveries = {d1}
  Scans = {s1, s2}
  Reqs = {r1, r2}
  MaxPosts = 2
  MaxTries = 1
  Faults = {"api"}
INVARIANT
  DuplicateIsCovered
CHECK_DEADLOCK FALSE
