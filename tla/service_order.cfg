SPECIFICATION Spec
CONSTANTS
  None = None
  PRs = {p1}
  MaxHead = 3
  Deliveries = {d1, d2, d3}
  Scans = {s1, s2, s3}
  Reqs = {r1, r2}
  Findings = {}
  Severity <- MCSeverity
  Score <- MCScore
  Diff <- MCDiff
  Certain <- MCDiff
  MergeBlock = "critical"
  CommentGate = "low"
  Prints <- MCPrints
  PrintOf <- MCPrintOf
  Threshold = 1
  MaxTries = 1
  MaxPosts = 1
  Faults = {}
SYMMETRY Symmetric
INVARIANTS
  HeadIsGated
  SupersededHasRival
CHECK_DEADLOCK FALSE
