SPECIFICATION FairSpec
CONSTANTS
  None = None
  PRs = {p1}
  MaxHead = 2
  Deliveries = {d1, d2}
  Scans = {s1, s2}
  Reqs = {r1}
  Findings = {f1}
  Severity <- MCSeverity
  Score <- MCScore
  Diff <- MCDiff
  Certain <- MCDiff
  MergeBlock = "critical"
  CommentGate = "low"
  Prints <- MCPrints
  PrintOf <- MCPrintOf
  Threshold = 1
  MaxTries = 1
  MaxPosts = 1
  Faults = {}
PROPERTIES
  HeadsGetGated
CHECK_DEADLOCK FALSE
