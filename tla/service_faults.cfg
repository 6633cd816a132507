SPECIFICATION Spec
CONSTANTS
  None = None
  PRs = {p1}
  MaxHead = 2
  Deliveries = {d1, d2}
  Scans = {s1, s2}
  Reqs = {r1}
  Findings = {}
  Severity <- MCSeverity
  Score <- MCScore
  Diff <- MCDiff
  Certain <- MCDiff
  MergeBlock = "critical"
  CommentGate = "low"
  Prints <- MCPrints
  PrintOf <- MCPrintOf
  Threshold = 1
  MaxTries = 2
  MaxPosts = 2
  Faults = {"api", "worker", "signature"}
SYMMETRY Symmetric
INVARIANTS
  HeadIsGated
  GatesAreEarned
CHECK_DEADLOCK FALSE
