SPECIFICATION PlFairSpec
CONSTANTS
  leak = leak
  smell = smell
  None = None
  PRs = {p1}
  MaxHead = 2
  Deliveries = {d1}
  Scans = {s1}
  Findings = {leak, smell}
  Severity <- MCSeverity
  Score <- MCScore
  Diff <- MCDiff
  Certain <- MCCertain
  MergeBlock = "critical"
  CommentGate = "low"
  Prints <- MCPrints
  PrintOf <- MCOnePrint
  Threshold = 1
  MaxTries = 2
  Faults = {"worker", "timeout", "provider", "internal", "expiry", "token"}
INVARIANTS
  PlTypeOK
  CompletedIsPublished
  CommentsAreStored
  OncePerTry
PROPERTIES
  JobsSettle
CHECK_DEADLOCK FALSE
