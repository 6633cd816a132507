SPECIFICATION PlSpec
CONSTANTS
  leak = leak
  smell = smell
  None = None
  PRs = {p1}
  MaxHead = 3
  Deliveries = {d1, d2}
  Scans = {s1, s2}
  Findings = {leak}
  Severity <- MCSeverity
  Score <- MCScore
  Diff <- MCDiff
  Certain <- MCCertain
  MergeBlock = "critical"
  CommentGate = "low"
  Prints <- MCPrints
  PrintOf <- MCPrintOf
  Threshold = 1
  MaxTries = 1
  Faults = {"provider", "token"}
SYMMETRY Symmetric
INVARIANTS
  CurrentGateSound
  SettledHasOutcome
PROPERTIES
  ImplementsSecurityGate
CHECK_DEADLOCK FALSE
