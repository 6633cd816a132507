SPECIFICATION GwSpec
CONSTANTS
  None = None
  PRs = {p1}
  MaxHead = 2
  Deliveries = {d1, d2}
  Scans = {s1, s2, s3}
  Reqs = {r1, r2}
  MaxPosts = 2
  MaxTries = 1
  Faults = {"api", "header", "signature", "expiry"}
SYMMETRY Symmetric
INVARIANTS
  GwTypeOK
  OneScanPerClaim
  OnlyVerifiedWork
  QueuedIsEnqueued
  LossNeedsFailure
PROPERTIES
  JobsAreReady
CHECK_DEADLOCK FALSE
