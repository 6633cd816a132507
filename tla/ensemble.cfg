SPECIFICATION EFairSpec
CONSTANTS
  Findings <- MCFindings
  Severity <- MCSeverity
  Score <- MCScore
  MergeBlock = "critical"
  CommentGate = "medium"
  Cwe <- MCCwe
  Rule <- MCRule
  Lapsing = {"cloud-generalist"}
  Primary <- MCPrimary
  Det <- MCDet
  Raw <- MCRaw
  Changed <- MCChanged
  Place <- MCPlace
  Spot <- MCSpot
  Confidence <- MCConfidence
INVARIANTS
  TotalsFollowWeights
  LabelAgreesWithGate
  FallbackIsJustified
  ConsolidationIsExact
PROPERTIES
  ImplementsReview
  EnsembleEnds
CHECK_DEADLOCK FALSE
