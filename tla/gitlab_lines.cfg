SPECIFICATION CSpec
CONSTANTS
  Gaps = {0, 2, 5}
  MaxPatch = 5
  Looks = {}
  Named = {}
  MaxRests = 0
  FileTraits <- MCTraits
  Beyond <- MCBeyond
  ContextLines = 1
  Deps = {7}
INVARIANTS
  LineMappingIsIdentical
CHECK_DEADLOCK FALSE
