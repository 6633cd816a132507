SPECIFICATION CSpec
CONSTANTS
  Gaps = {0, 2, 5}
  MaxPatch = 5
  Looks = {"hunk", "add", "ctx"}
  Named = {3}
  MaxRests = 1
  FileTraits <- MCTraits
  Beyond <- MCBeyond
  ContextLines = 1
  Deps = {7}
INVARIANTS
  NumberingIsRight
  ChangedLinesContract
  LossIsExplained
  ContextCoversHunks
PROPERTIES
  ImplementsSafetyNet
CHECK_DEADLOCK FALSE
