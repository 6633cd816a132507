SPECIFICATION DFairSpec
CONSTANTS
  None = None
  t1 = t1
  t2 = t2
  g1 = g1
  g2 = g2
  k1 = k1
  MaxNotes = 2
  Said = {"false_positive", "ignore", "explain", "blank"}
  Threads <- MCThreads
  Prints = {k1}
  PrintIn <- MCPrintIn
  Patterns <- MCPatterns
  EchoPattern = g2
  MaxTries = 2
  Faults = {"worker", "timeout", "exception", "token"}
INVARIANTS
  FeedbackIsAskedFor
  AnswersAreBacked
  TurnsAreBounded
  IgnoresAreKept
PROPERTIES
  DialogsSettle
CHECK_DEADLOCK FALSE
