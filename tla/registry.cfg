SPECIFICATION RFairSpec
CONSTANTS
  None = None
  a1 = a1
  a2 = a2
  g1 = g1
  p1 = p1
  p2 = p2
  s1 = s1
  s2 = s2
  Admins = {a1, a2}
  Dialogs = {g1}
  Readers = {r1}
  Asked <- MCAsked
  Slug <- MCSlug
  Slugs = {s1, s2}
  Defaults <- MCDefaults
  Pattern <- MCPattern
  Choices = {"low", "medium", "high", "critical"}
  Patterns = {p1, p2}
  Ttl = 0
  MaxNow = 1
  MaxKey = 2
  Faults = {"request", "lazy", "restart"}
INVARIANTS
  RegistrationIsWhole
  IsolatedRegistrationHolds
  LookupsAreCurrent
  WorkIsAuthorised
PROPERTIES
  RequestsEnd
CHECK_DEADLOCK FALSE
