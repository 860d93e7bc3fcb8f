SPECIFICATION FairSpec
CONSTANTS
  p1 = p1
  p2 = p2
  NoOne = NoOne
  Tasks = {1}
  Pollers = {p1, p2}
  Legacy = {}
  PerCall = {}
  Channels = {1, 2, 3}
  Kind <- AllKinds
  Deletable = {2}
  Quota <- QuotaOf
  Pre <- PreOf
  Actuals = {0, 3}
  TaskTimeout = TRUE
  SweepLimit = 1
  QueryLimit = 2
  MaxFaults = 2
  MaxFetches = 1
INVARIANTS
  TypeOK
  BilledOnce
  BilledByOutcome
PROPERTIES
  TerminalStays
  TaskEnds
CHECK_DEADLOCK FALSE
