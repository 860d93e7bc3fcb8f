SPECIFICATION FairSpec
CONSTANTS
  r1 = r1
  r2 = r2
  c1 = c1
  NoOne = NoOne
  Runners = {r1, r2}
  Callers = {}
  Legacy = 0
  MaxTasks = 1
  TTL = 2
  Interval = 1
  MaxLag = 0
  MaxStall = 1
  MaxFaults = 1
PROPERTIES
  RunCompletes
CHECK_DEADLOCK FALSE
