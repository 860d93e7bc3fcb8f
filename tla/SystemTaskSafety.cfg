SPECIFICATION Spec
CONSTANTS
  r1 = r1
  r2 = r2
  c1 = c1
  NoOne = NoOne
  Runners = {r1, r2}
  Callers = {c1}
  Legacy = 1
  MaxTasks = 2
  TTL = 3
  Interval = 1
  MaxLag = 1
  MaxStall = 2
  MaxFaults = 1
SYMMETRY Perms
INVARIANTS
  TypeOK
  OneActiveRow
  AtMostOneDispatch
  NoOrphan
PROPERTIES
  LeaseRespected
  StatusMovesForward
CHECK_DEADLOCK FALSE
