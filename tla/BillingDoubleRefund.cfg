SPECIFICATION Spec
CONSTANTS
  q1 = q1
  q2 = q2
  Requests = {q1, q2}
  NSubs = 1
  Wallet0 = 3
  Token0 = 5
  Total <- OneSub
  Strict = {}
  Pref = "subscription_first"
  Trust = 0
  Amounts = {2}
  Goals = {1, 3}
  Unlimited = FALSE
  Playground = {}
  Forced = {}
  Realtime = {}
  Isolated = TRUE
  Conns = 9
  CommitFaults = TRUE
  MaxFaults = 1
  MaxResets = 0
  MaxUsage = 0
SYMMETRY Perms
INVARIANTS
  UsageKept
CHECK_DEADLOCK FALSE
