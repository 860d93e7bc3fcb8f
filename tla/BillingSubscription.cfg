SPECIFICATION Spec
CONSTANTS
  q1 = q1
  q2 = q2
  Requests = {q1, q2}
  NSubs = 2
  Wallet0 = 4
  Token0 = 5
  Total <- TwoSubs
  Strict = {2}
  Pref = "subscription_first"
  Trust = 3
  Amounts = {2}
  Goals = {3}
  Unlimited = FALSE
  Playground = {q2}
  Forced = {q2}
  Realtime = {}
  Isolated = FALSE
  Conns = 9
  CommitFaults = FALSE
  MaxFaults = 1
  MaxResets = 1
  MaxUsage = 0
INVARIANTS
  TypeOK
  BilledAsOwed
  NeverOverRefunded
  WithinPlan
CHECK_DEADLOCK FALSE
