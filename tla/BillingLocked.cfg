SPECIFICATION FairSpec
CONSTANTS
  q1 = q1
  q2 = q2
  Requests = {q1, q2}
  NSubs = 1
  Wallet0 = 3
  Token0 = 5
  Total <- OneSub
  Strict = {}
  Pref = "subscription_first"
  Trust = 0
  Amounts = {2}
  Goals = {3}
  Unlimited = FALSE
  Playground = {}
  Forced = {}
  Realtime = {q2}
  Isolated = TRUE
  Conns = 9
  CommitFaults = FALSE
  MaxFaults = 1
  MaxResets = 1
  MaxUsage = 3
INVARIANTS
  SubscriptionAccounts
PROPERTIES
  CancelStands
  SessionEnds
CHECK_DEADLOCK FALSE
