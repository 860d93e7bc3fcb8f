SPECIFICATION Spec
CONSTANTS
  o1 = o1
  u1 = u1
  u2 = u2
  c1 = c1
  c2 = c2
  n1 = n1
  n2 = n2
  Orders = {o1}
  Calls = {c1, c2}
  Nodes = {n1, n2}
  Users = {u1, u2}
  KindsOf <- WaffoOrder
  Deployments <- TwoNodes
  Buyer = u1
  Wallet0 = 0
  Limit = 1
  MaxFaults = 0
INVARIANTS
  CreditedOnce
CHECK_DEADLOCK FALSE
