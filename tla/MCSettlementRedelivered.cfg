SPECIFICATION Spec
CONSTANTS
  u1 = u1
  u2 = u2
  w1 = w1
  w2 = w2
  d1 = d1
  yes = yes
  no = no
  None = None
  Users = {u1, u2}
  Outcomes = {yes, no}
  Workers = {w1, w2}
  Disputes = {}
  Shares <- MCShares
  Collateral0 = 4
  Fees0 = 1
  MaxRetries = 1
  MaxTasks = 1
  MaxFaults = 1
INVARIANT SettlementNotLost
CHECK_DEADLOCK FALSE
