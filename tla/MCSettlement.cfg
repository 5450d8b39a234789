SPECIFICATION Spec
CONSTANTS
  u1 = u1
  u2 = u2
  w1 = w1
  w2 = w2
  d1 = d1
  yes = yes
  no = no
  None = None
  Users = {u1}
  Outcomes = {yes, no}
  Workers = {w1, w2}
  Disputes = {d1}
  Shares <- MCShares
  Collateral0 = 3
  Fees0 = 1
  MaxRetries = 1
  MaxTasks = 2
  MaxFaults = 1
INVARIANTS
  TypeOK
  DoneMeansSettled
  NothingConjured
PROPERTIES
  PayoutsSpec
SYMMETRY
  Symmetry
CHECK_DEADLOCK FALSE
