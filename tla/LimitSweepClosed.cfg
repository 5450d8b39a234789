SPECIFICATION SweepSpec
CONSTANTS
  Users = {u1, u2}
  Nobody = Nobody
  One = 5
  PoolFeeNum = 0
  ProtoFeeNum = 1
  FeeDen = 2
  Balance0 = 16
  Shares0 = 1
  Reserve0 = 1
  Prices = {2, 3}
  Budgets = {8}
  Lots = {1}
  Kinds = {"market", "limit"}
  PostOnly = {FALSE}
  Traded = {"yes"}
  Referrer <- NoReferrals
  Reward = 1
  SplitFeeNum = 0
  SkipLocked = FALSE
  MaxOrders = 2
  MaxRequests = 3
  MaxSweeps = 1
PROPERTY ClosedOrdersStayClosed
CHECK_DEADLOCK FALSE
