SPECIFICATION Spec
CONSTANTS
  Users = {u1, u2}
  Nobody = Nobody
  One = 3
  PoolFeeNum = 1
  ProtoFeeNum = 1
  FeeDen = 2
  Balance0 = 6
  Shares0 = 2
  Reserve0 = 4
  Prices = {1, 2, 3}
  Budgets = {4}
  Lots = {1, 2}
  Kinds = {"market", "limit", "fill_or_kill"}
  PostOnly = {TRUE, FALSE}
  Traded = {"yes"}
  Referrer <- OneReferral
  Reward = 1
  SplitFeeNum = 1
  SkipLocked = FALSE
  MaxOrders = 2
  MaxRequests = 3
INVARIANTS
  TypeOK
  ChecksNeverTrip
  BidsReserved
  NeverOverfilled
PROPERTIES
  NoMoneyMade
  PriceTimePriority
CHECK_DEADLOCK FALSE
