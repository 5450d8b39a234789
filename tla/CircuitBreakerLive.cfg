CONSTANTS
  Callers = {c1, c2, c3}
  Threshold = 2
  MaxFailures = 5
  None = None
SPECIFICATION BreakerFairSpec
CHECK_DEADLOCK FALSE
PROPERTY CallReturns
