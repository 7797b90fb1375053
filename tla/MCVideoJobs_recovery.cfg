SPECIFICATION Spec
CONSTANTS
  RetryLimit = 1
  Prices = {1}
  Budget = 2
  MaxFaults = 1
INVARIANTS MaterializedIsRetried
CHECK_DEADLOCK FALSE
