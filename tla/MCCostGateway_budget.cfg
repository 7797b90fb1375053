SPECIFICATION CostSpec
CONSTANTS
  o1 = o1 o2 = o2 pa = pa pb = pb task = task
  None = None
  Operation = {o1, o2}
  Candidate = {pa, pb}
  Call = {c1}
  Estimate <- Estimates
  Amount = {1, 2}
  Limit = {platform, task}
  Platform = platform
  Scope <- Scopes
  Cap <- Caps
  CorrectionKey = {k1}
  Delta <- Deltas
INVARIANTS OnlySunkCostExceedsALimit CommittedIsBooked
CHECK_DEADLOCK FALSE
