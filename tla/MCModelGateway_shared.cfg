SPECIFICATION Spec
CONSTANTS
  o1 = o1 pa = pa pb = pb c1 = c1 c2 = c2
  None = None
  Operation = {o1}
  Candidate = {pa, pb}
  Call = {c1, c2}
  Estimate <- Estimates
  Amount = {1, 2}
  Limit = {platform}
  Platform = platform
  Scope <- Scopes
  Cap <- WideCap
  CorrectionKey = {}
  Delta <- NoDeltas
  OperationOf <- Twice
  Routes <- Single
  Charge <- Charges
  MaxAttempts = 2
INVARIANTS SunkCostIsBooked
CHECK_DEADLOCK FALSE
