SPECIFICATION Spec
CONSTANTS
  s1 = s1 s2 = s2 s3 = s3 a = a b = b c = c d = d
  None = None
  Session = {s1, s2, s3}
  Task = {a, b, c}
  Child = {}
  ParentOf <- NoParent
  DependsOn <- FanInDependsOn
  Join <- FanInAny
  Conditional = {c}
  Priority <- Flat
  Grouped = {a, b}
  GroupLimit = 1
  MaxAttempts = 1
  ClaimLimit = 2
  ChildLimit = 0
  CancelLimit = 1
SYMMETRY Sessions
INVARIANTS AttemptLedger JoinRespected FinishedGraphIsTrue CountersNeverAhead
CHECK_DEADLOCK FALSE
