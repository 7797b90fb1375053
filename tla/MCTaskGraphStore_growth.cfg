SPECIFICATION Spec
CONSTANTS
  s1 = s1 s2 = s2 s3 = s3 a = a b = b c = c d = d
  None = None
  Session = {s1, s2}
  Task = {a, c, d}
  Child = {c, d}
  ParentOf <- GrowthParent
  DependsOn <- GrowthDependsOn
  Join <- GrowthJoin
  Conditional = {}
  Priority <- Flat
  Grouped = {}
  GroupLimit = 1
  MaxAttempts = 2
  ClaimLimit = 2
  ChildLimit = 1
  CancelLimit = 1
SYMMETRY Sessions
PROPERTIES CancelReachesEveryTask NoAttemptAfterCancel RequeuesWhatItRead OneOwnerPerAttempt ImplementsLedger
CHECK_DEADLOCK FALSE
