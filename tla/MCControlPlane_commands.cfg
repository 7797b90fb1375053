SPECIFICATION Spec
CONSTANTS
  start = start
  resume = resume
  again = again
  cancel = cancel
  c1 = c1
  c2 = c2
  Ops = {start, resume, again, cancel}
  Kind <- KindOf
  Calls = {c1, c2}
  MaxCheckpoints = 2
  MaxClaims = 2
  MaxFaults = 1
SYMMETRY Alike
INVARIANTS StartRunsOnce BoundWhenAlone FinalFailureDidNothing RowTellsTheTruth
CHECK_DEADLOCK FALSE
