SPECIFICATION Spec
CONSTANTS
  a = a b = b c = c d = d
  None = None
  Caller = {a, b, c, d}
  Request <- OneOther
SYMMETRY Calls
INVARIANTS PaidAtMostOnce NothingPaidIsForgotten RepliesAgree
PROPERTIES BarrierOutlivesTheCall ImplementsPaidOnce
CHECK_DEADLOCK FALSE
