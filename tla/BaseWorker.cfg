SPECIFICATION Spec
CONSTANTS
  c1 = c1
  c2 = c2
  d1 = d1
  d2 = d2
  Eval = Eval
  Deliveries = {d1, d2}
  Overlap = FALSE
  Checks = {c1, c2}
  Min = 1
  Max = 3
  Counts = {0, 2, 3, 7}
  Values <- NonNegative
  TargetOf <- Targets
  Threshold = 1
  MaxInt = 15
INVARIANTS
  SubmittedWithinLimits
  WinnerIsSafest
  OutsideLimitsCorrected
  DirectionAgrees
CHECK_DEADLOCK FALSE
