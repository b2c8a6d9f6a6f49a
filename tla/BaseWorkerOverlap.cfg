SPECIFICATION Spec
CONSTANTS
  c1 = c1
  c2 = c2
  d1 = d1
  d2 = d2
  Eval = Eval
  Deliveries = {d1, d2}
  Overlap = TRUE
  Checks = {c1}
  Min = 1
  Max = 3
  Counts = {2, 3}
  Values <- NonNegative
  TargetOf <- Targets
  Threshold = 1
  MaxInt = 15
INVARIANTS
  SubmittedWithinLimits
CHECK_DEADLOCK FALSE
