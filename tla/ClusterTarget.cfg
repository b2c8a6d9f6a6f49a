SPECIFICATION FairSpec
CONSTANTS
  k1 = k1
  k2 = k2
  Nodes = {1, 2, 3, 4, 5}
  Pool = {1, 2, 3, 5}
  Members = {1, 2, 3}
  Spare = {5}
  Own = 2
  Calls = {k1, k2}
  Overlap = FALSE
  Counts <- CountsWithDryRun
  RetryLimit = 2
  MaxLost = 1
  Providers = {"aws-asg", "azure-vmss", "gce-mig"}
INVARIANTS
  RemovedAfterDrain
  OthersKept
  SuccessLeavesNothing
PROPERTIES
  NeverBelowCount
  
CHECK_DEADLOCK FALSE
