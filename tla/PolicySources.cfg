SPECIFICATION FairSpec
CONSTANTS
  f1 = f1
  n1 = n1
  c1 = c1
  Policies = {f1, n1}
  SourceOf <- FilesAndNomad
  Contents = {c1}
  Configurations = {{"file"}, {"nomad"}}
  Capacity = 2
  MaxReloads = 2
  MaxEdits = 2
  MaxIndex = 3
  MaxHandlers = 3
INVARIANTS
  TrackedIsListed
  
PROPERTIES
  ReloadReturnsUnlessStuck
  HandlerCatchesUp
CHECK_DEADLOCK FALSE
