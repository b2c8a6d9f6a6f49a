SPECIFICATION Spec
CONSTANTS
  pn = pn
  pf = pf
  nomad = nomad
  file = file
  w1 = w1
  r1 = r1
  Policies = {pf}
  Sources = {nomad, file}
  SourceOf <- BothSources
  Reloadable = {file}
  Workers = {w1}
  Reloaders = {r1}
  MaxHandlers = 2
  MaxRestarts = 1
INVARIANTS
  ClosedOnce
  EntryIsLive
  BlockedOnEntry

  
CHECK_DEADLOCK FALSE
