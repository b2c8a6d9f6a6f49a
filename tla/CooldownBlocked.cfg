SPECIFICATION FairSpec
CONSTANTS
  pn = pn
  pf = pf
  nomad = nomad
  file = file
  w1 = w1
  r1 = r1
  Policies = {pn}
  Sources = {nomad, file}
  SourceOf <- BothSources
  Reloadable = {file}
  Workers = {w1}
  Reloaders = {}
  MaxHandlers = 1
  MaxRestarts = 0
PROPERTIES
  CooldownRequestReturns
CHECK_DEADLOCK FALSE
