SPECIFICATION Spec
CONSTANTS
  Environment <- EnvironmentWithAuth
  Inputs <- AllInputs
INVARIANTS
  
  PluginsKeepNomadSettings
  
  
  ShortQueryUnderstood
  
CHECK_DEADLOCK FALSE
