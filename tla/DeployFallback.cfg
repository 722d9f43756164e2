SPECIFICATION Spec
CONSTANTS
  Files <- FallbackFile
  Envs <- SomeEnvs
  MaxEdits = 0
  MaxCommands = 1
  MaxFaults = 0
INVARIANTS
  CompleteComesUp
CHECK_DEADLOCK FALSE
