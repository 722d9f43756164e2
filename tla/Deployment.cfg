SPECIFICATION FairSpec
CONSTANTS
  Files <- SomeFiles
  Envs <- SomeEnvs
  MaxEdits = 2
  MaxCommands = 4
  MaxFaults = 2
INVARIANTS
  TypeOK
  FreshStackMatches
  ServesWithItsKeys
  UpFailsForCause
PROPERTIES
  StackServes
CHECK_DEADLOCK FALSE
