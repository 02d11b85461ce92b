SPECIFICATION Spec
CONSTANTS
  Providers = {codex, claude}
  NoProvider = NoProvider
  DNAs <- OnlyMedium
  Buffer = 3
  Ceiling = 9
  InitialMaxSteps = {3}
  MaxDisturbances = 2
PROPERTY ReviewIsCurrent
CHECK_DEADLOCK FALSE
