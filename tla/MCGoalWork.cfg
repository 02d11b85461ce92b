SPECIFICATION MCSpec
CONSTANTS
  Providers = {codex, claude}
  NoProvider = NoProvider
  DNAs <- MCDNAs
  Buffer = 3
  Ceiling = 9
  InitialMaxSteps = {3}
  MaxDisturbances = 2
  PhaseBudgets <- MCPhaseBudgets
  Says <- MCSays
  Generic = {"claude completed", "checks passed"}
  Faults <- MCFaults
  PassText <- MCPassText
  CheckTexts <- MCCheckTexts
  IdleText <- MCIdleText
  CutText <- MCCutText
  Helpers = 1
  MaxGuardSteps = 4
  Maestros = {1, 2}
  Nobody = Nobody
  Commits = {1, 2, 3}
  MaxRepoEvents = 1
  Projects <- MCProjects
  MaxWorkEdits = 3
  MaxEdits = 2
  MaxPeopleEvents = 2
  Openers = {1, 2}
  OldDatabases <- MCOldDatabases
  MaxCrashes = 1
SYMMETRY ProviderSymmetry
INVARIANTS WorkTypeOK AcceptanceIsCurrent BudgetsRespected LoopsAreCut WorktreeBaseIsSound PassedReportIsWhole DeliveredIsPublished OpenedIsWhole
PROPERTY DeliveredIsTested
CHECK_DEADLOCK FALSE
