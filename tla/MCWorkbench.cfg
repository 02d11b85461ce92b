SPECIFICATION MCSpec
CONSTANTS
  Providers = {codex, claude}
  NoProvider = NoProvider
  DNAs <- MCDNAs
  Buffer = 3
  Ceiling = 9
  InitialMaxSteps = {3}
  MaxDisturbances = 1
  a1 = a1
  a2 = a2
  c1 = c1
  c2 = c2
  p1 = p1
  Asks = {a1, a2}
  Clicks = {c1, c2}
  Talkers = {p1, p2}
  NoTalker = NoTalker
  MaxIterations = 2
  MaxToolCalls = 1
  Sent <- MCSent
  MaxChatEvents = 1
  Executions = {1}
  MaxReceived = 3
  MaxDuplicates = 2
  PageSize = 2
  MaxRecorded = 3
  MaxNotifierFaults = 2
  i1 = i1
  i2 = i2
  Intakes = {i1, i2}
  Plannable = {i1}
  NoIntake = NoIntake
  MaxIntakeDeaths = 2
  Updates = {1, 2}
  Written <- MCWritten
  ChatProjects = {general, k1}
  GeneralChat = general
  MaxSubmissions = 2
INVARIANTS PartsTypeOK StopIsReported NoticesAreKept RequestsAreSound
PROPERTIES WorkSettles ChatRepeatsNothing
CHECK_DEADLOCK FALSE
