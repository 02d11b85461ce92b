SPECIFICATION MCSpec
CONSTANTS
  Plans = {1, 2, 3}
  Tasks = {1, 2, 3}
  TaskDeps <- MCTaskDeps
  Contract <- MCContract
  SameDemand <- MCSameDemand
  PlanScopes <- MCPlanScopes
  Loaded <- MCLoaded
  MaxPriority = 1
  MaxRevision = 2
  MaxRequests = 4
  UserSteps = 1
  MaxConcurrent = 1
  MaxAutoRetries = 1
  MaxRuns = 6
  MaxPrEvents = 2
  MaxFaults = 1
INVARIANTS TypeOK PlansStayInOrder CompletionIsEarned
PROPERTIES AdmissionIsLegal QueueStartsReadyTasks LoopsStayDown NothingIsForgotten
CHECK_DEADLOCK FALSE
