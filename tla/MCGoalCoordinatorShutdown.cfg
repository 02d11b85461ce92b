SPECIFICATION Spec
CONSTANTS
  Tasks = {"t2"}
  Runs = {3}
  TaskOf <- MCTaskOfOne
  NoRun = NoRun
  MaxHumanActions = 2
  MaxRestarts = 1
PROPERTY OnlyUserCancels
CHECK_DEADLOCK FALSE
