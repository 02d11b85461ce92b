SPECIFICATION FairSpec
CONSTANTS
  Tasks = {"t1", "t2"}
  Runs = {1, 2, 3}
  TaskOf <- MCTaskOf
  NoRun = NoRun
  MaxHumanActions = 3
  MaxRestarts = 1
INVARIANTS TypeOK OneWriterPerTask WorkingTaskHasRun WaitingRunHasTimer
PROPERTIES AbortEnds 
CHECK_DEADLOCK FALSE
