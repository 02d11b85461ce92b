SPECIFICATION MCSpec
CONSTANTS
  Nodes = {1, 2, 3}
  Shapes <- MCShapes
  MaxAttempts = 2
  MaxReaders = 2
  MaxGraphFaults = 1
PROPERTY GoalFollowsItsGraph
CHECK_DEADLOCK FALSE
