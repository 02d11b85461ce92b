SPECIFICATION MCSpec
CONSTANTS
  Nodes = {1, 2, 3}
  Shapes <- MCShapes
  MaxAttempts = 2
  MaxReaders = 2
  MaxGraphFaults = 2
  SkillVersions = {1, 2}
  Flows = {1, 2}
  MaxCommits = 1
  MaxUpdates = 2
  MaxUpdateEvents = 1
  Reviews = {1, 2}
  Ideas = {1, 2}
  MaxReviewRestarts = 1
  MaxDecisions = 3
  MaxPrEdits = 3
  MaxReviewFaults = 2
INVARIANTS TypeOK GraphIsSound ServedSkillIsVetted
PROPERTIES ServicesSettle DecisionIsFinal 
CHECK_DEADLOCK FALSE
