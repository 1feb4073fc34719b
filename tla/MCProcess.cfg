SPECIFICATION FairSpec
CONSTANTS
  LoadBound = 1
  Deadline = 3
  ClientDeadline = 2
  ClientAttempts = 2
  MaxAttempts = 2
  MaxIterations = 3
INVARIANTS
  CountersFollowCommits
  ShutdownBounded
PROPERTIES
  EndsOnDemand
CHECK_DEADLOCK FALSE
