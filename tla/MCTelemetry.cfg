SPECIFICATION FairSpec
CONSTANTS
  Gap = Gap
  Bodies <- NestedBodies
  Queries = 2
  Timeout = 2
  MaxReads = 2
  MaxSeries = 2
  MaxPoints = 2
INVARIANTS
  AllOrNothing
PROPERTIES
  LoadEnds
CHECK_DEADLOCK FALSE
