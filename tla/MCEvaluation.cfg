SPECIFICATION EvaluationSpec
CONSTANTS
  Batch <- TheBatch
  Limit = 3
  Concurrency = 2
  MaxRetries = 2
  Behaviours <- TheBehaviours
  Trees <- TheTrees
  Requests <- TheRequests
  MaxName = 9
  Ids = {1, 2, 3}
  MaxScanned = 12
  MaxCases = 3
  MaxRows = 2
  Gap = Gap
  Bad = Bad
  Absent = Absent
  Old = Old
  Part = Part
INVARIANTS
  ConcurrencyIrrelevant
  CasesFaithful
  SidecarWhole
PROPERTIES
  BatchEnds
CHECK_DEADLOCK FALSE
