SPECIFICATION EvidenceSpec
CONSTANTS
  a1 = a1
  a2 = a2
  a3 = a3
  UnencodableKeys = {9}
  UnencodableContexts = {a3}
  MaxPredicates = 2
  MaxChangeEvents = 3
  ChangeEvents <- TheEvents
  Hypotheses <- TheHypotheses
  Windows <- TheWindows
  Contexts = {a1, a3}
  Telemetries <- TheTelemetries
  Policies <- ThePolicies
  Proposals <- TheProposals
  Window <- TheWindow
  Context = a1
INVARIANTS
  RankingJustified
  RankingNeutral
  OwnWorkAccepted
  AlterationsDetected
  VerdictJustified
  ArrivalIrrelevant
  ChangeVerdictSound
PROPERTIES
  EvidenceAccumulates
CHECK_DEADLOCK FALSE
