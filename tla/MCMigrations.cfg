\* Two processes migrate at once; one may be lost, and the loser may start again.
SPECIFICATION FairSpec
CONSTANTS
  Runners = {r1, r2}
  MaxVersion = 3
  Repeatable = {3}
  MaxFaults = 2
  MaxStarts = 4
INVARIANTS
  AppliedOnce
  RunsComplete
PROPERTIES
  RunsEnd
CHECK_DEADLOCK FALSE
