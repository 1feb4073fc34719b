SPECIFICATION FairSpec
CONSTANTS
  i1 = i1
  i2 = i2
  c1 = c1
  c2 = c2
  w1 = w1
  t1 = t1
  t2 = t2
  k1 = k1
  NoRow = NoRow
  NoProc = NoProc
  Invs = {i1, i2}
  Jobs = {1, 2}
  Evidence = {1}
  Clients = {c1, c2}
  Workers = {w1}
  Procs = {c1, c2, w1}
  Tenants = {t1, t2}
  Tokens <- TheTokens
  Requests <- TheRequests
  MaxAttempts = 2
INVARIANTS
  AcknowledgedKept
PROPERTIES
  SucceededHasReport
  KeepsPromise
  EveryRequestAnswered
CHECK_DEADLOCK FALSE
