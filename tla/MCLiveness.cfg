SPECIFICATION FairSpec
CONSTANTS
  i1 = i1  i2 = i2  i3 = i3  t1 = t1  t2 = t2  r1 = r1  k1 = k1
  c1 = c1  c2 = c2  c3 = c3  w1 = w1  w2 = w2
  Invs = {i1, i2}
  Jobs = {1, 2, 3}
  OrphanJobs = {2}
  Tenants = {t1}
  Runs = {r1}
  Keys = {k1}
  Evidence = {1, 2}
  NoRow = NoRow  NoInv = NoInv  NoJob = NoJob  NoKey = NoKey
  Clients = {c1}
  Requests <- NoKeys
  Workers = {w1, w2}
  MaxAttempts = 2
  AnalysisErrors = {"provider_timeout"}
  Faults = {}
  MaxNow = 0
PROPERTIES
  EveryJobSettles
