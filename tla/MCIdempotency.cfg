SPECIFICATION Spec
CONSTANTS
  i1 = i1  i2 = i2  i3 = i3  t1 = t1  t2 = t2  r1 = r1  k1 = k1
  c1 = c1  c2 = c2  c3 = c3  w1 = w1  w2 = w2
  Invs = {i1, i2}
  Jobs = {1, 2}
  OrphanJobs = {}
  Tenants = {t1, t2}
  Runs = {r1}
  Keys = {k1}
  Evidence = {1}
  NoRow = NoRow  NoInv = NoInv  NoJob = NoJob  NoKey = NoKey
  Clients = {c1, c2, c3}
  Requests <- SharedKey
  Workers = {w1}
  MaxAttempts = 1
  AnalysisErrors = {"internal_error"}
  Faults = {"crash"}
  MaxNow = 1
INVARIANTS
  OneJobEach RepliesAgree
SYMMETRY Symmetry
