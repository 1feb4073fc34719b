---------------------------- MODULE MemoryProofs ----------------------------
(***************************************************************************)
(* The service in memory keeps what it acknowledged and implements          *)
(* Lifecycle, for any number of clients, workers, tenants, investigations   *)
(* and attempts.                                                            *)
(*                                                                         *)
(* All rests on the lock: the copy of the task that holds it was taken from *)
(* the shared store after everyone else's commit, and differs from it by    *)
(* one claim at most.                                                       *)
(***************************************************************************)
EXTENDS MemoryService, FiniteSetTheorems, WellFoundedInduction, TLAPS

AttemptRecord == [job : Jobs, number : Nat, outcome : {"succeeded", "failed"}]
EvidenceRecord == [tenant : Tenants, run : {"run"}, id : Evidence, inv : Invs]

Stores ==
  [inv : [Invs -> InvestigationRecord \cup {NoRow}],
   job : [Jobs -> JobRecord \cup {NoRow}],
   attempts : SUBSET AttemptRecord,
   evidence : SUBSET EvidenceRecord,
   reports : [Invs -> ReportRecord \cup {NoRow}],
   audit : [Invs -> [AuditAction -> Nat]]]

\* A job names a stored investigation, waits to be claimed at once or has ended,
\* and is the only one of its investigation.
JobsOK(s) ==
  /\ \A j \in Jobs : s.job[j] # NoRow =>
       /\ s.inv[s.job[j].inv] # NoRow
       /\ s.job[j].available_at = Now
       /\ s.job[j].status \in {"queued", "succeeded", "failed", "cancelled"}
  /\ \A j, k \in Jobs :
       s.job[j] # NoRow /\ s.job[k] # NoRow /\ s.job[j].inv = s.job[k].inv => j = k

\* An investigation has a job; it has a report exactly if the job succeeded, and
\* only then says so itself.
OutcomesOK(s) ==
  \A i \in Invs :
    /\ s.inv[i] # NoRow => \E j \in Jobs : s.job[j] # NoRow /\ s.job[j].inv = i
    /\ s.inv[i] = NoRow => s.reports[i] = NoRow
    /\ \A j \in Jobs : s.job[j] # NoRow /\ s.job[j].inv = i =>
         /\ s.reports[i] # NoRow <=> s.job[j].status = "succeeded"
         /\ s.inv[i].status = "succeeded" => s.job[j].status = "succeeded"

KeysOK(s) ==
  \A i, h \in Invs :
    /\ s.inv[i] # NoRow /\ s.inv[h] # NoRow
    /\ s.inv[i].key # NoRow /\ s.inv[i].key = s.inv[h].key
    /\ s.inv[i].tenant = s.inv[h].tenant
    => i = h

StoreOK(s) == s \in Stores /\ JobsOK(s) /\ OutcomesOK(s) /\ KeysOK(s)

Inside == {"entered", "loading", "proposing"}

\* Who holds the lock, and with what copy.
LockOK ==
  /\ holder \in Procs \cup {NoProc}
  /\ pc \in [Procs -> {"idle", "waiting"} \cup Inside]
  /\ \A c \in Clients : pc[c] \notin {"loading", "proposing"}
  /\ \A p \in Procs : pc[p] \in Inside <=> holder = p
  /\ DOMAIN working = Procs
  /\ \A p \in Procs : pc[p] = "entered" => working[p] = shared

Claimed(s, j) == SetInvestigation(ClaimJob(s, j, Now, Lease), s.job[j].inv, "running")

\* An attempt that is under way.
AttemptOK ==
  /\ DOMAIN current = Workers
  /\ \A w \in Workers : pc[w] \in {"loading", "proposing"} =>
       /\ current[w] \in Jobs
       /\ shared.job[current[w]] # NoRow
       /\ shared.job[current[w]].status = "queued"
       /\ working[w] = Claimed(shared, current[w])

\* The requests being served, and an id for each that may need one.
Serving == {c \in Clients : request[c] # NoRow /\ request[c].kind = "create"}
Rows == {i \in Invs : shared.inv[i] # NoRow}
RequestsOK ==
  /\ request \in [Clients -> Requests \cup {NoRow}]
  /\ \A c \in Clients :
       /\ pc[c] = "idle" <=> request[c] = NoRow
       /\ request[c] # NoRow => Refusal(request[c]) = 0
  /\ Cardinality(Rows) + Cardinality(Serving) <= Cardinality(Invs)

\* What was answered.
Fact ==
  ({"created"} \X Invs \X Tenants \X {r.key : r \in Requests})
    \cup ({"succeeded", "report"} \X Invs)
SeenOK ==
  /\ seen \subseteq Fact
  /\ \A i \in Invs, t \in Tenants, k \in {r.key : r \in Requests} :
       <<"created", i, t, k>> \in seen =>
         shared.inv[i] # NoRow /\ shared.inv[i].tenant = t /\ shared.inv[i].key = k
  /\ \A i \in Invs :
       <<"succeeded", i>> \in seen \/ <<"report", i>> \in seen => shared.reports[i] # NoRow

Inductive == StoreOK(shared) /\ LockOK /\ AttemptOK /\ RequestsOK /\ SeenOK

-----------------------------------------------------------------------------
(* The repositories, on any store. *)

\* set_status of an investigation changes that column of one row.
LEMMA StatusSet ==
  ASSUME NEW s \in Stores, NEW i \in Invs, s.inv[i] # NoRow, NEW st \in InvestigationStatus
  PROVE  /\ SetInvestigation(s, i, st) \in Stores
         /\ SetInvestigation(s, i, st).inv = [s.inv EXCEPT ![i] = [s.inv[i] EXCEPT !.status = st]]
         /\ SetInvestigation(s, i, st).job = s.job
         /\ SetInvestigation(s, i, st).reports = s.reports
<1>1. s.inv[i] \in InvestigationRecord
  BY DEF Stores
<1>2. [s.inv[i] EXCEPT !.status = st] \in InvestigationRecord
  BY <1>1 DEF InvestigationRecord
<1>3. SetInvestigation(s, i, st)
        = [s EXCEPT !.inv = [s.inv EXCEPT ![i] = [s.inv[i] EXCEPT !.status = st]]]
  BY DEF SetInvestigation
<1>4. PICK t \in [Invs -> InvestigationRecord \cup {NoRow}] :
        t = [s.inv EXCEPT ![i] = [s.inv[i] EXCEPT !.status = st]]
  BY <1>2 DEF Stores
<1> QED
  BY <1>3, <1>4 DEF Stores

\* set_status of a job, likewise.
LEMMA JobSet ==
  ASSUME NEW s \in Stores, NEW j \in Jobs, s.job[j] # NoRow, NEW st \in JobStatus
  PROVE  /\ SetJob(s, j, st) \in Stores
         /\ SetJob(s, j, st).job = [s.job EXCEPT ![j] = [s.job[j] EXCEPT !.status = st]]
         /\ SetJob(s, j, st).inv = s.inv
         /\ SetJob(s, j, st).reports = s.reports
<1>1. s.job[j] \in JobRecord
  BY DEF Stores
<1>2. [s.job[j] EXCEPT !.status = st] \in JobRecord
  BY <1>1 DEF JobRecord
<1>3. SetJob(s, j, st) = [s EXCEPT !.job = [s.job EXCEPT ![j] = [s.job[j] EXCEPT !.status = st]]]
  BY DEF SetJob
<1>4. PICK t \in [Jobs -> JobRecord \cup {NoRow}] :
        t = [s.job EXCEPT ![j] = [s.job[j] EXCEPT !.status = st]]
  BY <1>2 DEF Stores
<1> QED
  BY <1>3, <1>4 DEF Stores

\* The row of a job that was claimed.
ClaimedRow(r) ==
  [r EXCEPT !.status = "claimed", !.lease = Now + Lease, !.attempt_count = @ + 1]

\* claim replaces the row of the job.
LEMMA JobClaimed ==
  ASSUME NEW s \in Stores, NEW j \in Jobs, s.job[j] # NoRow
  PROVE  /\ ClaimJob(s, j, Now, Lease) \in Stores
         /\ ClaimJob(s, j, Now, Lease).job = [s.job EXCEPT ![j] = ClaimedRow(s.job[j])]
         /\ ClaimJob(s, j, Now, Lease).inv = s.inv
         /\ ClaimJob(s, j, Now, Lease).reports = s.reports
         /\ ClaimedRow(s.job[j]) \in JobRecord
<1>1. s.job[j] \in JobRecord
  BY DEF Stores
<1>2. ClaimedRow(s.job[j]) \in JobRecord
  <2>1. PICK r : r = s.job[j] /\ r \in JobRecord
    BY <1>1
  <2>2. [r EXCEPT !.status = "claimed"] \in JobRecord
    BY <2>1 DEF JobRecord, JobStatus
  <2>3. PICK q \in JobRecord : q = [r EXCEPT !.status = "claimed"]
    BY <2>2
  <2>4. [q EXCEPT !.lease = Now + Lease] \in JobRecord
    BY DEF JobRecord, Now, Lease
  <2>5. PICK z \in JobRecord : z = [q EXCEPT !.lease = Now + Lease]
    BY <2>4
  <2>6. z.attempt_count = r.attempt_count /\ r.attempt_count \in Nat
    BY <2>1, <2>3, <2>5 DEF JobRecord
  <2>7. [z EXCEPT !.attempt_count = r.attempt_count + 1] \in JobRecord
    BY <2>6 DEF JobRecord
  <2> QED
    BY <2>1, <2>3, <2>5, <2>7 DEF ClaimedRow
<1>3. ClaimJob(s, j, Now, Lease) = [s EXCEPT !.job = [s.job EXCEPT ![j] = ClaimedRow(s.job[j])]]
  BY <1>1 DEF ClaimJob, ClaimedRow, Stores, JobRecord
<1>4. PICK t \in [Jobs -> JobRecord \cup {NoRow}] :
        t = [s.job EXCEPT ![j] = ClaimedRow(s.job[j])]
  BY <1>2 DEF Stores
<1> QED
  BY <1>2, <1>3, <1>4 DEF Stores

\* Audit records, attempts and evidence have tables of their own.
LEMMA AuditAdded ==
  ASSUME NEW s \in Stores, NEW i \in Invs, NEW a \in AuditAction
  PROVE  /\ AddAudit(s, i, a) \in Stores
         /\ AddAudit(s, i, a).inv = s.inv
         /\ AddAudit(s, i, a).job = s.job
         /\ AddAudit(s, i, a).reports = s.reports
<1>1. AddAudit(s, i, a)
        = [s EXCEPT !.audit = [s.audit EXCEPT ![i] = [s.audit[i] EXCEPT ![a] = s.audit[i][a] + 1]]]
  BY DEF AddAudit, Stores
<1>2. [s.audit EXCEPT ![i] = [s.audit[i] EXCEPT ![a] = s.audit[i][a] + 1]]
        \in [Invs -> [AuditAction -> Nat]]
  BY DEF Stores
<1> QED
  BY <1>1, <1>2 DEF Stores

LEMMA AttemptAdded ==
  ASSUME NEW s \in Stores, NEW j \in Jobs, NEW n \in Nat, NEW o \in {"succeeded", "failed"}
  PROVE  /\ AddAttempt(s, j, n, o) \in Stores
         /\ AddAttempt(s, j, n, o).inv = s.inv
         /\ AddAttempt(s, j, n, o).job = s.job
         /\ AddAttempt(s, j, n, o).reports = s.reports
<1>1. PICK a \in AttemptRecord : a = [job |-> j, number |-> n, outcome |-> o]
  BY DEF AttemptRecord
<1>2. PICK t \in SUBSET AttemptRecord : t = s.attempts \cup {a}
  BY DEF Stores
<1>3. AddAttempt(s, j, n, o) = [s EXCEPT !.attempts = t]
  BY <1>1, <1>2 DEF AddAttempt
<1> QED
  BY <1>3 DEF Stores

LEMMA EvidenceAppended ==
  ASSUME NEW s \in Stores, NEW i \in Invs, s.inv[i] # NoRow, NEW ids \in SUBSET Evidence
  PROVE  /\ AppendEvidence(s, i, ids) \in Stores
         /\ AppendEvidence(s, i, ids).inv = s.inv
         /\ AppendEvidence(s, i, ids).job = s.job
         /\ AppendEvidence(s, i, ids).reports = s.reports
<1>1. s.inv[i].tenant \in Tenants /\ s.inv[i].run = "run"
  BY DEF Stores, InvestigationRecord
<1> DEFINE row == s.inv[i]
           there(e) == \E x \in s.evidence : x.tenant = row.tenant /\ x.run = row.run /\ x.id = e
           new == {[tenant |-> row.tenant, run |-> row.run, id |-> e, inv |-> i] :
                     e \in {x \in ids : ~there(x)}}
<1>2. new \in SUBSET EvidenceRecord
  BY <1>1 DEF EvidenceRecord
<1>3. AppendEvidence(s, i, ids) = [s EXCEPT !.evidence = s.evidence \cup new]
  BY DEF AppendEvidence
<1> HIDE DEF new
<1> QED
  BY <1>2, <1>3 DEF Stores

\* put replaces the report of one investigation.
LEMMA ReportPut ==
  ASSUME NEW s \in Stores, NEW i \in Invs, NEW ids \in SUBSET Evidence
  PROVE  /\ PutReport(s, i, ids) \in Stores
         /\ PutReport(s, i, ids).inv = s.inv
         /\ PutReport(s, i, ids).job = s.job
         /\ PutReport(s, i, ids).reports = [s.reports EXCEPT ![i] = [about |-> ids]]
<1>1. PutReport(s, i, ids) = [s EXCEPT !.reports = [s.reports EXCEPT ![i] = [about |-> ids]]]
  BY DEF PutReport
<1>2. PICK t \in [Invs -> ReportRecord \cup {NoRow}] :
        t = [s.reports EXCEPT ![i] = [about |-> ids]]
  BY DEF Stores, ReportRecord
<1> QED
  BY <1>1, <1>2 DEF Stores

-----------------------------------------------------------------------------
(* What a unit of work does to the store, whatever operations it is made of. *)

\* The attempt of job j left the store n: the investigation has status is, the
\* job has status js and one attempt more, and the report was put or not.
Settled(s, n, j, is, js, report) ==
  LET i == s.job[j].inv IN
  /\ n \in Stores
  /\ n.inv[i] # NoRow /\ n.inv[i].status = is
  /\ n.inv[i].tenant = s.inv[i].tenant /\ n.inv[i].key = s.inv[i].key
  /\ \A h \in Invs : h # i => n.inv[h] = s.inv[h] /\ n.reports[h] = s.reports[h]
  /\ n.job[j] # NoRow /\ n.job[j].status = js
  /\ n.job[j].inv = i /\ n.job[j].available_at = s.job[j].available_at
  /\ n.job[j].attempt_count = s.job[j].attempt_count + 1
  /\ \A k \in Jobs : k # j => n.job[k] = s.job[k]
  /\ report = "put" => n.reports[i] # NoRow
  /\ report = "none" => n.reports[i] = s.reports[i]

\* A job that can be claimed, with its investigation.
Ready(s, j) ==
  /\ StoreOK(s) /\ j \in Jobs
  /\ s.job[j] # NoRow /\ s.job[j].status = "queued"

\* What is known of a job that can be claimed: its investigation has no report yet.
LEMMA ReadyShape ==
  ASSUME NEW s, NEW j, Ready(s, j)
  PROVE  /\ s \in Stores /\ j \in Jobs /\ s.job[j] \in JobRecord /\ s.job[j] # NoRow
         /\ s.job[j].inv \in Invs /\ s.inv[s.job[j].inv] # NoRow
         /\ s.inv[s.job[j].inv] \in InvestigationRecord
         /\ s.reports[s.job[j].inv] = NoRow
<1>1. s \in Stores /\ j \in Jobs /\ s.job[j] # NoRow /\ s.job[j].status = "queued"
  BY DEF Ready, StoreOK
<1>2. s.job[j] \in JobRecord
  BY <1>1 DEF Stores
<1>3. s.job[j].inv \in Invs
  BY <1>2 DEF JobRecord
<1>4. s.inv[s.job[j].inv] # NoRow
  BY <1>1 DEF Ready, StoreOK, JobsOK
<1>5. s.inv[s.job[j].inv] \in InvestigationRecord
  BY <1>1, <1>3, <1>4 DEF Stores
<1>6. s.reports[s.job[j].inv] = NoRow
  BY <1>1, <1>3 DEF Ready, StoreOK, OutcomesOK
<1> QED
  BY <1>1, <1>2, <1>3, <1>4, <1>5, <1>6

\* A claim begins the attempt and leaves the investigation as it is.
LEMMA ClaimSettles ==
  ASSUME NEW s, NEW j, Ready(s, j)
  PROVE  Settled(s, ClaimJob(s, j, Now, Lease), j, s.inv[s.job[j].inv].status, "claimed", "none")
<1>1. PICK n : n = ClaimJob(s, j, Now, Lease)
  OBVIOUS
<1>2. /\ n \in Stores /\ n.job = [s.job EXCEPT ![j] = ClaimedRow(s.job[j])]
      /\ n.inv = s.inv /\ n.reports = s.reports /\ ClaimedRow(s.job[j]) \in JobRecord
  BY <1>1, ReadyShape, JobClaimed
<1>3. PICK r \in JobRecord : r = ClaimedRow(s.job[j])
  BY <1>2
<1>4. /\ r.status = "claimed" /\ r.inv = s.job[j].inv
      /\ r.available_at = s.job[j].available_at
      /\ r.attempt_count = s.job[j].attempt_count + 1
  BY <1>3, ReadyShape DEF ClaimedRow, JobRecord
<1>5. n.job[j] = r /\ \A k \in Jobs : k # j => n.job[k] = s.job[k]
  BY <1>2, <1>3, ReadyShape DEF Stores
<1>6. n.job[j] # NoRow
  BY <1>3, <1>5, NoRowAssumption
<1>7. Settled(s, n, j, s.inv[s.job[j].inv].status, "claimed", "none")
  BY <1>2, <1>4, <1>5, <1>6, ReadyShape DEF Settled
<1> QED
  BY <1>1, <1>7

\* Each further operation on the rows of the attempt.
LEMMA StatusSettles ==
  ASSUME NEW s, NEW j, Ready(s, j), NEW m, NEW is, NEW js, NEW rep,
         Settled(s, m, j, is, js, rep), NEW st \in InvestigationStatus
  PROVE  Settled(s, SetInvestigation(m, s.job[j].inv, st), j, st, js, rep)
<1>1. PICK n, i : n = SetInvestigation(m, s.job[j].inv, st) /\ i = s.job[j].inv
  OBVIOUS
<1>2. m \in Stores /\ i \in Invs /\ m.inv[i] # NoRow
  BY <1>1, ReadyShape DEF Settled
<1>3. /\ n \in Stores /\ n.inv = [m.inv EXCEPT ![i] = [m.inv[i] EXCEPT !.status = st]]
      /\ n.job = m.job /\ n.reports = m.reports
  BY <1>1, <1>2, StatusSet
<1>4. m.inv[i] \in InvestigationRecord
  BY <1>2 DEF Stores
<1>5. PICK r \in InvestigationRecord : r = [m.inv[i] EXCEPT !.status = st]
  BY <1>4 DEF InvestigationRecord
<1>6. r.status = st /\ r.tenant = m.inv[i].tenant /\ r.key = m.inv[i].key
  BY <1>4, <1>5 DEF InvestigationRecord
<1>7. n.inv[i] = r /\ \A h \in Invs : h # i => n.inv[h] = m.inv[h]
  BY <1>2, <1>3, <1>5 DEF Stores
<1>8. n.inv[i] # NoRow
  BY <1>5, <1>7, NoRowAssumption
<1>9. n \in Stores /\ n.job = m.job /\ n.reports = m.reports
  BY <1>3
<1>10. Settled(s, n, j, st, js, rep)
  BY <1>1, <1>6, <1>7, <1>8, <1>9 DEF Settled
<1> QED
  BY <1>1, <1>10

LEMMA JobSettles ==
  ASSUME NEW s, NEW j, Ready(s, j), NEW m, NEW is, NEW js, NEW rep,
         Settled(s, m, j, is, js, rep), NEW st \in JobStatus
  PROVE  Settled(s, SetJob(m, j, st), j, is, st, rep)
<1>1. PICK n : n = SetJob(m, j, st)
  OBVIOUS
<1>2. m \in Stores /\ j \in Jobs /\ m.job[j] # NoRow
  BY ReadyShape DEF Settled
<1>3. /\ n \in Stores /\ n.job = [m.job EXCEPT ![j] = [m.job[j] EXCEPT !.status = st]]
      /\ n.inv = m.inv /\ n.reports = m.reports
  BY <1>1, <1>2, JobSet
<1>4. m.job[j] \in JobRecord
  BY <1>2 DEF Stores
<1>5. PICK r \in JobRecord : r = [m.job[j] EXCEPT !.status = st]
  BY <1>4 DEF JobRecord
<1>6. /\ r.status = st /\ r.inv = m.job[j].inv /\ r.available_at = m.job[j].available_at
      /\ r.attempt_count = m.job[j].attempt_count
  BY <1>4, <1>5 DEF JobRecord
<1>7. n.job[j] = r /\ \A k \in Jobs : k # j => n.job[k] = m.job[k]
  BY <1>2, <1>3, <1>5 DEF Stores
<1>8. n.job[j] # NoRow
  BY <1>5, <1>7, NoRowAssumption
<1>9. Settled(s, n, j, is, st, rep)
  BY <1>3, <1>6, <1>7, <1>8 DEF Settled
<1> QED
  BY <1>1, <1>9

\* Operations on other tables show nothing.
LEMMA SameRowsSettle ==
  ASSUME NEW s, NEW j, NEW m, NEW is, NEW js, NEW rep, Settled(s, m, j, is, js, rep),
         NEW n \in Stores, n.inv = m.inv, n.job = m.job, n.reports = m.reports
  PROVE  Settled(s, n, j, is, js, rep)
  BY DEF Settled

LEMMA OthersSettle ==
  ASSUME NEW s, NEW j, Ready(s, j), NEW m, NEW is, NEW js, NEW rep,
         Settled(s, m, j, is, js, rep)
  PROVE  /\ \A a \in AuditAction : Settled(s, AddAudit(m, s.job[j].inv, a), j, is, js, rep)
         /\ \A ids \in SUBSET Evidence :
              Settled(s, AppendEvidence(m, s.job[j].inv, ids), j, is, js, rep)
         /\ \A x \in Nat, o \in {"succeeded", "failed"} :
              Settled(s, AddAttempt(m, j, x, o), j, is, js, rep)
<1>1. m \in Stores /\ j \in Jobs /\ s.job[j].inv \in Invs /\ m.inv[s.job[j].inv] # NoRow
  BY ReadyShape DEF Settled
<1>2. ASSUME NEW a \in AuditAction
      PROVE  Settled(s, AddAudit(m, s.job[j].inv, a), j, is, js, rep)
  BY <1>1, AuditAdded, SameRowsSettle
<1>3. ASSUME NEW ids \in SUBSET Evidence
      PROVE  Settled(s, AppendEvidence(m, s.job[j].inv, ids), j, is, js, rep)
  BY <1>1, EvidenceAppended, SameRowsSettle
<1>4. ASSUME NEW x \in Nat, NEW o \in {"succeeded", "failed"}
      PROVE  Settled(s, AddAttempt(m, j, x, o), j, is, js, rep)
  BY <1>1, AttemptAdded, SameRowsSettle
<1> QED
  BY <1>2, <1>3, <1>4

\* put makes it an attempt that has published.
LEMMA ReportSettles ==
  ASSUME NEW s, NEW j, Ready(s, j), NEW m, NEW is, NEW js, NEW rep,
         Settled(s, m, j, is, js, rep), NEW ids \in SUBSET Evidence
  PROVE  Settled(s, PutReport(m, s.job[j].inv, ids), j, is, js, "put")
<1>1. PICK n, i : n = PutReport(m, s.job[j].inv, ids) /\ i = s.job[j].inv
  OBVIOUS
<1>2. m \in Stores /\ i \in Invs
  BY <1>1, ReadyShape DEF Settled
<1>3. /\ n \in Stores /\ n.inv = m.inv /\ n.job = m.job
      /\ n.reports = [m.reports EXCEPT ![i] = [about |-> ids]]
  BY <1>1, <1>2, ReportPut
<1>4. /\ n.reports[i] = [about |-> ids]
      /\ \A h \in Invs : h # i => n.reports[h] = m.reports[h]
  BY <1>2, <1>3 DEF Stores
<1>5. n.reports[i] # NoRow
  BY <1>4, NoRowAssumption DEF ReportRecord
<1>6. Settled(s, n, j, is, js, "put")
  BY <1>1, <1>3, <1>4, <1>5 DEF Settled
<1> QED
  BY <1>1, <1>6

-----------------------------------------------------------------------------
(* The changes of the shared store, and what they keep. *)

Opens(s, n, i, j, t, k) ==
  /\ n \in Stores /\ s.inv[i] = NoRow /\ s.job[j] = NoRow /\ ByKey(s, t, k) = {}
  /\ n.inv[i] # NoRow /\ n.inv[i].status = "pending"
  /\ n.inv[i].tenant = t /\ n.inv[i].key = k
  /\ \A h \in Invs : h # i => n.inv[h] = s.inv[h]
  /\ n.job[j] # NoRow /\ n.job[j].inv = i /\ n.job[j].status = "queued"
  /\ n.job[j].available_at = Now /\ n.job[j].attempt_count = 0
  /\ \A l \in Jobs : l # j => n.job[l] = s.job[l]
  /\ n.reports = s.reports

Cancels(s, n, i) ==
  /\ n \in Stores /\ s.inv[i] # NoRow
  /\ n.inv[i] # NoRow /\ n.inv[i].status = "cancelled"
  /\ n.inv[i].tenant = s.inv[i].tenant /\ n.inv[i].key = s.inv[i].key
  /\ \A h \in Invs : h # i => n.inv[h] = s.inv[h]
  /\ n.job = s.job /\ n.reports = s.reports

Ends(s, n, j) ==
  /\ Ready(s, j)
  /\ \/ Settled(s, n, j, "failed", "failed", "none")
     \/ Settled(s, n, j, "succeeded", "succeeded", "put")
     \/ /\ Settled(s, n, j, "running", "queued", "none")
        /\ s.job[j].attempt_count + 1 < MaxAttempts
     \/ /\ Settled(s, n, j, "cancelled", "cancelled", "none")
        /\ s.inv[s.job[j].inv].status = "cancelled"

Changes(s, n) ==
  \/ n = s
  \/ \E i \in Invs, j \in Jobs, t \in Tenants, k \in {r.key : r \in Requests} :
       Opens(s, n, i, j, t, k)
  \/ \E i \in Invs : Cancels(s, n, i)
  \/ \E j \in Jobs : Ends(s, n, j)

\* A new investigation comes with the job it needs and under a key of its own.
LEMMA OpensOK ==
  ASSUME NEW s, NEW n, StoreOK(s), NEW i \in Invs, NEW j \in Jobs, NEW t, NEW k,
         Opens(s, n, i, j, t, k)
  PROVE  StoreOK(n)
<1>0. s \in Stores /\ n \in Stores
  BY DEF StoreOK, Opens
<1>1. ASSUME NEW l \in Jobs, s.job[l] # NoRow
      PROVE  s.job[l].inv \in Invs /\ s.job[l].inv # i /\ l # j
  <2>1. s.job[l] \in JobRecord
    BY <1>0, <1>1 DEF Stores
  <2> QED
    BY <1>1, <2>1 DEF JobRecord, StoreOK, JobsOK, Opens
<1>2. JobsOK(n)
  BY <1>1 DEF StoreOK, JobsOK, Opens
<1>3. OutcomesOK(n)
  <2>1. ASSUME NEW h \in Invs, h # i
        PROVE  /\ n.inv[h] # NoRow => \E l \in Jobs : n.job[l] # NoRow /\ n.job[l].inv = h
               /\ n.inv[h] = NoRow => n.reports[h] = NoRow
               /\ \A l \in Jobs : n.job[l] # NoRow /\ n.job[l].inv = h =>
                    /\ n.reports[h] # NoRow <=> n.job[l].status = "succeeded"
                    /\ n.inv[h].status = "succeeded" => n.job[l].status = "succeeded"
    BY <1>1, <2>1 DEF StoreOK, OutcomesOK, Opens
  <2>2. \A l \in Jobs : n.job[l] # NoRow /\ n.job[l].inv = i => l = j
    BY <1>1 DEF Opens
  <2>3. n.reports[i] = NoRow
    BY DEF StoreOK, OutcomesOK, Opens
  <2>4. n.inv[i] # NoRow /\ n.inv[i].status = "pending"
        /\ n.job[j] # NoRow /\ n.job[j].inv = i /\ n.job[j].status = "queued"
    BY DEF Opens
  <2> QED
    BY <2>1, <2>2, <2>3, <2>4 DEF OutcomesOK
<1>4. KeysOK(n)
  <2>1. ASSUME NEW h \in Invs, h # i, n.inv[h] # NoRow, n.inv[h].tenant = t, n.inv[h].key = k
        PROVE  k = NoRow
    BY <2>1 DEF Opens, ByKey
  <2> QED
    BY <2>1 DEF StoreOK, KeysOK, Opens
<1> QED
  BY <1>0, <1>2, <1>3, <1>4 DEF StoreOK

\* A cancellation takes back no report.
LEMMA CancelsOK ==
  ASSUME NEW s, NEW n, StoreOK(s), NEW i \in Invs, Cancels(s, n, i)
  PROVE  StoreOK(n)
<1>0. n \in Stores
  BY DEF Cancels
<1>1. \A h \in Invs : n.inv[h] = NoRow <=> s.inv[h] = NoRow
  BY DEF Cancels
<1>2. \A h \in Invs : s.inv[h] # NoRow =>
        n.inv[h].tenant = s.inv[h].tenant /\ n.inv[h].key = s.inv[h].key
  BY DEF Cancels
<1>3. \A h \in Invs : n.inv[h].status = "succeeded" => s.inv[h].status = "succeeded"
  BY DEF Cancels
<1>4. n.job = s.job /\ n.reports = s.reports
  BY DEF Cancels
<1>5. \A j \in Jobs : s.job[j] # NoRow => s.job[j].inv \in Invs
  BY DEF StoreOK, Stores, JobRecord
<1>6. JobsOK(n)
  BY <1>1, <1>4, <1>5 DEF StoreOK, JobsOK
<1>7. OutcomesOK(n)
  BY <1>1, <1>3, <1>4 DEF StoreOK, OutcomesOK
<1>8. KeysOK(n)
  BY <1>1, <1>2 DEF StoreOK, KeysOK
<1> QED
  BY <1>0, <1>6, <1>7, <1>8 DEF StoreOK

\* The end of an attempt leaves the store in order if it publishes exactly when it
\* succeeds.
LEMMA SettledOK ==
  ASSUME NEW s, NEW n, NEW j \in Jobs, Ready(s, j), NEW is, NEW js, NEW rep \in {"put", "none"},
         Settled(s, n, j, is, js, rep),
         js \in {"queued", "succeeded", "failed", "cancelled"},
         js = "succeeded" <=> rep = "put", is = "succeeded" => js = "succeeded"
  PROVE  StoreOK(n)
<1>0. PICK i \in Invs : i = s.job[j].inv
  BY ReadyShape
<1>1. /\ n \in Stores /\ StoreOK(s) /\ s.inv[i] # NoRow /\ s.job[j] # NoRow
      /\ s.reports[i] = NoRow
  BY <1>0, ReadyShape DEF Settled, Ready
<1>2. /\ n.inv[i] # NoRow /\ n.inv[i].status = is
      /\ n.inv[i].tenant = s.inv[i].tenant /\ n.inv[i].key = s.inv[i].key
      /\ \A h \in Invs : h # i => n.inv[h] = s.inv[h] /\ n.reports[h] = s.reports[h]
      /\ n.job[j] # NoRow /\ n.job[j].status = js
      /\ n.job[j].inv = i /\ n.job[j].available_at = s.job[j].available_at
      /\ \A k \in Jobs : k # j => n.job[k] = s.job[k]
      /\ rep = "put" => n.reports[i] # NoRow
      /\ rep = "none" => n.reports[i] = s.reports[i]
  BY <1>0 DEF Settled
<1>3. \A h \in Invs : n.inv[h] = NoRow <=> s.inv[h] = NoRow
  BY <1>1, <1>2
<1>4. \A k \in Jobs : /\ n.job[k] = NoRow <=> s.job[k] = NoRow
                      /\ s.job[k] # NoRow => n.job[k].inv = s.job[k].inv
  BY <1>0, <1>1, <1>2
<1>5. \A k \in Jobs : s.job[k] # NoRow => s.job[k].inv \in Invs
  BY <1>1 DEF StoreOK, Stores, JobRecord
<1>6. \A k \in Jobs : s.job[k] # NoRow /\ s.job[k].inv = i => k = j
  BY <1>0, <1>1 DEF StoreOK, JobsOK
<1>7. JobsOK(n)
  BY <1>1, <1>2, <1>3, <1>4, <1>5 DEF StoreOK, JobsOK
<1>8. OutcomesOK(n)
  <2>1. ASSUME NEW h \in Invs, n.inv[h] # NoRow
        PROVE  \E k \in Jobs : n.job[k] # NoRow /\ n.job[k].inv = h
    BY <1>1, <1>3, <1>4, <2>1 DEF StoreOK, OutcomesOK
  <2>2. ASSUME NEW h \in Invs, h # i
        PROVE  /\ n.inv[h] = NoRow => n.reports[h] = NoRow
               /\ \A k \in Jobs : n.job[k] # NoRow /\ n.job[k].inv = h =>
                    /\ n.reports[h] # NoRow <=> n.job[k].status = "succeeded"
                    /\ n.inv[h].status = "succeeded" => n.job[k].status = "succeeded"
    BY <1>1, <1>2, <2>2 DEF StoreOK, OutcomesOK
  <2>3. \A k \in Jobs : n.job[k] # NoRow /\ n.job[k].inv = i => k = j
    BY <1>4, <1>6
  <2>4. n.reports[i] # NoRow <=> n.job[j].status = "succeeded"
    BY <1>1, <1>2
  <2> QED
    BY <1>2, <2>1, <2>2, <2>3, <2>4 DEF OutcomesOK
<1>9. \A h \in Invs : s.inv[h] # NoRow =>
        n.inv[h].tenant = s.inv[h].tenant /\ n.inv[h].key = s.inv[h].key
  BY <1>2
<1>10. KeysOK(n)
  BY <1>1, <1>3, <1>9 DEF StoreOK, KeysOK
<1> QED
  BY <1>1, <1>7, <1>8, <1>10 DEF StoreOK

\* A change leads from a store in order to a store in order.
LEMMA ChangesOK ==
  ASSUME NEW s, NEW n, StoreOK(s), Changes(s, n)
  PROVE  StoreOK(n)
<1>1. ASSUME NEW j \in Jobs, Ends(s, n, j)
      PROVE  StoreOK(n)
  BY <1>1, SettledOK DEF Ends
<1> QED
  BY <1>1, OpensOK, CancelsOK DEF Changes

\* What is stored stays, with its tenant and key, and so do reports.
Grows(s, n) ==
  \A i \in Invs :
    /\ s.inv[i] # NoRow =>
         n.inv[i] # NoRow /\ n.inv[i].tenant = s.inv[i].tenant /\ n.inv[i].key = s.inv[i].key
    /\ s.reports[i] # NoRow => n.reports[i] # NoRow

\* No change takes anything back.
LEMMA ChangesGrow ==
  ASSUME NEW s, NEW n, StoreOK(s), Changes(s, n)
  PROVE  Grows(s, n)
<1>1. ASSUME NEW j \in Jobs, Ends(s, n, j)
      PROVE  Grows(s, n)
  <2>1. s.job[j].inv \in Invs /\ s.reports[s.job[j].inv] = NoRow
    BY <1>1, ReadyShape DEF Ends
  <2> QED
    BY <1>1, <2>1 DEF Ends, Settled, Grows
<1>2. ASSUME NEW i \in Invs, NEW j \in Jobs, NEW t, NEW k, Opens(s, n, i, j, t, k)
      PROVE  Grows(s, n)
  BY <1>2 DEF Opens, Grows
<1>3. ASSUME NEW i \in Invs, Cancels(s, n, i)
      PROVE  Grows(s, n)
  BY <1>3 DEF Cancels, Grows
<1>4. n = s => Grows(s, n)
  BY DEF Grows
<1> QED
  BY <1>1, <1>2, <1>3, <1>4 DEF Changes

-----------------------------------------------------------------------------
(* Each change is a step of Lifecycle. *)

\* The job of an investigation is the one that names it.
LEMMA JobNamed ==
  ASSUME StoreOK(shared), NEW i \in Invs, NEW k \in Jobs,
         shared.job[k] # NoRow, shared.job[k].inv = i
  PROVE  JobOf(i) = k
<1>1. \A j \in Jobs : shared.job[j] # NoRow /\ shared.job[j].inv = i <=> j = k
  BY DEF StoreOK, JobsOK
<1> QED
  BY <1>1 DEF JobOf

JobsNamed ==
  \A i \in Invs, k \in Jobs : shared.job[k] # NoRow /\ shared.job[k].inv = i => JobOf(i) = k

LEMMA JobsNamedHolds == StoreOK(shared) => JobsNamed
  BY JobNamed DEF JobsNamed

LEMMA JobsNamedNext == StoreOK(shared)' => JobsNamed'
  BY JobsNamedHolds, PTL

\* A change that leaves all investigations but one alone changes what can be
\* seen of that one, to what its rows say.
LEMMA OneSeen ==
  ASSUME StoreOK(shared), StoreOK(shared'), NEW i \in Invs, NEW k \in Jobs,
         shared'.job[k] # NoRow, shared'.job[k].inv = i, shared'.inv[i] # NoRow,
         \A h \in Invs : h # i =>
           shared'.inv[h] = shared.inv[h] /\ shared'.reports[h] = shared.reports[h],
         \A j \in Jobs : j # k => shared'.job[j] = shared.job[j],
         shared.job[k] # NoRow => shared.job[k].inv = i
  PROVE  /\ VisibleStatus' = [VisibleStatus EXCEPT ![i] = shared'.inv[i].status]
         /\ VisibleWork' = [VisibleWork EXCEPT ![i] = shared'.job[k].status]
         /\ VisibleUsed' = [VisibleUsed EXCEPT ![i] = shared'.job[k].attempt_count]
         /\ VisibleReport' = [VisibleReport EXCEPT ![i] = (shared'.reports[i] # NoRow)]
<1>0. JobsNamed /\ JobsNamed'
  BY JobsNamedHolds, JobsNamedNext
<1>1. JobOf(i)' = k
  BY <1>0 DEF JobsNamed
<1>2. ASSUME NEW h \in Invs, h # i, shared.inv[h] # NoRow
      PROVE  JobOf(h)' = JobOf(h) /\ shared'.job[JobOf(h)] = shared.job[JobOf(h)]
  <2>1. PICK j \in Jobs : shared.job[j] # NoRow /\ shared.job[j].inv = h
    BY <1>2 DEF StoreOK, OutcomesOK
  <2>2. j # k /\ shared'.job[j] = shared.job[j]
    BY <1>2, <2>1
  <2>3. JobOf(h) = j
    BY <1>0, <2>1 DEF JobsNamed
  <2>4. JobOf(h)' = j
    BY <1>0, <2>1, <2>2 DEF JobsNamed
  <2> QED
    BY <2>2, <2>3, <2>4
<1>3. VisibleStatus' = [VisibleStatus EXCEPT ![i] = shared'.inv[i].status]
  BY DEF VisibleStatus, Opened
<1>4. VisibleWork' = [VisibleWork EXCEPT ![i] = shared'.job[k].status]
  BY <1>1, <1>2 DEF VisibleWork, Opened
<1>5. VisibleUsed' = [VisibleUsed EXCEPT ![i] = shared'.job[k].attempt_count]
  BY <1>1, <1>2 DEF VisibleUsed, Opened
<1>6. VisibleReport' = [VisibleReport EXCEPT ![i] = (shared'.reports[i] # NoRow)]
  BY DEF VisibleReport
<1> QED
  BY <1>3, <1>4, <1>5, <1>6

\* Without a commit nothing can be seen.
LEMMA NothingSeen ==
  ASSUME UNCHANGED shared
  PROVE  UNCHANGED Promise!lifecycleVars
  BY DEF Promise!lifecycleVars, VisibleStatus, VisibleWork, VisibleUsed, VisibleReport,
         JobOf, Opened

\* A new investigation is seen as opened.
LEMMA OpensSeen ==
  ASSUME StoreOK(shared), StoreOK(shared'), NEW i \in Invs, NEW j \in Jobs, NEW t, NEW k,
         Opens(shared, shared', i, j, t, k)
  PROVE  Promise!Next
<1>1. /\ shared.inv[i] = NoRow /\ shared.job[j] = NoRow
      /\ shared'.inv[i] # NoRow /\ shared'.inv[i].status = "pending"
      /\ shared'.job[j] # NoRow /\ shared'.job[j].inv = i /\ shared'.job[j].status = "queued"
      /\ shared'.job[j].attempt_count = 0
      /\ \A h \in Invs : h # i => shared'.inv[h] = shared.inv[h]
      /\ \A l \in Jobs : l # j => shared'.job[l] = shared.job[l]
      /\ shared'.reports = shared.reports
  BY DEF Opens
<1>2. /\ VisibleStatus' = [VisibleStatus EXCEPT ![i] = "pending"]
      /\ VisibleWork' = [VisibleWork EXCEPT ![i] = "queued"]
      /\ VisibleUsed' = [VisibleUsed EXCEPT ![i] = 0]
  BY <1>1, OneSeen
<1>3. VisibleStatus[i] = "absent" /\ UNCHANGED VisibleUsed
  <2>1. VisibleStatus[i] = "absent" /\ VisibleUsed[i] = 0
    BY <1>1 DEF VisibleStatus, VisibleUsed, Opened
  <2>2. DOMAIN VisibleUsed = Invs /\ VisibleUsed = [h \in Invs |-> VisibleUsed[h]]
    BY DEF VisibleUsed
  <2> QED
    BY <1>2, <2>1, <2>2
<1>4. UNCHANGED VisibleReport
  BY <1>1 DEF VisibleReport
<1>5. Promise!Open(i)
  BY <1>2, <1>3, <1>4 DEF Promise!Open
<1> QED
  BY <1>5 DEF Promise!Next

\* A cancellation is seen as one.
LEMMA CancelsSeen ==
  ASSUME StoreOK(shared), NEW i \in Invs, Cancels(shared, shared', i)
  PROVE  Promise!Next
<1>1. /\ shared.inv[i] # NoRow
      /\ shared'.inv[i] # NoRow /\ shared'.inv[i].status = "cancelled"
      /\ \A h \in Invs : h # i => shared'.inv[h] = shared.inv[h]
      /\ shared'.job = shared.job /\ shared'.reports = shared.reports
  BY DEF Cancels
<1>2. \A h \in Invs : shared'.inv[h] = NoRow <=> shared.inv[h] = NoRow
  BY <1>1
<1>3. VisibleStatus' = [VisibleStatus EXCEPT ![i] = "cancelled"]
  BY <1>1 DEF VisibleStatus, Opened
<1>4. UNCHANGED <<VisibleWork, VisibleUsed, VisibleReport>>
  BY <1>1, <1>2 DEF VisibleWork, VisibleUsed, VisibleReport, JobOf, Opened
<1>5. shared.inv[i] \in InvestigationRecord
  BY <1>1 DEF StoreOK, Stores
<1>6. VisibleStatus[i] # "absent"
  BY <1>1, <1>5 DEF VisibleStatus, Opened, InvestigationRecord, InvestigationStatus
<1>7. Promise!Cancel(i)
  BY <1>3, <1>4, <1>6 DEF Promise!Cancel
<1> QED
  BY <1>7 DEF Promise!Next

\* The end of an attempt is seen as one of the four ends Lifecycle knows.
LEMMA EndsSeen ==
  ASSUME StoreOK(shared), StoreOK(shared'), NEW j \in Jobs, Ends(shared, shared', j)
  PROVE  Promise!Next
<1>0. PICK i \in Invs : i = shared.job[j].inv
  BY ReadyShape DEF Ends
<1>1. /\ shared.inv[i] # NoRow /\ shared.job[j] # NoRow /\ shared.job[j].status = "queued"
      /\ shared.reports[i] = NoRow
  BY <1>0, ReadyShape DEF Ends, Ready
<1>2. /\ shared'.inv[i] # NoRow /\ shared'.job[j] # NoRow /\ shared'.job[j].inv = i
      /\ shared'.job[j].attempt_count = shared.job[j].attempt_count + 1
      /\ \A h \in Invs : h # i =>
           shared'.inv[h] = shared.inv[h] /\ shared'.reports[h] = shared.reports[h]
      /\ \A k \in Jobs : k # j => shared'.job[k] = shared.job[k]
  BY <1>0 DEF Ends, Settled
<1>3. /\ VisibleStatus' = [VisibleStatus EXCEPT ![i] = shared'.inv[i].status]
      /\ VisibleWork' = [VisibleWork EXCEPT ![i] = shared'.job[j].status]
      /\ VisibleUsed' = [VisibleUsed EXCEPT ![i] = shared'.job[j].attempt_count]
      /\ VisibleReport' = [VisibleReport EXCEPT ![i] = (shared'.reports[i] # NoRow)]
  BY <1>0, <1>1, <1>2, OneSeen
<1>4. JobOf(i) = j
  BY <1>0, <1>1, JobNamed
<1>5. /\ VisibleStatus[i] = shared.inv[i].status /\ VisibleWork[i] = "queued"
      /\ VisibleUsed[i] = shared.job[j].attempt_count
  BY <1>1, <1>4 DEF VisibleStatus, VisibleWork, VisibleUsed, Opened
<1>6. VisibleUsed' = [VisibleUsed EXCEPT ![i] = VisibleUsed[i] + 1]
  BY <1>2, <1>3, <1>5
<1>7. shared'.reports[i] = shared.reports[i] => UNCHANGED VisibleReport
  BY <1>2 DEF VisibleReport
<1>8. CASE Settled(shared, shared', j, "failed", "failed", "none")
  <2>1. /\ shared'.inv[i].status = "failed" /\ shared'.job[j].status = "failed"
        /\ shared'.reports[i] = shared.reports[i]
    BY <1>0, <1>8 DEF Settled
  <2>2. Promise!Fail(i)
    BY <1>3, <1>5, <1>6, <1>7, <2>1 DEF Promise!Fail, Promise!Attempt
  <2> QED
    BY <2>2 DEF Promise!Next
<1>9. CASE Settled(shared, shared', j, "succeeded", "succeeded", "put")
  <2>1. /\ shared'.inv[i].status = "succeeded" /\ shared'.job[j].status = "succeeded"
        /\ shared'.reports[i] # NoRow
    BY <1>0, <1>9 DEF Settled
  <2>2. Promise!Succeed(i)
    BY <1>3, <1>5, <1>6, <2>1 DEF Promise!Succeed, Promise!Attempt
  <2> QED
    BY <2>2 DEF Promise!Next
<1>10. CASE /\ Settled(shared, shared', j, "running", "queued", "none")
            /\ shared.job[j].attempt_count + 1 < MaxAttempts
  <2>1. /\ shared'.inv[i].status = "running" /\ shared'.job[j].status = "queued"
        /\ shared'.reports[i] = shared.reports[i]
    BY <1>0, <1>10 DEF Settled
  <2>2. Promise!Retry(i)
    BY <1>3, <1>5, <1>6, <1>7, <1>10, <2>1 DEF Promise!Retry, Promise!Attempt
  <2> QED
    BY <2>2 DEF Promise!Next
<1>11. CASE /\ Settled(shared, shared', j, "cancelled", "cancelled", "none")
            /\ shared.inv[shared.job[j].inv].status = "cancelled"
  <2>1. /\ shared'.inv[i].status = "cancelled" /\ shared'.job[j].status = "cancelled"
        /\ shared'.reports[i] = shared.reports[i] /\ shared.inv[i].status = "cancelled"
    BY <1>0, <1>11 DEF Settled
  <2>2. Promise!Withdraw(i)
    BY <1>3, <1>5, <1>6, <1>7, <2>1 DEF Promise!Withdraw, Promise!Attempt
  <2> QED
    BY <2>2 DEF Promise!Next
<1> QED
  BY <1>8, <1>9, <1>10, <1>11 DEF Ends

LEMMA ChangesSeen ==
  ASSUME StoreOK(shared), Changes(shared, shared')
  PROVE  [Promise!Next]_Promise!lifecycleVars
<1>1. StoreOK(shared')
  BY ChangesOK
<1> QED
  BY <1>1, NothingSeen, OpensSeen, CancelsSeen, EndsSeen DEF Changes

-----------------------------------------------------------------------------
(* What each unit of work does to the shared store. *)

\* There is a first one among the jobs that can be claimed.
LEMMA FirstReady ==
  ASSUME NEW s, StoreOK(s), ClaimableJobs(s, Now) # {}
  PROVE  Ready(s, FirstJob(s, Now))
<1>1. PICK S : S = ClaimableJobs(s, Now)
  OBVIOUS
<1>2. S \subseteq Nat /\ S # {}
  BY <1>1, MemoryServiceAssumption DEF ClaimableJobs
<1>3. \A j \in S : /\ j \in Jobs /\ s.job[j] # NoRow /\ s.job[j].status = "queued"
                   /\ s.job[j].available_at = Now
  BY <1>1 DEF ClaimableJobs, StoreOK, JobsOK
<1>4. \E j \in S : \A k \in S : j <= k
  <2>1. PICK R : R = OpToRel(<, Nat)
    BY Zenon
  <2>2. IsWellFoundedOn(R, Nat)
    BY <2>1, NatLessThanWellFounded, Zenon
  <2>3. PICK j \in S : \A k \in S : <<k, j>> \notin R
    BY <1>2, <2>2, WFMin
  <2>4. \A k \in S : ~(k < j)
    BY <1>2, <2>1, <2>3 DEF OpToRel
  <2> QED
    BY <1>2, <2>4
<1>5. \E j \in S : \A k \in S :
         \/ s.job[j].available_at < s.job[k].available_at
         \/ s.job[j].available_at = s.job[k].available_at /\ j <= k
  BY <1>3, <1>4
<1>6. FirstJob(s, Now) \in S
  BY <1>1, <1>5 DEF FirstJob
<1> QED
  BY <1>3, <1>6 DEF Ready

\* A claim and set_status(RUNNING), not committed.
LEMMA ClaimedSettles ==
  ASSUME NEW s, NEW j, Ready(s, j)
  PROVE  Settled(s, Claimed(s, j), j, "running", "claimed", "none")
  BY ClaimSettles, StatusSettles DEF Claimed, InvestigationStatus

\* _terminal_fail ends the attempt without a report.
LEMMA FailedSettles ==
  ASSUME NEW s, NEW j, Ready(s, j), NEW m, NEW is, NEW js, NEW rep,
         Settled(s, m, j, is, js, rep)
  PROVE  Settled(s, Failed(m, j), j, "failed", "failed", rep)
<1>1. m.job[j].inv = s.job[j].inv
  BY DEF Settled
<1>2. PICK m1 : m1 = SetInvestigation(m, s.job[j].inv, "failed")
  OBVIOUS
<1>3. Settled(s, m1, j, "failed", js, rep)
  BY <1>2, StatusSettles DEF InvestigationStatus
<1>4. PICK m2 : m2 = SetJob(m1, j, "failed")
  OBVIOUS
<1>5. Settled(s, m2, j, "failed", "failed", rep)
  BY <1>3, <1>4, JobSettles DEF JobStatus
<1>6. Settled(s, AddAudit(m2, s.job[j].inv, "investigation.failed"), j, "failed", "failed", rep)
  BY <1>5, OthersSettle DEF AuditAction
<1> QED
  BY <1>1, <1>2, <1>4, <1>6 DEF Failed

\* The worker's copy, once it has claimed.
LEMMA AtWork ==
  ASSUME Inductive, NEW w \in Workers, pc[w] \in {"loading", "proposing"}
  PROVE  /\ current[w] \in Jobs /\ Ready(shared, current[w])
         /\ Settled(shared, working[w], current[w], "running", "claimed", "none")
<1>1. current[w] \in Jobs /\ Ready(shared, current[w])
      /\ working[w] = Claimed(shared, current[w])
  BY DEF Inductive, AttemptOK, Ready
<1> QED
  BY <1>1, ClaimedSettles

\* All a worker ever commits is the end of an attempt.
AttemptChanges(s, n) == n = s \/ \E j \in Jobs : Ends(s, n, j)

\* _record_attempt and the commit: the end of the attempt, or nothing where the
\* number of the attempt is taken.
LEMMA FinishChanges ==
  ASSUME Inductive, NEW w \in Workers, pc[w] \in {"loading", "proposing"}, NEW n,
         NEW outcome \in {"succeeded", "failed"}, Finish(w, n, outcome),
         \/ Settled(shared, n, current[w], "failed", "failed", "none")
         \/ Settled(shared, n, current[w], "succeeded", "succeeded", "put")
         \/ /\ Settled(shared, n, current[w], "running", "queued", "none")
            /\ shared.job[current[w]].attempt_count + 1 < MaxAttempts
  PROVE  AttemptChanges(shared, shared')
<1>0. PICK j \in Jobs : j = current[w]
  BY AtWork
<1>1. Ready(shared, j)
  BY <1>0, AtWork
<1>2. CASE AttemptTaken(n, j, n.job[j].attempt_count)
  BY <1>0, <1>2 DEF Finish, Leave, AttemptChanges
<1>3. CASE ~AttemptTaken(n, j, n.job[j].attempt_count)
  <2>1. shared' = AddAttempt(n, j, n.job[j].attempt_count, outcome)
    BY <1>0, <1>3 DEF Finish, CommitAndLeave
  <2>2. n \in Stores /\ n.job[j] # NoRow
    BY <1>0 DEF Settled
  <2>3. n.job[j].attempt_count \in Nat
    BY <2>2 DEF Stores, JobRecord
  <2>4. ASSUME NEW is, NEW js, NEW rep, Settled(shared, n, j, is, js, rep)
        PROVE  Settled(shared, shared', j, is, js, rep)
    BY <1>1, <2>1, <2>3, <2>4, OthersSettle
  <2>5. Ends(shared, shared', j)
    BY <1>0, <1>1, <2>4 DEF Ends
  <2> QED
    BY <2>5 DEF AttemptChanges
<1> QED
  BY <1>2, <1>3

\* Every part of run_once commits the end of an attempt or nothing.
LEMMA WorkerChanges ==
  ASSUME Inductive, NEW w \in Workers, Iterate(w)
  PROVE  AttemptChanges(shared, shared')
<1>1. CASE FindsNothing(w)
  <2>1. working[w] = shared
    BY <1>1, MemoryServiceAssumption DEF FindsNothing, Inductive, LockOK
  <2> QED
    BY <1>1, <2>1 DEF FindsNothing, CommitAndLeave, AttemptChanges
<1>2. CASE Claims(w)
  <2>0. working[w] = shared
    BY <1>2, MemoryServiceAssumption DEF Claims, Inductive, LockOK
  <2>1. PICK j : j = FirstJob(shared, Now)
    OBVIOUS
  <2>2. Ready(shared, j) /\ j \in Jobs
    BY <1>2, <2>0, <2>1, FirstReady, ReadyShape DEF Claims, Inductive
  <2>3. PICK m : m = ClaimJob(shared, j, Now, Lease)
    OBVIOUS
  <2>4. Settled(shared, m, j, shared.inv[shared.job[j].inv].status, "claimed", "none")
    BY <2>2, <2>3, ClaimSettles
  <2>5. m.job[j].inv = shared.job[j].inv
        /\ m.inv[m.job[j].inv].status = shared.inv[shared.job[j].inv].status
    BY <2>4 DEF Settled
  <2>6. CASE m.inv[m.job[j].inv].status = "cancelled"
    <3>1. shared' = SetJob(m, j, "cancelled")
      BY <1>2, <2>0, <2>1, <2>3, <2>6 DEF Claims, CommitAndLeave
    <3>2. Settled(shared, shared', j, "cancelled", "cancelled", "none")
      BY <2>2, <2>4, <2>5, <2>6, <3>1, JobSettles DEF JobStatus
    <3> QED
      BY <2>2, <2>5, <2>6, <3>2 DEF Ends, AttemptChanges
  <2>7. CASE m.inv[m.job[j].inv].status # "cancelled"
    BY <1>2, <2>0, <2>1, <2>3, <2>7 DEF Claims, Work, AttemptChanges
  <2> QED
    BY <2>6, <2>7
<1>3. CASE LoadFails(w)
  BY <1>3, AtWork, FailedSettles, FinishChanges DEF LoadFails
<1>4. CASE Loads(w)
  BY <1>4 DEF Loads, memoryVars, AttemptChanges
<1>5. CASE ProposalRefused(w)
  BY <1>5, AtWork, FailedSettles, FinishChanges DEF ProposalRefused
<1>6. CASE ProviderFails(w)
  <2>0. PICK j \in Jobs : j = current[w]
    BY <1>6, AtWork DEF ProviderFails
  <2>1. /\ Ready(shared, j) /\ Settled(shared, working[w], j, "running", "claimed", "none")
    BY <1>6, <2>0, AtWork DEF ProviderFails
  <2>2. working[w].job[j].attempt_count = shared.job[j].attempt_count + 1
        /\ shared.job[j].attempt_count \in Nat
    BY <2>1, ReadyShape DEF Settled, JobRecord
  <2>3. CASE working[w].job[j].attempt_count >= MaxAttempts
    <3>1. Finish(w, Failed(working[w], j), "failed")
      BY <1>6, <2>0, <2>3 DEF ProviderFails
    <3> QED
      BY <1>6, <2>0, <2>1, <3>1, FailedSettles, FinishChanges DEF ProviderFails
  <2>4. CASE ~(working[w].job[j].attempt_count >= MaxAttempts)
    <3>1. Finish(w, SetJob(working[w], j, "queued"), "failed")
      BY <1>6, <2>0, <2>4 DEF ProviderFails
    <3>2. Settled(shared, SetJob(working[w], j, "queued"), j, "running", "queued", "none")
      BY <2>1, JobSettles DEF JobStatus
    <3>3. shared.job[j].attempt_count + 1 < MaxAttempts
      BY <2>2, <2>4, MemoryServiceAssumption
    <3> QED
      BY <1>6, <2>0, <3>1, <3>2, <3>3, FinishChanges DEF ProviderFails
  <2> QED
    BY <2>3, <2>4
<1>7. CASE Publishes(w)
  <2>0. PICK j \in Jobs, i \in Invs : j = current[w] /\ i = shared.job[j].inv
    BY <1>7, AtWork, ReadyShape DEF Publishes
  <2>1. Ready(shared, j) /\ Settled(shared, working[w], j, "running", "claimed", "none")
    BY <1>7, <2>0, AtWork DEF Publishes
  <2>2. working[w].job[j].inv = i
    BY <2>0, <2>1 DEF Settled
  <2>3. PICK ids \in SUBSET Evidence :
          LET store == AppendEvidence(working[w], i, ids) IN
          IF store.reports[i] # NoRow THEN Finish(w, Failed(store, j), "failed")
          ELSE Finish(w, SetJob(AddAudit(SetInvestigation(PutReport(store, i, ids), i, "succeeded"),
                                         i, "report.persisted"), j, "succeeded"),
                      "succeeded")
    BY <1>7, <2>0, <2>2 DEF Publishes
  <2>4. PICK m0 : m0 = AppendEvidence(working[w], i, ids)
    OBVIOUS
  <2>5. Settled(shared, m0, j, "running", "claimed", "none")
    BY <2>0, <2>1, <2>4, OthersSettle
  <2>6. m0.reports[i] = NoRow
    <3>1. shared.reports[i] = NoRow
      BY <2>0, <2>1, ReadyShape
    <3>2. m0.reports[i] = shared.reports[i]
      BY <2>0, <2>5 DEF Settled
    <3> QED
      BY <3>1, <3>2
  <2>7. PICK m1 : m1 = PutReport(m0, i, ids)
    OBVIOUS
  <2>8. Settled(shared, m1, j, "running", "claimed", "put")
    BY <2>0, <2>1, <2>5, <2>7, ReportSettles
  <2>9. PICK m2 : m2 = SetInvestigation(m1, i, "succeeded")
    OBVIOUS
  <2>10. Settled(shared, m2, j, "succeeded", "claimed", "put")
    BY <2>0, <2>1, <2>8, <2>9, StatusSettles DEF InvestigationStatus
  <2>11. PICK m3 : m3 = AddAudit(m2, i, "report.persisted")
    OBVIOUS
  <2>12. Settled(shared, m3, j, "succeeded", "claimed", "put")
    BY <2>0, <2>1, <2>10, <2>11, OthersSettle DEF AuditAction
  <2>13. Settled(shared, SetJob(m3, j, "succeeded"), j, "succeeded", "succeeded", "put")
    BY <2>1, <2>12, JobSettles DEF JobStatus
  <2>14. Finish(w, SetJob(m3, j, "succeeded"), "succeeded")
    BY <2>3, <2>4, <2>6, <2>7, <2>9, <2>11
  <2> QED
    BY <1>7, <2>0, <2>13, <2>14, FinishChanges DEF Publishes
<1> QED
  BY <1>1, <1>2, <1>3, <1>4, <1>5, <1>6, <1>7 DEF Iterate

-----------------------------------------------------------------------------
(* Requests. *)

\* create and enqueue put one row each.
LEMMA RowsInserted ==
  ASSUME NEW s \in Stores, NEW i \in Invs, NEW j \in Jobs,
         NEW r \in InvestigationRecord, NEW q \in JobRecord
  PROVE  LET n == EnqueueJob(InsertInvestigation(s, i, r), j, q) IN
         /\ n \in Stores /\ n.inv = [s.inv EXCEPT ![i] = r]
         /\ n.job = [s.job EXCEPT ![j] = q] /\ n.reports = s.reports
<1>1. PICK m : m = InsertInvestigation(s, i, r)
  OBVIOUS
<1>2. PICK t \in [Invs -> InvestigationRecord \cup {NoRow}] : t = [s.inv EXCEPT ![i] = r]
  BY DEF Stores
<1>3. m \in Stores /\ m.inv = t /\ m.job = s.job /\ m.reports = s.reports
  BY <1>1, <1>2 DEF InsertInvestigation, Stores
<1>4. PICK u \in [Jobs -> JobRecord \cup {NoRow}] : u = [m.job EXCEPT ![j] = q]
  BY <1>3 DEF Stores
<1>5. PICK n : n = EnqueueJob(m, j, q)
  OBVIOUS
<1>6. n \in Stores /\ n.inv = m.inv /\ n.job = u /\ n.reports = m.reports
  BY <1>3, <1>4, <1>5 DEF EnqueueJob, Stores
<1> QED
  BY <1>1, <1>2, <1>3, <1>4, <1>5, <1>6

\* The request a handler is serving was let through.
LEMMA Serves ==
  ASSUME Inductive, NEW c \in Clients, pc[c] = "entered"
  PROVE  /\ c \in Procs /\ request[c] \in Requests /\ request[c] # NoRow
         /\ working[c] = shared
         /\ Tokens[request[c].token] \in Tenants
         /\ request[c].key \in {r.key : r \in Requests}
         /\ request[c].kind # "create" => request[c].inv \in Invs
<1>1. c \in Procs /\ request[c] # NoRow /\ Refusal(request[c]) = 0 /\ working[c] = shared
  BY MemoryServiceAssumption DEF Inductive, RequestsOK, LockOK
<1>2. request[c] \in Requests
  BY <1>1 DEF Inductive, RequestsOK
<1>3. PICK r \in Requests : r = request[c]
  BY <1>2
<1>4. Authenticated(r) /\ r.body # "invalid"
  BY <1>1, <1>3 DEF Refusal
<1> QED
  BY <1>1, <1>3, <1>4, MemoryServiceAssumption DEF Authenticated

\* Cardinalities are numbers.
LEMMA Finite ==
  /\ IsFiniteSet(Rows) /\ IsFiniteSet(Serving) /\ IsFiniteSet(Invs)
  /\ Cardinality(Rows) \in Nat /\ Cardinality(Serving) \in Nat /\ Cardinality(Invs) \in Nat
<1>1. Rows \in SUBSET Invs /\ Serving \in SUBSET Clients
  BY DEF Rows, Serving
<1>2. IsFiniteSet(Rows) /\ IsFiniteSet(Serving) /\ IsFiniteSet(Invs)
  BY <1>1, FS_Subset, MemoryServiceAssumption
<1> QED
  BY <1>2, FS_CardinalityType

\* A request that may create an investigation finds an id for it.
LEMMA FreeId ==
  ASSUME Inductive, NEW c \in Clients, pc[c] = "entered", request[c].kind = "create"
  PROVE  \E i \in Invs : shared.inv[i] = NoRow
<1>1. c \in Serving
  BY Serves DEF Serving
<1>2. Cardinality(Serving) # 0
  BY <1>1, Finite, FS_EmptySet
<1>3. Cardinality(Rows) # Cardinality(Invs)
  BY <1>2, Finite DEF Inductive, RequestsOK
<1>4. Rows # Invs
  BY <1>3
<1> QED
  BY <1>4 DEF Rows

\* A creation names the investigation of its key, or opens one.
LEMMA CreateChanges ==
  ASSUME Inductive, NEW c \in Clients, Create(c)
  PROVE  \E i \in Invs, t \in Tenants, k \in {r.key : r \in Requests} :
           /\ seen' = seen \cup {<<"created", i, t, k>>}
           /\ \/ shared' = shared /\ i \in ByKey(shared, t, k)
              \/ \E j \in Jobs : Opens(shared, shared', i, j, t, k)
<1>0. PICK t \in Tenants, k \in {r.key : r \in Requests} :
        t = Tokens[request[c].token] /\ k = request[c].key
  BY Serves DEF Create
<1>1. working[c] = shared
  BY Serves DEF Create
<1>2. PICK new : new = CHOOSE x \in Invs : shared.inv[x] = NoRow
  OBVIOUS
<1> DEFINE Found(i) == CommitAndLeave(c, shared) /\ Answer(c, 202, i, {<<"created", i, t, k>>})
           Made(j) ==
             /\ ByKey(shared, t, k) = {} /\ shared.job[j] = NoRow
             /\ CommitAndLeave(c,
                  AddAudit(EnqueueJob(InsertInvestigation(shared, new, Row(t, k)),
                                      j, QueuedJob(new, t)),
                           new, "investigation.created"))
             /\ Answer(c, 202, new, {<<"created", new, t, k>>})
<1>3. (\E i \in ByKey(shared, t, k) : Found(i)) \/ (\E j \in Jobs : Made(j))
  BY <1>0, <1>1, <1>2 DEF Create
<1>4. CASE \E i \in ByKey(shared, t, k) : Found(i)
  <2>1. PICK i \in ByKey(shared, t, k) : Found(i)
    BY <1>4
  <2>2. i \in Invs
    BY DEF ByKey
  <2> QED
    BY <2>1, <2>2 DEF CommitAndLeave, Answer
<1>5. ASSUME NEW j \in Jobs, Made(j)
      PROVE  \E i \in Invs :
               /\ seen' = seen \cup {<<"created", i, t, k>>}
               /\ Opens(shared, shared', i, j, t, k)
  <2>0. PICK i : i = new
    OBVIOUS
  <2>1. i \in Invs /\ shared.inv[i] = NoRow
    BY <1>2, <2>0, FreeId DEF Create
  <2>2. PICK r \in InvestigationRecord, q \in JobRecord : r = Row(t, k) /\ q = QueuedJob(i, t)
    BY <2>1 DEF Row, QueuedJob, InvestigationRecord, InvestigationStatus, JobRecord, JobStatus, Now
  <2>3. shared \in Stores
    BY DEF Inductive, StoreOK
  <2>4. PICK m : m = EnqueueJob(InsertInvestigation(shared, i, r), j, q)
    OBVIOUS
  <2>5. /\ m \in Stores /\ m.inv = [shared.inv EXCEPT ![i] = r]
        /\ m.job = [shared.job EXCEPT ![j] = q] /\ m.reports = shared.reports
    BY <2>1, <2>3, <2>4, RowsInserted
  <2>6. shared' = AddAudit(m, i, "investigation.created")
    BY <1>5, <2>0, <2>2, <2>4 DEF CommitAndLeave
  <2>7. /\ shared' \in Stores /\ shared'.inv = m.inv /\ shared'.job = m.job
        /\ shared'.reports = m.reports
    BY <2>1, <2>5, <2>6, AuditAdded DEF AuditAction
  <2>8. /\ shared'.inv[i] = r /\ \A h \in Invs : h # i => shared'.inv[h] = shared.inv[h]
    BY <2>1, <2>3, <2>5, <2>7 DEF Stores
  <2>9. /\ shared'.job[j] = q /\ \A l \in Jobs : l # j => shared'.job[l] = shared.job[l]
    BY <2>3, <2>5, <2>7 DEF Stores
  <2>10. r # NoRow /\ q # NoRow
    BY NoRowAssumption
  <2>11. r.status = "pending" /\ r.tenant = t /\ r.key = k
    BY <2>2 DEF Row
  <2>12. /\ q.inv = i /\ q.status = "queued" /\ q.available_at = Now /\ q.attempt_count = 0
    BY <2>2 DEF QueuedJob
  <2>13. Opens(shared, shared', i, j, t, k)
    BY <1>5, <2>1, <2>5, <2>7, <2>8, <2>9, <2>10, <2>11, <2>12 DEF Opens
  <2> QED
    BY <1>5, <2>0, <2>1, <2>13 DEF Answer
<1> QED
  BY <1>3, <1>4, <1>5

\* Readers are told what is committed.
LEMMA ReadsKeep ==
  ASSUME Inductive, NEW c \in Clients, ReadStatus(c) \/ ReadReport(c)
  PROVE  /\ shared' = shared
         /\ \E i \in Invs, fact \in SUBSET ({"succeeded", "report"} \X Invs) :
              /\ seen' = seen \cup fact
              /\ \A f \in fact : f[2] = i /\ shared.reports[i] # NoRow
<1>0. shared' = shared
  BY DEF ReadStatus, ReadReport, Leave
<1>1. PICK i \in Invs : i = request[c].inv /\ working[c] = shared
  BY Serves DEF ReadStatus, ReadReport
<1>2. seen' = seen => \E fact \in SUBSET ({"succeeded", "report"} \X Invs) :
        seen' = seen \cup fact /\ \A f \in fact : f[2] = i /\ shared.reports[i] # NoRow
  <2>1. {} \in SUBSET ({"succeeded", "report"} \X Invs)
    OBVIOUS
  <2> QED
    BY <2>1
<1>3. CASE ReadStatus(c)
  <2>1. CASE /\ Visible(shared, Tokens[request[c].token], i)
             /\ shared.inv[i].status = "succeeded"
    <3>1. seen' = seen \cup {<<"succeeded", i>>}
      BY <1>1, <1>3, <2>1 DEF ReadStatus, Answer
    <3>2. PICK j \in Jobs : shared.job[j] # NoRow /\ shared.job[j].inv = i
      BY <2>1 DEF Visible, Inductive, StoreOK, OutcomesOK
    <3>3. shared.reports[i] # NoRow
      BY <2>1, <3>2 DEF Inductive, StoreOK, OutcomesOK
    <3>4. {<<"succeeded", i>>} \in SUBSET ({"succeeded", "report"} \X Invs)
      OBVIOUS
    <3> QED
      BY <1>0, <3>1, <3>3, <3>4
  <2>2. CASE ~(/\ Visible(shared, Tokens[request[c].token], i)
               /\ shared.inv[i].status = "succeeded")
    <3>1. seen' = seen
      BY <1>1, <1>3, <2>2 DEF ReadStatus, Answer
    <3> QED
      BY <1>0, <1>2, <3>1
  <2> QED
    BY <2>1, <2>2
<1>4. CASE ReadReport(c)
  <2>1. CASE /\ Visible(shared, Tokens[request[c].token], i) /\ shared.reports[i] # NoRow
    <3>1. seen' = seen \cup {<<"report", i>>}
      BY <1>1, <1>4, <2>1 DEF ReadReport, Answer
    <3>2. {<<"report", i>>} \in SUBSET ({"succeeded", "report"} \X Invs)
      OBVIOUS
    <3> QED
      BY <1>0, <2>1, <3>1, <3>2
  <2>2. CASE ~(Visible(shared, Tokens[request[c].token], i) /\ shared.reports[i] # NoRow)
    <3>1. seen' = seen
      BY <1>1, <1>4, <2>2 DEF ReadReport, Answer
    <3> QED
      BY <1>0, <1>2, <3>1
  <2> QED
    BY <2>1, <2>2
<1> QED
  BY <1>3, <1>4

\* A cancellation is one, or finds nothing.
LEMMA CancelChanges ==
  ASSUME Inductive, NEW c \in Clients, CancelInvestigation(c)
  PROVE  /\ seen' = seen
         /\ shared' = shared \/ \E i \in Invs : Cancels(shared, shared', i)
<1>1. PICK i \in Invs : i = request[c].inv /\ working[c] = shared
  BY Serves DEF CancelInvestigation
<1>2. seen' = seen
  BY <1>1 DEF CancelInvestigation, Answer
<1>3. CASE Visible(shared, Tokens[request[c].token], i)
  <2>1. shared.inv[i] # NoRow /\ shared' = SetInvestigation(shared, i, "cancelled")
    BY <1>1, <1>3 DEF CancelInvestigation, CommitAndLeave, Visible
  <2>2. shared \in Stores
    BY DEF Inductive, StoreOK
  <2>3. PICK r : r = [shared.inv[i] EXCEPT !.status = "cancelled"]
    OBVIOUS
  <2>4. /\ shared' \in Stores /\ shared'.inv = [shared.inv EXCEPT ![i] = r]
        /\ shared'.job = shared.job /\ shared'.reports = shared.reports
    BY <2>1, <2>2, <2>3, StatusSet DEF InvestigationStatus
  <2>5. shared.inv[i] \in InvestigationRecord
    BY <2>1, <2>2 DEF Stores
  <2>6. /\ r \in InvestigationRecord /\ r.status = "cancelled"
        /\ r.tenant = shared.inv[i].tenant /\ r.key = shared.inv[i].key
    BY <2>3, <2>5 DEF InvestigationRecord, InvestigationStatus
  <2>7. shared'.inv[i] = r /\ \A h \in Invs : h # i => shared'.inv[h] = shared.inv[h]
    BY <2>2, <2>4 DEF Stores
  <2>8. r # NoRow
    BY <2>6, NoRowAssumption
  <2>9. Cancels(shared, shared', i)
    BY <2>1, <2>4, <2>6, <2>7, <2>8 DEF Cancels
  <2> QED
    BY <1>2, <2>9
<1>4. CASE ~Visible(shared, Tokens[request[c].token], i)
  BY <1>1, <1>2, <1>4 DEF CancelInvestigation, Leave
<1> QED
  BY <1>3, <1>4

-----------------------------------------------------------------------------
(* The inductive invariant. *)

LEMMA InductiveInit == Init => Inductive
<1> SUFFICES ASSUME Init PROVE Inductive
  OBVIOUS
<1>1. /\ shared = EmptyStore /\ working = [p \in Procs |-> NoRow] /\ holder = NoProc
      /\ pc = [p \in Procs |-> "idle"] /\ request = [c \in Clients |-> NoRow]
      /\ current = [w \in Workers |-> NoRow] /\ seen = {}
  BY DEF Init, MemoryInit
<1>2. /\ shared \in Stores /\ shared.reports = [i \in Invs |-> NoRow]
      /\ shared.inv = [i \in Invs |-> NoRow] /\ shared.job = [j \in Jobs |-> NoRow]
  BY <1>1 DEF EmptyStore, Stores
<1>3. StoreOK(shared)
  BY <1>2 DEF StoreOK, JobsOK, OutcomesOK, KeysOK
<1>4. LockOK
  BY <1>1, MemoryServiceAssumption DEF LockOK, Inside
<1>5. AttemptOK
  BY <1>1, MemoryServiceAssumption DEF AttemptOK
<1>6. RequestsOK
  <2>1. Rows = {} /\ Serving = {}
    BY <1>1, <1>2 DEF Rows, Serving
  <2>2. Cardinality(Rows) + Cardinality(Serving) <= Cardinality(Invs)
    BY <2>1, Finite, FS_EmptySet
  <2> QED
    BY <1>1, <2>2, MemoryServiceAssumption DEF RequestsOK
<1>7. SeenOK
  BY <1>1 DEF SeenOK
<1> QED
  BY <1>3, <1>4, <1>5, <1>6, <1>7 DEF Inductive

\* The end of a scope: nobody else is inside, so that nobody minds the commit.
LEMMA ExitKeeps ==
  ASSUME LockOK, AttemptOK, NEW p \in Procs, pc[p] \in Inside,
         pc' = [pc EXCEPT ![p] = "idle"], holder' = NoProc,
         working' = [working EXCEPT ![p] = NoRow], DOMAIN current' = Workers
  PROVE  LockOK' /\ AttemptOK'
<1>1. \A q \in Procs : pc'[q] \notin Inside
  BY DEF LockOK, Inside
<1>2. LockOK'
  BY <1>1, MemoryServiceAssumption DEF LockOK, Inside
<1>3. AttemptOK'
  BY <1>1, MemoryServiceAssumption DEF AttemptOK, Inside
<1> QED
  BY <1>2, <1>3

\* Steps of tasks outside the lock.
LEMMA OutsideKeeps ==
  ASSUME LockOK, AttemptOK, NEW p \in Procs, pc[p] \notin Inside,
         NEW x \in {"idle", "waiting"}, pc' = [pc EXCEPT ![p] = x],
         UNCHANGED <<shared, holder, current>>,
         working' = working \/ working' = [working EXCEPT ![p] = shared]
  PROVE  LockOK' /\ AttemptOK'
<1>1. \A q \in Procs : /\ pc'[q] \in Inside <=> pc[q] \in Inside
                       /\ pc'[q] \in Inside => pc'[q] = pc[q] /\ working'[q] = working[q]
  BY DEF LockOK, Inside
<1>2. LockOK'
  <2>1. pc' \in [Procs -> {"idle", "waiting"} \cup Inside] /\ DOMAIN working' = Procs
    BY DEF LockOK
  <2>2. \A c \in Clients : pc'[c] \notin {"loading", "proposing"}
    BY <1>1, MemoryServiceAssumption DEF LockOK, Inside
  <2>3. \A q \in Procs : pc'[q] = "entered" => working'[q] = shared'
    BY <1>1 DEF LockOK, Inside
  <2> QED
    BY <1>1, <2>1, <2>2, <2>3 DEF LockOK
<1>3. AttemptOK'
  BY <1>1, MemoryServiceAssumption DEF AttemptOK, Inside
<1> QED
  BY <1>2, <1>3

\* The lock is granted only when nobody is inside, with a fresh copy.
LEMMA GrantKeeps ==
  ASSUME LockOK, AttemptOK, NEW p \in Procs, Granted(p)
  PROVE  LockOK' /\ AttemptOK'
<1>1. /\ holder = NoProc /\ holder' = p /\ pc' = [pc EXCEPT ![p] = "entered"]
      /\ working' = [working EXCEPT ![p] = shared] /\ UNCHANGED <<shared, current>>
  BY DEF Granted, Enter
<1>2. \A q \in Procs : pc[q] \notin Inside
  BY <1>1, MemoryServiceAssumption DEF LockOK
<1>3. \A q \in Procs : q # p => pc'[q] \notin Inside
  BY <1>1, <1>2 DEF LockOK
<1>4. pc'[p] = "entered" /\ working'[p] = shared' /\ DOMAIN working' = Procs
  BY <1>1 DEF LockOK
<1>5. LockOK'
  <2>1. pc' \in [Procs -> {"idle", "waiting"} \cup Inside]
    BY <1>1 DEF LockOK, Inside
  <2>2. \A q \in Procs : pc'[q] \in Inside <=> holder' = q
    BY <1>1, <1>3, <1>4 DEF Inside
  <2>3. \A c \in Clients : pc'[c] \notin {"loading", "proposing"}
    BY <1>3, <1>4, MemoryServiceAssumption DEF Inside
  <2>4. \A q \in Procs : pc'[q] = "entered" => working'[q] = shared'
    BY <1>3, <1>4 DEF Inside
  <2> QED
    BY <1>1, <1>4, <2>1, <2>2, <2>3, <2>4 DEF LockOK
<1>6. AttemptOK'
  BY <1>1, <1>3, <1>4, MemoryServiceAssumption DEF AttemptOK, Inside
<1> QED
  BY <1>5, <1>6

\* A claim is the one difference between the copy and the shared store.
LEMMA ClaimKeeps ==
  ASSUME Inductive, NEW w \in Workers, Claims(w)
  PROVE  LockOK' /\ AttemptOK'
<1>0. w \in Procs /\ pc[w] = "entered" /\ working[w] = shared /\ LockOK /\ AttemptOK
  BY MemoryServiceAssumption DEF Claims, Inductive, LockOK
<1>1. PICK j, m : j = FirstJob(shared, Now) /\ m = ClaimJob(shared, j, Now, Lease)
  OBVIOUS
<1>2. Ready(shared, j) /\ j \in Jobs
  BY <1>0, <1>1, FirstReady, ReadyShape DEF Claims, Inductive
<1>3. CASE m.inv[m.job[j].inv].status = "cancelled"
  <2>1. /\ pc' = [pc EXCEPT ![w] = "idle"] /\ holder' = NoProc
        /\ working' = [working EXCEPT ![w] = NoRow]
        /\ current' = [current EXCEPT ![w] = NoRow]
    BY <1>0, <1>1, <1>3 DEF Claims, CommitAndLeave, End
  <2>2. DOMAIN current' = Workers
    BY <1>0, <2>1 DEF AttemptOK
  <2> QED
    BY <1>0, <2>1, <2>2, ExitKeeps DEF Inside
<1>4. CASE m.inv[m.job[j].inv].status # "cancelled"
  <2>1. /\ pc' = [pc EXCEPT ![w] = "loading"] /\ UNCHANGED <<shared, holder>>
        /\ working' = [working EXCEPT ![w] = SetInvestigation(m, m.job[j].inv, "running")]
        /\ current' = [current EXCEPT ![w] = j]
    BY <1>0, <1>1, <1>4 DEF Claims, Work
  <2>2. m.job[j].inv = shared.job[j].inv
    BY <1>1, <1>2, ClaimSettles DEF Settled
  <2>3. working' = [working EXCEPT ![w] = Claimed(shared, j)]
    BY <1>1, <2>1, <2>2 DEF Claimed
  <2>4. PICK copy : copy = Claimed(shared, j)
    OBVIOUS
  <2>5. /\ pc'[w] = "loading" /\ \A q \in Procs : q # w => pc'[q] = pc[q] /\ pc[q] \notin Inside
        /\ working'[w] = copy /\ DOMAIN working' = Procs
    BY <1>0, <2>1, <2>3, <2>4 DEF LockOK, Inside
  <2>6. current'[w] = j /\ DOMAIN current' = Workers
    BY <1>0, <2>1 DEF AttemptOK
  <2>7. shared.job[j] # NoRow /\ shared.job[j].status = "queued"
    BY <1>2 DEF Ready
  <2>8. LockOK'
    <3>1. pc' \in [Procs -> {"idle", "waiting"} \cup Inside]
      BY <1>0, <2>1 DEF LockOK, Inside
    <3>2. \A q \in Procs : pc'[q] \in Inside <=> holder' = q
      BY <1>0, <2>1, <2>5 DEF LockOK, Inside
    <3>3. \A c \in Clients : pc'[c] \notin {"loading", "proposing"}
      BY <2>5, MemoryServiceAssumption DEF Inside
    <3>4. \A q \in Procs : pc'[q] # "entered"
      BY <2>5 DEF Inside
    <3> QED
      BY <1>0, <2>1, <2>5, <3>1, <3>2, <3>3, <3>4 DEF LockOK
  <2>9. AttemptOK'
    <3>1. \A v \in Workers : pc'[v] \in {"loading", "proposing"} => v = w
      BY <2>5, MemoryServiceAssumption DEF Inside
    <3>2. /\ current'[w] \in Jobs /\ shared'.job[current'[w]] # NoRow
          /\ shared'.job[current'[w]].status = "queued"
          /\ working'[w] = Claimed(shared', current'[w])
      BY <1>2, <2>1, <2>4, <2>5, <2>6, <2>7
    <3> QED
      BY <2>6, <3>1, <3>2 DEF AttemptOK
  <2> QED
    BY <2>8, <2>9
<1> QED
  BY <1>3, <1>4

\* Waiting for telemetry changes nothing.
LEMMA LoadKeeps ==
  ASSUME LockOK, AttemptOK, NEW w \in Workers, Loads(w)
  PROVE  LockOK' /\ AttemptOK'
<1>1. /\ w \in Procs /\ pc[w] = "loading" /\ pc' = [pc EXCEPT ![w] = "proposing"]
      /\ UNCHANGED <<shared, working, holder, current>>
  BY MemoryServiceAssumption DEF Loads, memoryVars
<1>2. /\ pc'[w] = "proposing" /\ \A q \in Procs : q # w => pc'[q] = pc[q]
  BY <1>1 DEF LockOK
<1>3. LockOK'
  <2>1. pc' \in [Procs -> {"idle", "waiting"} \cup Inside]
    BY <1>1 DEF LockOK, Inside
  <2>2. \A q \in Procs : pc'[q] \in Inside <=> holder' = q
    BY <1>1, <1>2 DEF LockOK, Inside
  <2>3. \A c \in Clients : pc'[c] \notin {"loading", "proposing"}
    BY <1>2, MemoryServiceAssumption DEF LockOK
  <2> QED
    BY <1>1, <1>2, <2>1, <2>2, <2>3 DEF LockOK
<1>4. AttemptOK'
  BY <1>1, <1>2, MemoryServiceAssumption DEF AttemptOK
<1> QED
  BY <1>3, <1>4

\* What a worker does other than to claim and to go on ends its scope.
LEMMA WorkerExits ==
  ASSUME Inductive, NEW w \in Workers,
         \/ FindsNothing(w) \/ LoadFails(w) \/ ProposalRefused(w) \/ ProviderFails(w)
         \/ Publishes(w) \/ Interrupt(w)
  PROVE  LockOK' /\ AttemptOK'
<1>1. w \in Procs /\ LockOK /\ AttemptOK /\ pc[w] \in Inside
  BY MemoryServiceAssumption DEF Inductive, Inside, FindsNothing, LoadFails, ProposalRefused,
     ProviderFails, Publishes, Interrupt
<1>2. End(w)
  BY DEF FindsNothing, LoadFails, ProposalRefused, ProviderFails, Publishes, Interrupt, Finish
<1>3. holder' = NoProc /\ working' = [working EXCEPT ![w] = NoRow]
  BY DEF FindsNothing, LoadFails, ProposalRefused, ProviderFails, Publishes, Interrupt, Finish,
     CommitAndLeave, Leave
<1>4. DOMAIN current' = Workers
  BY <1>1, <1>2 DEF End, AttemptOK
<1> QED
  BY <1>1, <1>2, <1>3, <1>4, ExitKeeps DEF End

\* A handler that was granted the lock answers and leaves.
LEMMA HandleExits ==
  ASSUME Inductive, NEW c \in Clients, Handle(c)
  PROVE  /\ pc[c] = "entered" /\ pc' = [pc EXCEPT ![c] = "idle"]
         /\ request' = [request EXCEPT ![c] = NoRow]
         /\ LockOK' /\ AttemptOK'
<1>1. c \in Procs /\ LockOK /\ AttemptOK /\ pc[c] = "entered"
  BY MemoryServiceAssumption DEF Inductive, Handle, Create, ReadStatus, ReadReport,
     CancelInvestigation
<1>2. pc' = [pc EXCEPT ![c] = "idle"] /\ request' = [request EXCEPT ![c] = NoRow]
  BY DEF Handle, Create, ReadStatus, ReadReport, CancelInvestigation, Answer
<1>3. holder' = NoProc /\ working' = [working EXCEPT ![c] = NoRow]
  BY DEF Handle, Create, ReadStatus, ReadReport, CancelInvestigation, CommitAndLeave, Leave
<1>4. DOMAIN current' = Workers
  BY <1>1 DEF Handle, Create, ReadStatus, ReadReport, CancelInvestigation, AttemptOK
<1> QED
  BY <1>1, <1>2, <1>3, <1>4, ExitKeeps DEF Inside

\* A step that serves no request and stores no investigation needs no id.
LEMMA RequestsKept ==
  ASSUME RequestsOK, UNCHANGED request, Rows' = Rows,
         \A c \in Clients : pc'[c] = "idle" <=> pc[c] = "idle"
  PROVE  RequestsOK'
<1>1. Serving' = Serving
  BY DEF Serving
<1> QED
  BY <1>1 DEF RequestsOK

\* Workers store no investigation.
LEMMA AttemptRows ==
  ASSUME Inductive, AttemptChanges(shared, shared')
  PROVE  Rows' = Rows
<1>1. ASSUME NEW j \in Jobs, Ends(shared, shared', j)
      PROVE  \A i \in Invs : shared'.inv[i] = NoRow <=> shared.inv[i] = NoRow
  <2>1. PICK h \in Invs : h = shared.job[j].inv /\ shared.inv[h] # NoRow
    BY <1>1, ReadyShape DEF Ends
  <2>2. shared'.inv[h] # NoRow /\ \A i \in Invs : i # h => shared'.inv[i] = shared.inv[i]
    BY <1>1, <2>1 DEF Ends, Settled
  <2> QED
    BY <2>1, <2>2
<1> QED
  BY <1>1 DEF AttemptChanges, Rows

LEMMA FiniteNext ==
  /\ IsFiniteSet(Rows') /\ IsFiniteSet(Serving')
  /\ Cardinality(Rows') \in Nat /\ Cardinality(Serving') \in Nat
<1>1. Rows' \in SUBSET Invs /\ Serving' \in SUBSET Clients
  BY DEF Rows, Serving
<1>2. IsFiniteSet(Rows') /\ IsFiniteSet(Serving')
  BY <1>1, FS_Subset, MemoryServiceAssumption
<1> QED
  BY <1>2, FS_CardinalityType

\* A request is accepted only while an id is left for it.
LEMMA ReceiveRequests ==
  ASSUME Inductive, NEW c \in Clients, Receive(c)
  PROVE  RequestsOK'
<1>0. RequestsOK /\ c \in Procs /\ pc \in [Procs -> {"idle", "waiting"} \cup Inside]
  BY MemoryServiceAssumption DEF Inductive, LockOK
<1>1. PICK r \in Requests : /\ Refusal(r) = 0 /\ (r.kind = "create" => IdsLeft)
                            /\ request' = [request EXCEPT ![c] = r]
  BY DEF Receive
<1>2. /\ pc[c] = "idle" /\ pc' = [pc EXCEPT ![c] = "waiting"] /\ UNCHANGED shared
  BY DEF Receive, Arrive
<1>3. request[c] = NoRow /\ r # NoRow
  BY <1>0, <1>2, NoRowAssumption DEF RequestsOK
<1>4. /\ request' \in [Clients -> Requests \cup {NoRow}] /\ request'[c] = r
      /\ \A d \in Clients : d # c => request'[d] = request[d]
  BY <1>0, <1>1 DEF RequestsOK
<1>5. /\ pc'[c] = "waiting" /\ \A d \in Clients : d # c => pc'[d] = pc[d]
  BY <1>0, <1>2, MemoryServiceAssumption
<1>6. \A d \in Clients : /\ pc'[d] = "idle" <=> request'[d] = NoRow
                         /\ request'[d] # NoRow => Refusal(request'[d]) = 0
  BY <1>0, <1>1, <1>3, <1>4, <1>5 DEF RequestsOK
<1>7. Rows' = Rows
  BY <1>2 DEF Rows
<1>8. Cardinality(Rows') + Cardinality(Serving') <= Cardinality(Invs)
  <2>1. CASE r.kind = "create"
    <3>1. Serving' = Serving \cup {c} /\ c \notin Serving
      BY <1>3, <1>4, <2>1 DEF Serving
    <3>2. Cardinality(Serving') = Cardinality(Serving) + 1
      BY <3>1, Finite, FS_AddElement
    <3>3. Cardinality(Rows) + Cardinality(Serving) < Cardinality(Invs)
      BY <1>1, <2>1 DEF IdsLeft, Rows, Serving
    <3> QED
      BY <1>7, <3>2, <3>3, Finite
  <2>2. CASE r.kind # "create"
    <3>1. Serving' = Serving
      BY <1>3, <1>4, <2>2 DEF Serving
    <3> QED
      BY <1>0, <1>7, <3>1 DEF RequestsOK
  <2> QED
    BY <2>1, <2>2
<1> QED
  BY <1>4, <1>6, <1>8 DEF RequestsOK

\* An answer gives the id back that it did not need.
LEMMA HandleRequests ==
  ASSUME Inductive, NEW c \in Clients, Handle(c)
  PROVE  RequestsOK'
<1>0. RequestsOK /\ c \in Procs /\ pc \in [Procs -> {"idle", "waiting"} \cup Inside]
  BY MemoryServiceAssumption DEF Inductive, LockOK
<1>1. /\ pc[c] = "entered" /\ pc' = [pc EXCEPT ![c] = "idle"]
      /\ request' = [request EXCEPT ![c] = NoRow]
  BY HandleExits
<1>2. /\ request' \in [Clients -> Requests \cup {NoRow}] /\ request'[c] = NoRow
      /\ \A d \in Clients : d # c => request'[d] = request[d]
  BY <1>0, <1>1 DEF RequestsOK
<1>3. /\ pc'[c] = "idle" /\ \A d \in Clients : d # c => pc'[d] = pc[d]
  BY <1>0, <1>1, MemoryServiceAssumption
<1>4. \A d \in Clients : /\ pc'[d] = "idle" <=> request'[d] = NoRow
                         /\ request'[d] # NoRow => Refusal(request'[d]) = 0
  BY <1>0, <1>2, <1>3 DEF RequestsOK
<1>5. Serving' = Serving \ {c}
  BY <1>2 DEF Serving
<1>6. Cardinality(Serving') <= Cardinality(Serving)
      /\ (c \in Serving => Cardinality(Serving') = Cardinality(Serving) - 1)
  <2>1. Cardinality(Serving \ {c})
          = IF c \in Serving THEN Cardinality(Serving) - 1 ELSE Cardinality(Serving)
    BY Finite, FS_RemoveElement
  <2> QED
    BY <1>5, <2>1, Finite
<1>7. CASE Create(c)
  <2>1. c \in Serving
    BY <1>1, <1>7, Serves DEF Create, Serving
  <2>2. PICK i \in Invs, t \in Tenants, k \in {r.key : r \in Requests} :
          \/ shared' = shared
          \/ \E j \in Jobs : Opens(shared, shared', i, j, t, k)
    BY <1>7, CreateChanges
  <2>3. Rows' = Rows \/ Rows' = Rows \cup {i}
    BY <2>2 DEF Opens, Rows
  <2>4. Cardinality(Rows') <= Cardinality(Rows) + 1
    <3>1. Cardinality(Rows \cup {i})
            = IF i \in Rows THEN Cardinality(Rows) ELSE Cardinality(Rows) + 1
      BY Finite, FS_AddElement
    <3>2. CASE Rows' = Rows
      BY <3>2, Finite
    <3>3. CASE Rows' = Rows \cup {i}
      BY <3>1, <3>3, Finite
    <3> QED
      BY <2>3, <3>2, <3>3
  <2> QED
    BY <1>0, <1>2, <1>4, <1>6, <2>1, <2>4, Finite, FiniteNext DEF RequestsOK
<1>8. CASE ~Create(c)
  <2>1. Rows' = Rows
    BY <1>8, ReadsKeep, CancelChanges DEF Handle, Cancels, Rows
  <2> QED
    BY <1>0, <1>2, <1>4, <1>6, <2>1, Finite, FiniteNext DEF RequestsOK
<1> QED
  BY <1>7, <1>8

\* Facts about a store hold of every store that grew from it.
LEMMA SeenKept ==
  ASSUME SeenOK, Grows(shared, shared'), UNCHANGED seen
  PROVE  SeenOK'
  BY DEF SeenOK, Grows

\* The id a creation returns is the id of a stored row.
LEMMA CreateTold ==
  ASSUME Inductive, NEW c \in Clients, Create(c), Grows(shared, shared')
  PROVE  SeenOK'
<1>1. PICK i \in Invs, t \in Tenants, k \in {r.key : r \in Requests} :
        /\ seen' = seen \cup {<<"created", i, t, k>>}
        /\ \/ shared' = shared /\ i \in ByKey(shared, t, k)
           \/ \E j \in Jobs : Opens(shared, shared', i, j, t, k)
  BY CreateChanges
<1>2. shared'.inv[i] # NoRow /\ shared'.inv[i].tenant = t /\ shared'.inv[i].key = k
  BY <1>1 DEF ByKey, Opens
<1>3. seen' \subseteq Fact
  BY <1>1 DEF Inductive, SeenOK, Fact
<1>4. ASSUME NEW h \in Invs, NEW u \in Tenants, NEW l \in {r.key : r \in Requests},
             <<"created", h, u, l>> \in seen'
      PROVE  shared'.inv[h] # NoRow /\ shared'.inv[h].tenant = u /\ shared'.inv[h].key = l
  <2>1. CASE <<"created", h, u, l>> \in seen
    BY <2>1 DEF Inductive, SeenOK, Grows
  <2>2. CASE <<"created", h, u, l>> = <<"created", i, t, k>>
    BY <1>2, <2>2
  <2> QED
    BY <1>1, <1>4, <2>1, <2>2
<1>5. ASSUME NEW h \in Invs, <<"succeeded", h>> \in seen' \/ <<"report", h>> \in seen'
      PROVE  shared'.reports[h] # NoRow
  <2>1. <<"succeeded", h>> \in seen \/ <<"report", h>> \in seen
    BY <1>1, <1>5
  <2> QED
    BY <2>1 DEF Inductive, SeenOK, Grows
<1> QED
  BY <1>3, <1>4, <1>5 DEF SeenOK

\* A reader is told of a success or a report only where there is a report.
LEMMA ReadTold ==
  ASSUME Inductive, NEW c \in Clients, ReadStatus(c) \/ ReadReport(c)
  PROVE  SeenOK'
<1>1. PICK i \in Invs, fact \in SUBSET ({"succeeded", "report"} \X Invs) :
        /\ shared' = shared /\ seen' = seen \cup fact
        /\ \A f \in fact : f[2] = i /\ shared.reports[i] # NoRow
  BY ReadsKeep
<1>2. seen' \subseteq Fact
  BY <1>1 DEF Inductive, SeenOK, Fact
<1>3. ASSUME NEW h \in Invs, NEW u \in Tenants, NEW l \in {r.key : r \in Requests},
             <<"created", h, u, l>> \in seen'
      PROVE  shared'.inv[h] # NoRow /\ shared'.inv[h].tenant = u /\ shared'.inv[h].key = l
  <2>1. <<"created", h, u, l>> \in seen
    BY <1>1, <1>3
  <2> QED
    BY <1>1, <2>1 DEF Inductive, SeenOK
<1>4. ASSUME NEW h \in Invs, <<"succeeded", h>> \in seen' \/ <<"report", h>> \in seen'
      PROVE  shared'.reports[h] # NoRow
  <2>1. CASE <<"succeeded", h>> \in seen \/ <<"report", h>> \in seen
    BY <1>1, <2>1 DEF Inductive, SeenOK
  <2>2. CASE <<"succeeded", h>> \in fact \/ <<"report", h>> \in fact
    BY <1>1, <2>2
  <2> QED
    BY <1>1, <1>4, <2>1, <2>2
<1> QED
  BY <1>2, <1>3, <1>4 DEF SeenOK

\* Every step is one of the changes of the shared store.
LEMMA StepChanges ==
  ASSUME Inductive, [Next]_vars
  PROVE  Changes(shared, shared')
<1>1. CASE UNCHANGED vars
  BY <1>1 DEF vars, memoryVars, Changes
<1>2. ASSUME NEW c \in Clients, Refuse(c) \/ Receive(c) \/ Handle(c)
      PROVE  Changes(shared, shared')
  <2>1. CASE Refuse(c) \/ Receive(c)
    BY <2>1 DEF Refuse, Receive, Arrive, memoryVars, Changes
  <2>2. CASE Create(c)
    BY <2>2, CreateChanges DEF Changes
  <2>3. CASE ReadStatus(c) \/ ReadReport(c)
    BY <2>3, ReadsKeep DEF Changes
  <2>4. CASE CancelInvestigation(c)
    BY <2>4, CancelChanges DEF Changes
  <2> QED
    BY <1>2, <2>1, <2>2, <2>3, <2>4 DEF Handle
<1>3. ASSUME NEW p \in Procs, Granted(p)
      PROVE  Changes(shared, shared')
  BY <1>3 DEF Granted, Enter, Changes
<1>4. ASSUME NEW w \in Workers, Begin(w) \/ Iterate(w) \/ Interrupt(w)
      PROVE  Changes(shared, shared')
  <2>1. CASE Begin(w) \/ Interrupt(w)
    BY <2>1 DEF Begin, Interrupt, Arrive, Leave, Changes
  <2>2. CASE Iterate(w)
    BY <2>2, WorkerChanges DEF AttemptChanges, Changes
  <2> QED
    BY <1>4, <2>1, <2>2
<1> QED
  BY <1>1, <1>2, <1>3, <1>4 DEF Next

\* The steps of handlers keep the rest of the invariant; then those of the lock and
\* those of workers.
LEMMA ClientStep ==
  ASSUME Inductive, NEW c \in Clients, Refuse(c) \/ Receive(c) \/ Handle(c),
         Grows(shared, shared')
  PROVE  LockOK' /\ AttemptOK' /\ RequestsOK' /\ SeenOK'
<1>0. c \in Procs /\ LockOK /\ AttemptOK /\ RequestsOK /\ SeenOK
  BY MemoryServiceAssumption DEF Inductive
<1>1. CASE Refuse(c)
  <2>1. /\ pc[c] = "idle" /\ pc' = [pc EXCEPT ![c] = "idle"] /\ UNCHANGED <<memoryVars, current>>
        /\ request' = [request EXCEPT ![c] = NoRow] /\ seen' = seen
    BY <1>1 DEF Refuse, Answer
  <2>2. request[c] = NoRow
    BY <1>0, <2>1 DEF RequestsOK
  <2>3. UNCHANGED <<pc, request>>
    BY <1>0, <2>1, <2>2 DEF LockOK, RequestsOK
  <2>4. LockOK' /\ AttemptOK'
    BY <1>0, <2>1, <2>3 DEF LockOK, AttemptOK, memoryVars
  <2>5. RequestsOK'
    BY <1>0, <2>1, <2>3, RequestsKept DEF memoryVars, Rows
  <2> QED
    BY <1>0, <2>1, <2>4, <2>5, SeenKept
<1>2. CASE Receive(c)
  <2>1. /\ pc[c] = "idle" /\ pc' = [pc EXCEPT ![c] = "waiting"]
        /\ UNCHANGED <<shared, holder, current, seen>>
        /\ working' = [working EXCEPT ![c] = shared]
    BY <1>2 DEF Receive, Arrive
  <2>2. LockOK' /\ AttemptOK'
    BY <1>0, <2>1, OutsideKeeps DEF Inside
  <2> QED
    BY <1>0, <1>2, <2>1, <2>2, ReceiveRequests, SeenKept
<1>3. CASE Handle(c)
  <2>1. LockOK' /\ AttemptOK' /\ RequestsOK'
    BY <1>3, HandleExits, HandleRequests
  <2>2. SeenOK'
    BY <1>0, <1>3, CreateTold, ReadTold, CancelChanges, SeenKept DEF Handle
  <2> QED
    BY <2>1, <2>2
<1> QED
  BY <1>1, <1>2, <1>3

LEMMA GrantStep ==
  ASSUME Inductive, NEW p \in Procs, Granted(p), Grows(shared, shared')
  PROVE  LockOK' /\ AttemptOK' /\ RequestsOK' /\ SeenOK'
<1>1. /\ pc[p] = "waiting" /\ pc' = [pc EXCEPT ![p] = "entered"]
      /\ UNCHANGED <<shared, request, seen>>
  BY DEF Granted, Enter
<1>2. \A c \in Clients : pc'[c] = "idle" <=> pc[c] = "idle"
  BY <1>1, MemoryServiceAssumption DEF Inductive, LockOK
<1>3. Rows' = Rows
  BY <1>1 DEF Rows
<1> QED
  BY <1>1, <1>2, <1>3, GrantKeeps, RequestsKept, SeenKept DEF Inductive

LEMMA WorkerStep ==
  ASSUME Inductive, NEW w \in Workers, Begin(w) \/ Iterate(w) \/ Interrupt(w),
         Grows(shared, shared')
  PROVE  LockOK' /\ AttemptOK' /\ RequestsOK' /\ SeenOK'
<1>0. w \in Procs /\ w \notin Clients /\ LockOK /\ AttemptOK /\ RequestsOK /\ SeenOK
  BY MemoryServiceAssumption DEF Inductive
<1>1. UNCHANGED <<request, seen>> /\ \E x : pc' = [pc EXCEPT ![w] = x]
  BY DEF Begin, Iterate, Interrupt, FindsNothing, Claims, LoadFails, Loads, ProposalRefused,
     ProviderFails, Publishes, Finish, End
<1>2. \A c \in Clients : pc'[c] = "idle" <=> pc[c] = "idle"
  BY <1>0, <1>1, MemoryServiceAssumption DEF LockOK
<1>3. Rows' = Rows
  <2>1. CASE Begin(w) \/ Interrupt(w)
    BY <2>1 DEF Begin, Interrupt, Arrive, Leave, Rows
  <2>2. CASE Iterate(w)
    BY <2>2, WorkerChanges, AttemptRows
  <2> QED
    BY <2>1, <2>2
<1>4. LockOK' /\ AttemptOK'
  <2>1. CASE Begin(w)
    <3>1. /\ pc[w] = "idle" /\ pc' = [pc EXCEPT ![w] = "waiting"]
          /\ UNCHANGED <<shared, holder, current>>
          /\ working' = [working EXCEPT ![w] = shared]
      BY <2>1 DEF Begin, Arrive
    <3> QED
      BY <1>0, <3>1, OutsideKeeps DEF Inside
  <2>2. CASE Claims(w)
    BY <2>2, ClaimKeeps
  <2>3. CASE Loads(w)
    BY <1>0, <2>3, LoadKeeps
  <2> QED
    BY <2>1, <2>2, <2>3, WorkerExits DEF Iterate
<1> QED
  BY <1>0, <1>1, <1>2, <1>3, <1>4, RequestsKept, SeenKept

LEMMA InductiveStep == Inductive /\ [Next]_vars => Inductive'
<1> SUFFICES ASSUME Inductive, [Next]_vars PROVE Inductive'
  OBVIOUS
<1>1. StoreOK(shared') /\ Grows(shared, shared')
  BY StepChanges, ChangesOK, ChangesGrow DEF Inductive
<1>2. StoreOK(shared)'
  BY <1>1
<1>3. CASE UNCHANGED vars
  <2>1. UNCHANGED <<shared, working, holder, pc, request, current, seen>>
    BY <1>3 DEF vars, memoryVars, serviceVars
  <2>2. LockOK' /\ AttemptOK'
    BY <2>1 DEF Inductive, LockOK, AttemptOK
  <2>3. RequestsOK'
    BY <2>1, RequestsKept DEF Inductive, Rows
  <2> QED
    BY <1>1, <1>2, <2>1, <2>2, <2>3, SeenKept DEF Inductive
<1>4. CASE Next
  BY <1>1, <1>2, <1>4, ClientStep, GrantStep, WorkerStep DEF Next, Inductive
<1> QED
  BY <1>3, <1>4

LEMMA InductiveHolds == Spec => []Inductive
  BY InductiveInit, InductiveStep, PTL DEF Spec

-----------------------------------------------------------------------------
(* Theorems. *)

\* What a client was told holds on, for any number of overlapping requests and
\* iterations of workers: the investigation is there, the tenant's own, the only
\* one of its key, with one job, and a report that was read stays
\* (InMemoryUnitOfWork, CreateInvestigation.execute, GetReport.execute).
THEOREM AcknowledgedIsKept == Spec => []AcknowledgedKept
<1>1. Inductive => AcknowledgedKept
  <2> SUFFICES ASSUME Inductive, NEW f \in seen
               PROVE  /\ f[1] = "created" =>
                           /\ shared.inv[f[2]] # NoRow
                           /\ shared.inv[f[2]].tenant = f[3] /\ shared.inv[f[2]].key = f[4]
                           /\ Cardinality({j \in Jobs : shared.job[j] # NoRow
                                                          /\ shared.job[j].inv = f[2]}) = 1
                           /\ f[4] # NoRow => ByKey(shared, f[3], f[4]) = {f[2]}
                      /\ f[1] = "report" => shared.reports[f[2]] # NoRow
    BY DEF AcknowledgedKept
  <2>1. f \in Fact
    BY DEF Inductive, SeenOK
  <2>2. CASE f \in {"created"} \X Invs \X Tenants \X {r.key : r \in Requests}
    <3>1. PICK i \in Invs, t \in Tenants, k \in {r.key : r \in Requests} :
            f = <<"created", i, t, k>>
      BY <2>2
    <3>2. shared.inv[i] # NoRow /\ shared.inv[i].tenant = t /\ shared.inv[i].key = k
      BY <3>1 DEF Inductive, SeenOK
    <3>3. Cardinality({j \in Jobs : shared.job[j] # NoRow /\ shared.job[j].inv = i}) = 1
      <4>1. PICK j \in Jobs : shared.job[j] # NoRow /\ shared.job[j].inv = i
        BY <3>2 DEF Inductive, StoreOK, OutcomesOK
      <4>2. {l \in Jobs : shared.job[l] # NoRow /\ shared.job[l].inv = i} = {j}
        BY <4>1 DEF Inductive, StoreOK, JobsOK
      <4> QED
        BY <4>2, FS_Singleton
    <3>4. k # NoRow => ByKey(shared, t, k) = {i}
      BY <3>2 DEF ByKey, Inductive, StoreOK, KeysOK
    <3> QED
      BY <3>1, <3>2, <3>3, <3>4
  <2>3. CASE f \in {"succeeded", "report"} \X Invs
    <3>1. PICK x \in {"succeeded", "report"}, i \in Invs : f = <<x, i>>
      BY <2>3
    <3>2. shared.reports[i] # NoRow
      BY <3>1 DEF Inductive, SeenOK
    <3> QED
      BY <3>1, <3>2
  <2> QED
    BY <2>1, <2>2, <2>3 DEF Fact
<1> QED
  BY <1>1, InductiveHolds, PTL

\* Whoever has read "succeeded" is never told that there is no report: GetReport
\* answers 409 only of an investigation nobody was told had succeeded.
THEOREM SucceededIsReadable == Spec => SucceededHasReport
<1>1. ASSUME Inductive, [Next]_vars
      PROVE  [reply'.code = 409 => <<"succeeded", reply'.inv>> \notin seen]_vars
  <2> SUFFICES ASSUME Next, reply'.code = 409
               PROVE  <<"succeeded", reply'.inv>> \notin seen
    BY <1>1
  <2>1. ASSUME NEW c \in Clients, Refuse(c) \/ Receive(c)
        PROVE  FALSE
    <3>1. CASE Refuse(c)
      <4>1. PICK r \in Requests : Refusal(r) # 0 /\ reply'.code = Refusal(r)
        BY <3>1 DEF Refuse, Answer
      <4> QED
        BY <4>1 DEF Refusal
    <3> QED
      BY <2>1, <3>1 DEF Receive, Silent, NoReply
  <2>2. ASSUME NEW c \in Clients, Create(c) \/ ReadStatus(c) \/ CancelInvestigation(c)
        PROVE  FALSE
    BY <2>2 DEF Create, ReadStatus, CancelInvestigation, Answer
  <2>3. ASSUME NEW c \in Clients, ReadReport(c)
        PROVE  <<"succeeded", reply'.inv>> \notin seen
    <3>1. PICK i \in Invs : i = request[c].inv /\ working[c] = shared
      BY <1>1, <2>3, Serves DEF ReadReport
    <3>2. CASE ~Visible(shared, Tokens[request[c].token], i)
      BY <2>3, <3>1, <3>2 DEF ReadReport, Answer
    <3>3. CASE Visible(shared, Tokens[request[c].token], i) /\ shared.reports[i] # NoRow
      BY <2>3, <3>1, <3>3 DEF ReadReport, Answer
    <3>4. CASE Visible(shared, Tokens[request[c].token], i) /\ shared.reports[i] = NoRow
      <4>1. reply'.inv = i
        BY <2>3, <3>1, <3>4 DEF ReadReport, Answer
      <4> QED
        BY <1>1, <3>4, <4>1 DEF Inductive, SeenOK
    <3> QED
      BY <3>2, <3>3, <3>4
  <2>4. ASSUME NEW p \in Procs, Granted(p)
        PROVE  FALSE
    BY <2>4 DEF Granted, Silent, NoReply
  <2>5. ASSUME NEW w \in Workers, Begin(w) \/ Iterate(w) \/ Interrupt(w)
        PROVE  FALSE
    <3>1. Silent
      BY <2>5 DEF Begin, Iterate, Interrupt, FindsNothing, Claims, LoadFails, Loads,
         ProposalRefused, ProviderFails, Publishes, Finish, End
    <3> QED
      BY <3>1 DEF Silent, NoReply
  <2> QED
    BY <2>1, <2>2, <2>3, <2>4, <2>5 DEF Next, Handle
<1> QED
  BY <1>1, InductiveHolds, PTL DEF Spec, SucceededHasReport

\* The service in memory implements Lifecycle: whatever requests and workers
\* overlap and whoever is interrupted, every commit is one step of it, and
\* nothing else can be seen (persistence/memory.py, Worker.run_once).
THEOREM MemoryKeepsPromise == Spec => KeepsPromise
<1>1. Init => Promise!Init
  <2> SUFFICES ASSUME Init PROVE Promise!Init
    OBVIOUS
  <2>1. shared.inv = [i \in Invs |-> NoRow] /\ shared.reports = [i \in Invs |-> NoRow]
    BY DEF Init, MemoryInit, EmptyStore
  <2>2. /\ VisibleStatus = [i \in Invs |-> "absent"] /\ VisibleWork = [i \in Invs |-> "absent"]
        /\ VisibleUsed = [i \in Invs |-> 0]
    BY <2>1 DEF VisibleStatus, VisibleWork, VisibleUsed, Opened
  <2>3. VisibleReport = [i \in Invs |-> FALSE]
    BY <2>1 DEF VisibleReport
  <2> QED
    BY <2>2, <2>3 DEF Promise!Init
<1>2. Inductive /\ [Next]_vars => [Promise!Next]_Promise!lifecycleVars
  BY StepChanges, ChangesSeen DEF Inductive
<1> QED
  BY <1>1, <1>2, InductiveHolds, PTL DEF Spec, KeepsPromise, Promise!Spec
=============================================================================
