---------------------------- MODULE ControlPlane ----------------------------
(***************************************************************************)
(* The running service: clients that open investigations, workers that run  *)
(* them, and an operator that cancels them, all over one PostgreSQL         *)
(* database, each transaction at READ COMMITTED isolation.                  *)
(***************************************************************************)
EXTENDS CreateInvestigation, Worker

CONSTANT MaxNow    \* bound of the clock

ASSUME MaxNowAssumption == MaxNow \in Nat

vars == <<storeVars, createVars, tx>>

\* investigations.set_status(CANCELLED).  No code in the service calls it; the
\* worker is written for a caller that does.  The update waits for a worker
\* that has written the row.
Cancel(i) ==
  /\ inv[i] # NoRow
  /\ ~InvestigationLocked(i)
  /\ inv' = [inv EXCEPT ![i].status = "cancelled"]
  /\ UNCHANGED <<job, attempts, evidence, reports, audit, now, createVars, tx>>

Tick ==
  /\ now < MaxNow
  /\ now' = now + 1
  /\ UNCHANGED <<inv, job, attempts, evidence, reports, audit, createVars, tx>>

Init == StoreInit /\ CreateInit /\ WorkerInit

Next ==
  \/ \E c \in Clients : CreateStep(c) /\ UNCHANGED tx
  \/ \E w \in Workers : RunOnce(w) /\ UNCHANGED createVars
  \/ \E w \in Workers : Fault(w) /\ UNCHANGED createVars
  \/ \E i \in Invs : Cancel(i)
  \/ Tick

Spec == Init /\ [][Next]_vars

\* run_worker_loop calls run_once for as long as the process runs.  Nothing is
\* assumed of clients, of the operator or of the clock.
Fairness == \A w \in Workers : WF_vars(RunOnce(w) /\ UNCHANGED createVars)

FairSpec == Spec /\ Fairness

-----------------------------------------------------------------------------
(* Invariants. *)

TypeOK == StoreTypeOK /\ CreateTypeOK /\ WorkerTypeOK

JobsOf(i) == {j \in Jobs : job[j] # NoRow /\ job[j].inv = i}

Finished == {"succeeded", "failed", "cancelled"}

\* A committed investigation has exactly one job, and a job was never committed
\* without its investigation: the two inserts of CreateInvestigation are one
\* transaction, and a replayed key enqueues nothing.
OneJobEach ==
  \A i \in Invs :
    IF inv[i] = NoRow THEN JobsOf(i) = {}
    ELSE \E j \in Jobs : JobsOf(i) = {j}

\* Two replies to one idempotency key of a tenant name one investigation, and
\* that investigation is stored for the tenant that was answered: however
\* requests with the same key overlap, retry or die.
RepliesAgree ==
  \A a \in replies :
    /\ inv[a.inv] # NoRow
    /\ inv[a.inv].tenant = a.request.tenant
    /\ \A b \in replies : SameKey(a.request, b.request) => a.inv = b.inv

\* No two workers run the same investigation.  It takes both SKIP LOCKED and
\* the single job of each investigation.
ExclusiveRun ==
  \A v, w \in Workers :
    v # w /\ tx[v].inv \in Invs => tx[v].inv # tx[w].inv

\* No committed job is claimed or running: a claim is published only together
\* with the outcome of its attempt, so no crash leaves a job behind that only
\* the expiry of a lease could free.
NoClaimSurvives == \A j \in Jobs : job[j] # NoRow => job[j].status \in {"queued"} \cup Finished

AttemptsOf(j) == {a \in attempts : a.job = j}

\* The attempts recorded of a job are numbered 1, 2, ... without a gap up to
\* attempt_count; the last one succeeded exactly if the job did, all others
\* failed.  The claim that found its investigation cancelled or missing is
\* counted and leaves no attempt.
Recorded(j) ==
  IF job[j].status = "cancelled" \/ (job[j].status = "failed" /\ job[j].inv = NoInv)
  THEN job[j].attempt_count - 1
  ELSE job[j].attempt_count

AttemptHistory ==
  \A j \in Jobs :
    /\ job[j] = NoRow => AttemptsOf(j) = {}
    /\ job[j] # NoRow =>
         /\ \A a \in AttemptsOf(j) : a.number \in 1..Recorded(j)
         /\ \A n \in 1..Recorded(j) : AttemptTaken(j, n)
         /\ \A a, b \in AttemptsOf(j) : a.number = b.number => a = b
         /\ \A a \in AttemptsOf(j) :
              a.outcome = (IF job[j].status = "succeeded" /\ a.number = job[j].attempt_count
                           THEN "succeeded" ELSE "failed")

\* max_attempts bounds the attempts of a job: a queued job has one left, a
\* finished one has used at most all of them.
AttemptsBounded ==
  \A j \in Jobs :
    job[j] # NoRow =>
      IF job[j].status = "queued" THEN job[j].attempt_count < MaxAttempts
      ELSE job[j].attempt_count \in 1..MaxAttempts

\* A report is stored exactly if the job succeeded, and the statuses of job and
\* investigation tell the same story.  An operator may cancel at any time, so
\* cancelled goes with every job status.
OutcomesAgree ==
  \A j \in Jobs :
    job[j] # NoRow /\ job[j].inv # NoInv =>
      LET i == job[j].inv IN
        /\ (reports[i] # NoRow) <=> (job[j].status = "succeeded")
        /\ inv[i].status # "cancelled" =>
             inv[i].status =
               (IF job[j].status # "queued" THEN job[j].status
                ELSE IF job[j].attempt_count = 0 THEN "pending" ELSE "running")

\* The audit trail of an investigation: created once; one report.persisted if
\* its job succeeded, one investigation.failed if it failed, neither before.
AuditTrail ==
  \A i \in Invs :
    /\ inv[i] = NoRow => \A a \in AuditAction : audit[i][a] = 0
    /\ \A j \in JobsOf(i) :
         /\ audit[i]["investigation.created"] = 1
         /\ audit[i]["report.persisted"] = (IF job[j].status = "succeeded" THEN 1 ELSE 0)
         /\ audit[i]["investigation.failed"] = (IF job[j].status = "failed" THEN 1 ELSE 0)

\* Every evidence id a stored report cites resolves to a stored row of the
\* same tenant and run, also when another worker inserted that row, or began
\* to and rolled back.
CitationsResolve ==
  \A i \in Invs :
    reports[i] # NoRow =>
      /\ inv[i] # NoRow /\ reports[i].tenant = inv[i].tenant /\ reports[i].run = inv[i].run
      /\ \A e \in reports[i].cites : EvidenceStored(reports[i], e)

\* Evidence is stored once per tenant, run and id, whoever inserts it.
EvidenceUnique ==
  \A x, y \in evidence :
    x.tenant = y.tenant /\ x.run = y.run /\ x.id = y.id => x = y

\* w waits in evidence.append for an entry that v has inserted.
WaitsFor(w, v) ==
  /\ v # w
  /\ tx[w].pc = "persist" /\ ~tx[w].aborted /\ tx[w].done # tx[w].ledger
  /\ NextEntry(tx[w]) \in tx[v].rows
  /\ inv[tx[v].inv].tenant = inv[tx[w].inv].tenant
  /\ inv[tx[v].inv].run = inv[tx[w].inv].run

\* Workers that append overlapping ledgers never wait in a circle: whoever is
\* waited for is itself past that entry, since ledgers are appended in the
\* order of their signal keys.
WaitsAscend ==
  \A v, w \in Workers :
    WaitsFor(w, v) =>
      \A u \in Workers : WaitsFor(v, u) => NextEntry(tx[v]) > NextEntry(tx[w])

\* An investigation that was cancelled when its job was claimed is not run.
CancelledNotRun ==
  \A w \in Workers :
    tx[w].cancelledAtClaim => tx[w].pc \in {"get", "commit"} /\ tx[w].invStatus = "unchanged"

-----------------------------------------------------------------------------
(* Action properties. *)

\* What is decided stays: a finished job never changes again, a report is never
\* replaced, attempts and evidence are only added to, and the tenant, run and
\* key of an investigation are fixed.
KeepsHistory ==
  /\ \A j \in Jobs :
       job[j] # NoRow /\ job[j].status \in Finished => job'[j] = job[j]
  /\ \A i \in Invs :
       /\ reports[i] # NoRow => reports'[i] = reports[i]
       /\ inv[i] # NoRow =>
            inv'[i] # NoRow /\ [inv'[i] EXCEPT !.status = inv[i].status] = inv[i]
  /\ attempts \subseteq attempts'
  /\ evidence \subseteq evidence'

HistoryStable == [][KeepsHistory]_vars

-----------------------------------------------------------------------------
(* Liveness. *)

\* Every job that was committed is eventually finished, retries included.
EveryJobSettles ==
  \A j \in Jobs : job[j] # NoRow ~> job[j] # NoRow /\ job[j].status \in Finished

-----------------------------------------------------------------------------
(* What the repository's comments and documents say of the worker. *)

\* worker.py:169-173: an exception the pipeline does not classify fails the job
\* closed, where it would otherwise return to the queue as it was and be
\* reclaimed forever.
FailsClosed ==
  \A j \in Jobs :
    (\E w \in Workers : tx[w].job = j /\ tx[w].pc = "fail" /\ tx[w].code = "internal_error")
      ~> (job[j] # NoRow /\ job[j].status \in Finished)

\* docs/decisions/0013-control-plane-worker.md:54: a timeout records a TIMEOUT
\* attempt.
TimeoutRecorded ==
  \A a \in attempts : a.code = "provider_timeout" => a.outcome = "timeout"

\* docs/decisions/0013-control-plane-worker.md:59: a retried job returns to
\* QUEUED with backoff via available_at.
RetryBacksOff ==
  [][\A j \in Jobs :
       /\ job[j] # NoRow /\ job[j].status = "queued" /\ job'[j].status = "queued"
       /\ job'[j].attempt_count > job[j].attempt_count
       => job'[j].available_at > job[j].available_at]_vars

=============================================================================
