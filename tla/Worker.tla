------------------------------- MODULE Worker -------------------------------
(***************************************************************************)
(* Worker.run_once (application/worker.py) over the PostgreSQL unit of work *)
(* (persistence/postgres/unit_of_work.py).  Claim, analysis and result are  *)
(* ONE transaction: tx[w] is what worker w has written and not committed.   *)
(* Rows it has updated stay locked until it commits or rolls back.          *)
(***************************************************************************)
EXTENDS Store, FiniteSetsExt

CONSTANTS
  Workers,
  MaxAttempts,     \* Worker(max_attempts = ...)
  AnalysisErrors,  \* the error codes the analysis may end in
  Faults           \* the faults the environment may inject

ASSUME WorkerAssumption ==
  /\ MaxAttempts \in Nat \ {0}
  /\ AnalysisErrors \subseteq ErrorCodes
  /\ Faults \subseteq {"crash", "statement", "row"}

VARIABLE tx

WorkerPc == {"idle", "get", "mark", "analyse", "persist", "fail", "retry", "commit"}

Transaction ==
  [pc : WorkerPc,
   job : Jobs \cup {NoJob}, inv : Invs \cup {NoInv}, count : Nat,
   jobStatus : JobStatus, invStatus : InvestigationStatus \cup {"unchanged"},
   ledger : SUBSET Evidence, cites : SUBSET Evidence,  \* computed by the analysis
   done : SUBSET Evidence, rows : SUBSET Evidence,     \* appended, and inserted by this one
   report : BOOLEAN,
   outcome : AttemptOutcome \cup {"none"}, code : ErrorCodes \cup {"none"},
   audit : AuditAction \cup {"none"},
   aborted : BOOLEAN,          \* a statement failed: PostgreSQL refuses all others
   cancelledAtClaim : BOOLEAN] \* history: the investigation was cancelled before

NoTransaction ==
  [pc |-> "idle", job |-> NoJob, inv |-> NoInv, count |-> 0,
   jobStatus |-> "queued", invStatus |-> "unchanged",
   ledger |-> {}, cites |-> {}, done |-> {}, rows |-> {}, report |-> FALSE,
   outcome |-> "none", code |-> "none", audit |-> "none",
   aborted |-> FALSE, cancelledAtClaim |-> FALSE]

WorkerTypeOK == tx \in [Workers -> Transaction]

WorkerInit == tx = [w \in Workers |-> NoTransaction]

-----------------------------------------------------------------------------
(* Locks held by open transactions. *)

JobLocked(j) == \E w \in Workers : tx[w].job = j
InvestigationLocked(i) ==
  \E w \in Workers : tx[w].inv = i /\ tx[w].invStatus # "unchanged"

NothingPending(r, e) == FALSE   \* mutant: no wait for the inserting transaction

EvidencePending(r, e) ==
  \E w \in Workers :
    /\ e \in tx[w].rows
    /\ inv[tx[w].inv].tenant = r.tenant
    /\ inv[tx[w].inv].run = r.run

-----------------------------------------------------------------------------
(* Claim: SELECT ... FOR UPDATE SKIP LOCKED LIMIT 1, then UPDATE. *)

EligibleIgnoringLocks(j) == Claimable(j)   \* mutant: without SKIP LOCKED

Eligible(j) == Claimable(j) /\ ~JobLocked(j)

Claim(w) ==
  /\ tx[w].pc = "idle"
  /\ \E j \in Jobs :
       /\ Eligible(j)
       /\ \A k \in Jobs : Eligible(k) => Before(j, k)
       /\ tx' = [tx EXCEPT ![w] =
            [NoTransaction EXCEPT
               !.pc = "get", !.job = j, !.inv = job[j].inv,
               !.count = job[j].attempt_count + 1, !.jobStatus = "claimed",
               !.cancelledAtClaim =
                 job[j].inv # NoInv /\ inv[job[j].inv].status = "cancelled"]]
  /\ UNCHANGED storeVars

(* investigations.get: it reads committed rows and takes no lock. *)

GetMissing(w) ==
  /\ tx[w].pc = "get" /\ ~tx[w].aborted
  /\ tx[w].inv = NoInv
  /\ tx' = [tx EXCEPT ![w].pc = "commit", ![w].jobStatus = "failed"]
  /\ UNCHANGED storeVars

GetCancelled(w) ==
  /\ tx[w].pc = "get" /\ ~tx[w].aborted
  /\ tx[w].inv # NoInv
  /\ inv[tx[w].inv].status = "cancelled"
  /\ tx' = [tx EXCEPT ![w].pc = "commit", ![w].jobStatus = "cancelled"]
  /\ UNCHANGED storeVars

\* Mutant: the status is not looked at.
GetAny(w) ==
  /\ tx[w].pc = "get" /\ ~tx[w].aborted
  /\ tx[w].inv # NoInv
  /\ tx' = [tx EXCEPT ![w].pc = "mark"]
  /\ UNCHANGED storeVars

GetFound(w) ==
  /\ tx[w].pc = "get" /\ ~tx[w].aborted
  /\ tx[w].inv # NoInv
  /\ inv[tx[w].inv].status # "cancelled"
  /\ tx' = [tx EXCEPT ![w].pc = "mark"]
  /\ UNCHANGED storeVars

\* set_status(RUNNING): unconditional, whatever the row has become since get.
MarkRunning(w) ==
  /\ tx[w].pc = "mark" /\ ~tx[w].aborted
  /\ ~InvestigationLocked(tx[w].inv)
  /\ tx' = [tx EXCEPT ![w].pc = "analyse", ![w].invStatus = "running"]
  /\ UNCHANGED storeVars

-----------------------------------------------------------------------------
(* _run_pipeline up to the first write: telemetry, baseline, ledger, model,  *)
(* parser, verifier.  It touches no table, so one step stands for it.        *)

AnalysisSucceeds(w) ==
  /\ tx[w].pc = "analyse" /\ ~tx[w].aborted
  /\ \E ledger \in (SUBSET Evidence) \ {{}} : \E cites \in SUBSET ledger :
       tx' = [tx EXCEPT ![w].pc = "persist", ![w].ledger = ledger, ![w].cites = cites]
  /\ UNCHANGED storeVars

\* _RetryableFailure.
AnalysisRetryable(w) ==
  /\ tx[w].pc = "analyse" /\ ~tx[w].aborted
  /\ \E code \in AnalysisErrors \cap RetryableCodes :
       tx' = [tx EXCEPT ![w].pc = "retry", ![w].code = code]
  /\ UNCHANGED storeVars

\* _TerminalFailure, and any other exception as internal_error.
AnalysisTerminal(w) ==
  /\ tx[w].pc = "analyse" /\ ~tx[w].aborted
  /\ \E code \in AnalysisErrors \cap TerminalCodes :
       tx' = [tx EXCEPT ![w].pc = "fail", ![w].code = code]
  /\ UNCHANGED storeVars

-----------------------------------------------------------------------------
(* The writes of _run_pipeline. *)

\* Mutant: the entries the report cites are appended first.
CitedFirst(t) ==
  Min(IF t.cites \subseteq t.done THEN t.ledger \ t.done ELSE t.cites \ t.done)

\* Ledger entries are appended in the order of their signal keys.
NextEntry(t) == Min(t.ledger \ t.done)

\* Mutant: an entry another transaction has inserted is taken as stored.
AppendTrusting(w) ==
  /\ tx[w].pc = "persist" /\ ~tx[w].aborted
  /\ tx[w].done # tx[w].ledger
  /\ LET e == NextEntry(tx[w])
         row == inv[tx[w].inv] IN
       tx' = [tx EXCEPT
         ![w].done = @ \cup {e},
         ![w].rows = IF EvidenceStored(row, e) \/ EvidencePending(row, e)
                     THEN @ ELSE @ \cup {e}]
  /\ UNCHANGED storeVars

\* One round of evidence.append: INSERT ... ON CONFLICT DO NOTHING waits for a
\* transaction that has inserted the same entry; a committed entry is kept.
AppendEvidence(w) ==
  /\ tx[w].pc = "persist" /\ ~tx[w].aborted
  /\ tx[w].done # tx[w].ledger
  /\ LET e == NextEntry(tx[w])
         row == inv[tx[w].inv] IN
       /\ ~EvidencePending(row, e)
       /\ tx' = [tx EXCEPT
            ![w].done = @ \cup {e},
            ![w].rows = IF EvidenceStored(row, e) THEN @ ELSE @ \cup {e}]
  /\ UNCHANGED storeVars

\* _record_attempt: a taken number is a unique violation, which aborts.
RecordAttempt(t, outcome, code) ==
  [t EXCEPT !.outcome = outcome, !.code = code,
            !.aborted = AttemptTaken(t.job, t.count), !.pc = "commit"]

\* Mutants: no audit record; no report.
SucceededUnaudited(t) ==
  RecordAttempt([t EXCEPT !.report = TRUE, !.invStatus = "succeeded",
                          !.jobStatus = "succeeded"],
                "succeeded", "none")
SucceededUnreported(t) ==
  RecordAttempt([t EXCEPT !.invStatus = "succeeded", !.audit = "report.persisted",
                          !.jobStatus = "succeeded"],
                "succeeded", "none")

\* reports.put, SUCCEEDED and the audit record, then the else branch of
\* run_once.  A report already there is a unique violation, which aborts.
Succeeded(t) ==
  IF reports[t.inv] # NoRow
  THEN [t EXCEPT !.pc = "fail", !.code = "internal_error", !.aborted = TRUE]
  ELSE RecordAttempt([t EXCEPT !.report = TRUE, !.invStatus = "succeeded",
                               !.audit = "report.persisted", !.jobStatus = "succeeded"],
                     "succeeded", "none")

Succeed(w) ==
  /\ tx[w].pc = "persist" /\ ~tx[w].aborted
  /\ tx[w].done = tx[w].ledger
  /\ tx' = [tx EXCEPT ![w] = Succeeded(tx[w])]
  /\ UNCHANGED storeVars

-----------------------------------------------------------------------------
(* Failure handling. *)

\* Mutant: the investigation keeps its status.
OnlyJobFailed(t, code) ==
  RecordAttempt([t EXCEPT !.jobStatus = "failed", !.audit = "investigation.failed"],
                "failed", code)

\* _terminal_fail
TerminallyFailed(t, code) ==
  RecordAttempt([t EXCEPT !.invStatus = "failed", !.jobStatus = "failed",
                          !.audit = "investigation.failed"],
                "failed", code)

TerminalFail(w) ==
  /\ tx[w].pc = "fail" /\ ~tx[w].aborted
  /\ tx' = [tx EXCEPT ![w] = TerminallyFailed(tx[w], tx[w].code)]
  /\ UNCHANGED storeVars

\* Mutant: one attempt more than max_attempts.
ExhaustedLate(t) == t.count > MaxAttempts

Exhausted(t) == t.count >= MaxAttempts

\* Mutants: the investigation's status in the place of the job's; the claim is
\* left standing; the attempt is not recorded.
RequeuedPending(t) == RecordAttempt([t EXCEPT !.jobStatus = "pending"], "failed", t.code)
RequeuedClaimed(t) == RecordAttempt(t, "failed", t.code)
RequeuedUnrecorded(t) == [t EXCEPT !.jobStatus = "queued", !.pc = "commit"]

\* Back to the queue, available_at as it was.
Requeued(t) == RecordAttempt([t EXCEPT !.jobStatus = "queued"], "failed", t.code)

\* _retry_or_fail
RetryOrFail(w) ==
  /\ tx[w].pc = "retry" /\ ~tx[w].aborted
  /\ tx' = [tx EXCEPT ![w] = IF Exhausted(tx[w])
                             THEN TerminallyFailed(tx[w], tx[w].code)
                             ELSE Requeued(tx[w])]
  /\ UNCHANGED storeVars

-----------------------------------------------------------------------------
(* The end of the transaction. *)

Commit(w) ==
  /\ tx[w].pc = "commit" /\ ~tx[w].aborted
  /\ LET t == tx[w] IN
       /\ job' = [job EXCEPT ![t.job].status = t.jobStatus,
                             ![t.job].attempt_count = t.count]
       /\ inv' = IF t.invStatus = "unchanged" THEN inv
                 ELSE [inv EXCEPT ![t.inv].status = t.invStatus]
       /\ attempts' = IF t.outcome = "none" THEN attempts
                      ELSE attempts \cup
                           {[job |-> t.job, number |-> t.count,
                             outcome |-> t.outcome, code |-> t.code]}
       /\ evidence' = evidence \cup
            {[tenant |-> inv[t.inv].tenant, run |-> inv[t.inv].run,
              id |-> e, inv |-> t.inv] : e \in t.rows}
       /\ reports' = IF t.report
                     THEN [reports EXCEPT ![t.inv] =
                            [tenant |-> inv[t.inv].tenant, run |-> inv[t.inv].run,
                             cites |-> t.cites]]
                     ELSE reports
       /\ audit' = IF t.audit = "none" THEN audit
                   ELSE [audit EXCEPT ![t.inv][t.audit] = @ + 1]
  /\ tx' = [tx EXCEPT ![w] = NoTransaction]
  /\ UNCHANGED now

\* The next statement on an aborted transaction raises (in _terminal_fail too),
\* run_once lets it escape and the unit of work rolls back.
Escape(w) ==
  /\ tx[w].aborted
  /\ tx' = [tx EXCEPT ![w] = NoTransaction]
  /\ UNCHANGED storeVars

\* A statement fails: any statement, or only the insert of a row the database
\* will not take.  Among the writes of _run_pipeline the worker catches the error
\* and goes on to _terminal_fail; elsewhere it escapes.  The analysis executes
\* no statement.
StatementError(w) ==
  /\ "statement" \in Faults \/ ("row" \in Faults /\ tx[w].pc = "persist")
  /\ tx[w].pc \notin {"idle", "analyse"} /\ ~tx[w].aborted
  /\ tx' = [tx EXCEPT
       ![w].aborted = TRUE,
       ![w].pc = IF @ = "persist" THEN "fail" ELSE @,
       ![w].code = IF tx[w].pc = "persist" THEN "internal_error" ELSE @]
  /\ UNCHANGED storeVars

\* The process dies, or its connection does: the server rolls back.
Crash(w) ==
  /\ "crash" \in Faults
  /\ tx[w].pc # "idle"
  /\ tx' = [tx EXCEPT ![w] = NoTransaction]
  /\ UNCHANGED storeVars

-----------------------------------------------------------------------------

RunOnce(w) ==
  \/ Claim(w)
  \/ GetMissing(w) \/ GetCancelled(w) \/ GetFound(w)
  \/ MarkRunning(w)
  \/ AnalysisSucceeds(w) \/ AnalysisRetryable(w) \/ AnalysisTerminal(w)
  \/ AppendEvidence(w) \/ Succeed(w)
  \/ TerminalFail(w) \/ RetryOrFail(w)
  \/ Commit(w) \/ Escape(w)

Fault(w) == StatementError(w) \/ Crash(w)

=============================================================================
