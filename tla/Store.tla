-------------------------------- MODULE Store --------------------------------
(***************************************************************************)
(* The durable tables of the service (persistence/migrations/*.sql) as the  *)
(* PostgreSQL unit of work sees them: only rows of committed transactions   *)
(* are in these variables.  What an open transaction has written and not    *)
(* committed is in the variables of the module that runs the transaction    *)
(* (CreateInvestigation, Worker).                                           *)
(*                                                                         *)
(* A table is a function from its primary keys to rows, NoRow where there   *)
(* is no row, or a set of rows where the key is of no interest.             *)
(***************************************************************************)
EXTENDS Integers, FiniteSets

CONSTANTS
  Invs,         \* investigation ids (uuid4 values)
  Jobs,         \* job ids; numbers, because claim orders by (available_at, id)
  OrphanJobs,   \* queued jobs whose investigation the job's tenant cannot read
  Tenants, Runs, Keys,
  Evidence,     \* evidence ids; numbers, in the order of their signal keys
  NoRow, NoInv, NoJob, NoKey

VARIABLES
  inv,       \* table investigations
  job,       \* table jobs
  attempts,  \* table attempts
  evidence,  \* table evidence
  reports,   \* table reports
  audit,     \* table audit: how often an action was recorded of an investigation
  now        \* the clock of the control plane and the workers

storeVars == <<inv, job, attempts, evidence, reports, audit, now>>

-----------------------------------------------------------------------------
(* Rows. *)

InvestigationStatus == {"pending", "running", "succeeded", "failed", "cancelled"}
JobStatus == {"queued", "claimed", "running", "succeeded", "failed", "cancelled"}
AttemptOutcome == {"succeeded", "failed", "timeout", "cancelled"}
AuditAction == {"investigation.created", "report.persisted", "investigation.failed"}

RetryableCodes == {"provider_timeout", "provider_unavailable"}
TerminalCodes ==
  {"telemetry_unavailable", "domain_error", "provider_response_invalid",
   "proposal_rejected", "internal_error"}
ErrorCodes == RetryableCodes \cup TerminalCodes

Request == [tenant : Tenants, run : Runs, key : Keys \cup {NoKey}]
InvestigationRecord ==
  [tenant : Tenants, run : Runs, key : Keys \cup {NoKey}, status : InvestigationStatus]
JobRecord ==
  [inv : Invs \cup {NoInv}, status : JobStatus, available_at : Nat, attempt_count : Nat]
AttemptRecord ==
  [job : Jobs, number : Nat, outcome : AttemptOutcome, code : ErrorCodes \cup {"none"}]
EvidenceRecord == [tenant : Tenants, run : Runs, id : Evidence, inv : Invs]
ReportRecord == [tenant : Tenants, run : Runs, cites : SUBSET Evidence]

ASSUME StoreAssumption ==
  /\ Jobs \subseteq Nat
  /\ Evidence \subseteq Nat
  /\ OrphanJobs \subseteq Jobs
  /\ NoInv \notin Invs
  /\ NoJob \notin Jobs
  /\ NoKey \notin Keys

\* The marker of an absent row is not a row.
ASSUME NoRowAssumption ==
  /\ NoRow \notin InvestigationRecord
  /\ NoRow \notin JobRecord
  /\ NoRow \notin ReportRecord

StoreTypeOK ==
  /\ inv \in [Invs -> InvestigationRecord \cup {NoRow}]
  /\ job \in [Jobs -> JobRecord \cup {NoRow}]
  /\ attempts \subseteq AttemptRecord
  /\ evidence \subseteq EvidenceRecord
  /\ reports \in [Invs -> ReportRecord \cup {NoRow}]
  /\ audit \in [Invs -> [AuditAction -> Nat]]
  /\ now \in Nat

\* A fresh schema.  A job enqueued for an investigation its tenant cannot read
\* (the foreign key of jobs checks the id and not the tenant) may be waiting.
StoreInit ==
  /\ inv = [i \in Invs |-> NoRow]
  /\ job = [j \in Jobs |->
             IF j \in OrphanJobs
             THEN [inv |-> NoInv, status |-> "queued", available_at |-> 0, attempt_count |-> 0]
             ELSE NoRow]
  /\ attempts = {}
  /\ evidence = {}
  /\ reports = [i \in Invs |-> NoRow]
  /\ audit = [i \in Invs |-> [a \in AuditAction |-> 0]]
  /\ now = 0

-----------------------------------------------------------------------------
(* What a statement reads of the committed rows. *)

\* The unique index (tenant_id, idempotency_key), partial: a null key never
\* conflicts.
SameKey(r, s) == r.key # NoKey /\ r.key = s.key /\ r.tenant = s.tenant

\* UNIQUE (job_id, attempt_number).
AttemptTaken(j, n) == \E a \in attempts : a.job = j /\ a.number = n

\* UNIQUE (tenant_id, run_id, evidence_id).
EvidenceStored(r, e) ==
  \E x \in evidence : x.tenant = r.tenant /\ x.run = r.run /\ x.id = e

\* Mutant: any job that is due.
ClaimableDue(j) == job[j] # NoRow /\ job[j].available_at <= now

\* The WHERE clause of claim.  That a lease has not expired yet is abstracted
\* away: a committed claimed row may be taken by any later claim.
Claimable(j) ==
  /\ job[j] # NoRow
  /\ \/ job[j].status = "queued" /\ job[j].available_at <= now
     \/ job[j].status = "claimed"

\* ORDER BY available_at, id.
Before(j, k) ==
  \/ job[j].available_at < job[k].available_at
  \/ job[j].available_at = job[k].available_at /\ j <= k

=============================================================================
