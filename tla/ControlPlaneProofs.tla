------------------------- MODULE ControlPlaneProofs -------------------------
(***************************************************************************)
(* Safety of ControlPlane for every number of clients, workers,             *)
(* investigations, jobs and attempts: its structure, the outcome of a job,  *)
(* idempotent creation, the evidence and the audit trail, and the           *)
(* refinement of Lifecycle.                                                 *)
(***************************************************************************)
EXTENDS ControlPlane, ControlPlaneRefinement, TLAPS, WellFoundedInduction

\* The ledger entry appended next is the least one left: FiniteSetsExt's Min
\* names the least element of any non-empty set of naturals.
LEMMA MinIsLeast ==
  ASSUME NEW S, S \subseteq Nat, S # {}
  PROVE  Min(S) \in S /\ \A y \in S : Min(S) <= y
<1> DEFINE Less == {p \in Nat \X Nat : p[1] < p[2]}
<1>1. IsWellFoundedOn(Less, Nat)
  BY NatLessThanWellFounded, Zenon DEF OpToRel
<1>2. \E x \in S : \A y \in S : ~(<<y, x>> \in Less)
  <2> HIDE DEF Less
  <2> QED
    BY <1>1, WFMin
<1>3. \E x \in S : \A y \in S : x <= y
  <2>1. PICK x \in S : \A y \in S : <<y, x>> \notin Less
    BY <1>2
  <2>2. ASSUME NEW y \in S PROVE x <= y
    <3>1. <<y, x>> \notin Less /\ x \in Nat /\ y \in Nat
      BY <2>1
    <3> QED
      BY <3>1
  <2> QED
    BY <2>2
<1> QED
  BY <1>3 DEF Min

-----------------------------------------------------------------------------
(* The inductive invariant. *)

\* An open call of a client: the rows it is about to insert are not committed
\* yet.
CallOK(t) ==
  /\ t.pc = "idle" => t = NoCall
  /\ t.pc # "idle" => t.request \in Request /\ t.inv \in Invs
  /\ t.pc = "created" => t.new /\ t.job = NoJob
  /\ t.pc = "enqueued" => (t.new <=> t.job # NoJob)
  /\ t.new => inv[t.inv] = NoRow
  /\ t.pc = "enqueued" /\ ~t.new => inv[t.inv] # NoRow /\ SameKey(t.request, inv[t.inv])
  /\ t.job # NoJob => job[t.job] = NoRow

\* No two calls draw the same id.
CallShape ==
  /\ \A c \in Clients : CallOK(call[c])
  /\ \A c, d \in Clients : c # d /\ call[c].new => call[d].inv # call[c].inv
  /\ \A c, d \in Clients : c # d /\ call[c].job # NoJob => call[d].job # call[c].job

\* Jobs and investigations belong together, and the only committed status of an
\* unfinished job is queued.
RowShape ==
  /\ \A j \in Jobs :
       job[j] # NoRow =>
         /\ job[j].status \in {"queued"} \cup Finished
         /\ job[j].inv # NoInv => inv[job[j].inv] # NoRow
  /\ \A j, k \in Jobs :
       job[j] # NoRow /\ job[k] # NoRow /\ job[j].inv = job[k].inv /\ job[j].inv # NoInv
         => j = k

\* What a transaction has written before it decided the outcome: nothing but
\* the claim, the status of the investigation and evidence.
Undecided(t) == ~t.report /\ t.outcome = "none" /\ t.audit = "none" /\ t.jobStatus = "claimed"

\* What it has written when it is about to commit.
Decided(t) ==
  \/ /\ t.inv = NoInv /\ t.jobStatus = "failed"
     /\ t.invStatus = "unchanged" /\ t.outcome = "none" /\ t.audit = "none"
     /\ ~t.report /\ t.rows = {}
  \/ /\ t.inv # NoInv /\ t.jobStatus = "cancelled" /\ inv[t.inv].status = "cancelled"
     /\ t.invStatus = "unchanged" /\ t.outcome = "none" /\ t.audit = "none"
     /\ ~t.report /\ t.rows = {}
  \/ /\ t.inv # NoInv /\ t.jobStatus = "queued" /\ t.count < MaxAttempts
     /\ t.invStatus = "running" /\ t.outcome = "failed" /\ t.audit = "none"
     /\ ~t.report /\ t.rows = {}
  \/ /\ t.inv # NoInv /\ t.jobStatus = "failed"
     /\ t.invStatus = "failed" /\ t.outcome = "failed" /\ t.audit = "investigation.failed"
     /\ ~t.report /\ t.rows = {}
  \/ /\ t.inv # NoInv /\ t.jobStatus = "succeeded"
     /\ t.invStatus = "succeeded" /\ t.outcome = "succeeded" /\ t.audit = "report.persisted"
     /\ t.report /\ t.done = t.ledger

\* An open transaction of a worker holds a queued job and has written what its
\* stage allows.
TxOK(t) ==
  /\ t.pc = "idle" => t = NoTransaction
  /\ t.pc # "idle" =>
       /\ t.job \in Jobs /\ job[t.job] # NoRow /\ job[t.job].status = "queued"
       /\ t.inv = job[t.job].inv
       /\ t.count = job[t.job].attempt_count + 1
  /\ t.pc \in {"get", "mark"} =>
       Undecided(t) /\ t.invStatus = "unchanged" /\ t.rows = {} /\ t.done = {}
  /\ t.pc \in {"analyse", "retry", "persist", "fail"} =>
       Undecided(t) /\ t.invStatus = "running"
  /\ t.pc \in {"analyse", "retry"} => t.rows = {} /\ t.done = {}
  /\ t.pc \in {"mark", "analyse", "retry", "persist", "fail"} => t.inv # NoInv
  /\ t.pc = "fail" /\ ~t.aborted => t.rows = {}
  /\ t.rows \subseteq t.done /\ t.done \subseteq t.ledger /\ t.cites \subseteq t.ledger
  /\ t.pc = "commit" => Decided(t)

\* No two workers hold the same job.
TxShape ==
  /\ \A w \in Workers : TxOK(tx[w])
  /\ \A v, w \in Workers : v # w /\ tx[w].job # NoJob => tx[v].job # tx[w].job

Structure == TypeOK /\ CallShape /\ RowShape /\ TxShape

LEMMA StructureInit == Init => Structure
<1> SUFFICES ASSUME Init PROVE Structure
  OBVIOUS
<1>1. TypeOK
  BY StoreAssumption DEF Init, StoreInit, CreateInit, WorkerInit, TypeOK, StoreTypeOK,
     CreateTypeOK, WorkerTypeOK, JobRecord, JobStatus, AuditAction, Call, NoCall, CallPc,
     Transaction, NoTransaction, WorkerPc, InvestigationStatus, AttemptOutcome, ErrorCodes
<1>2. CallShape
  BY DEF Init, CreateInit, CallShape, CallOK, NoCall
<1>3. RowShape
  BY NoRowAssumption DEF Init, StoreInit, RowShape, Finished
<1>4. TxShape
  BY DEF Init, WorkerInit, TxShape, TxOK, NoTransaction
<1> QED
  BY <1>1, <1>2, <1>3, <1>4 DEF Structure

\* A step of a worker that writes no committed row keeps the structure if the
\* transaction it leaves is well formed and holds no other job.
LEMMA LocalStep ==
  ASSUME Structure, NEW w \in Workers, NEW t \in Transaction,
         UNCHANGED storeVars, UNCHANGED createVars,
         tx' = [tx EXCEPT ![w] = t],
         TxOK(t),
         \/ t.job = tx[w].job
         \/ t.job = NoJob
         \/ \A v \in Workers : tx[v].job # t.job
  PROVE  Structure'
<1> USE DEF Structure, storeVars, createVars
<1>1. TypeOK'
  BY DEF TypeOK, StoreTypeOK, CreateTypeOK, WorkerTypeOK
<1>2. CallShape'
  BY DEF CallShape, CallOK
<1>3. RowShape'
  BY DEF RowShape
<1>4. TxShape'
  <2>1. \A v \in Workers : TxOK(tx'[v])
    BY DEF TxShape, TypeOK, WorkerTypeOK
  <2>2. \A v \in Workers : TxOK(tx[v])'
    BY <2>1 DEF TxOK, Decided, Undecided
  <2>3. \A u, v \in Workers : u # v /\ tx'[v].job # NoJob => tx'[u].job # tx'[v].job
    BY DEF TxShape, TypeOK, WorkerTypeOK
  <2> QED
    BY <2>2, <2>3 DEF TxShape
<1> QED
  BY <1>1, <1>2, <1>3, <1>4

\* Recording an attempt leaves a transaction.
LEMMA RecordAttemptType ==
  ASSUME NEW t \in Transaction, NEW outcome \in AttemptOutcome,
         NEW code \in ErrorCodes \cup {"none"}
  PROVE  RecordAttempt(t, outcome, code) \in Transaction
<1> DEFINE taken == AttemptTaken(t.job, t.count)
<1>1. taken \in BOOLEAN
  BY DEF AttemptTaken
<1>2. "commit" \in WorkerPc
  BY DEF WorkerPc
<1> HIDE DEF taken
<1>3. [t EXCEPT !.outcome = outcome, !.code = code, !.aborted = taken, !.pc = "commit"]
        \in Transaction
  BY <1>1, <1>2 DEF Transaction
<1> QED
  BY <1>3 DEF RecordAttempt, taken

\* So does a terminal failure.
LEMMA TerminallyFailedType ==
  ASSUME NEW t \in Transaction
  PROVE  TerminallyFailed(t, t.code) \in Transaction
<1>1. [t EXCEPT !.invStatus = "failed", !.jobStatus = "failed",
                !.audit = "investigation.failed"] \in Transaction
  BY ZenonT(40) DEF Transaction, InvestigationStatus, JobStatus, AuditAction
<1>2. t.code \in ErrorCodes \cup {"none"} /\ "failed" \in AttemptOutcome
  BY DEF Transaction, AttemptOutcome
<1> QED
  BY <1>1, <1>2, RecordAttemptType DEF TerminallyFailed

\* The steps of run_once between its claim and its commit.
LEMMA RunOnceLocal ==
  ASSUME Structure, NEW w \in Workers, UNCHANGED createVars,
         \/ GetMissing(w) \/ GetCancelled(w) \/ GetFound(w) \/ MarkRunning(w)
         \/ AnalysisSucceeds(w) \/ AnalysisRetryable(w) \/ AnalysisTerminal(w)
         \/ AppendEvidence(w) \/ Succeed(w) \/ TerminalFail(w) \/ RetryOrFail(w)
         \/ Escape(w) \/ StatementError(w) \/ Crash(w)
  PROVE  Structure'
<1>1. tx \in [Workers -> Transaction] /\ tx[w] \in Transaction /\ TxOK(tx[w])
  BY DEF Structure, TypeOK, WorkerTypeOK, TxShape
<1>GetMissing. CASE GetMissing(w)
  <2> DEFINE t == [tx[w] EXCEPT !.pc = "commit", !.jobStatus = "failed"]
  <2>1. t \in Transaction
    BY <1>1, ZenonT(40) DEF Transaction, WorkerPc, JobStatus
  <2>2. TxOK(t)
    BY <1>1, <1>GetMissing
    DEF GetMissing, Transaction, TxOK, Undecided, Decided
  <2>3. tx' = [tx EXCEPT ![w] = t]
    BY <1>1, <1>GetMissing DEF GetMissing
  <2>4. t.job = tx[w].job \/ t.job = NoJob
    BY <1>1 DEF Transaction
  <2>5. UNCHANGED storeVars
    BY <1>GetMissing DEF GetMissing
  <2> HIDE DEF t
  <2> QED
    BY <2>1, <2>2, <2>3, <2>4, <2>5, LocalStep
<1>GetCancelled. CASE GetCancelled(w)
  <2> DEFINE t == [tx[w] EXCEPT !.pc = "commit", !.jobStatus = "cancelled"]
  <2>1. t \in Transaction
    <3>1. "commit" \in WorkerPc /\ "cancelled" \in JobStatus
      BY DEF WorkerPc, JobStatus
    <3> QED
      BY <1>1, <3>1 DEF Transaction
  <2>2. TxOK(t)
    BY <1>1, <1>GetCancelled
    DEF GetCancelled, Transaction, TxOK, Undecided, Decided
  <2>3. tx' = [tx EXCEPT ![w] = t]
    BY <1>1, <1>GetCancelled DEF GetCancelled
  <2>4. t.job = tx[w].job \/ t.job = NoJob
    BY <1>1 DEF Transaction
  <2>5. UNCHANGED storeVars
    BY <1>GetCancelled DEF GetCancelled
  <2> HIDE DEF t
  <2> QED
    BY <2>1, <2>2, <2>3, <2>4, <2>5, LocalStep
<1>GetFound. CASE GetFound(w)
  <2> DEFINE t == [tx[w] EXCEPT !.pc = "mark"]
  <2>1. t \in Transaction
    BY <1>1 DEF Transaction, WorkerPc
  <2>2. TxOK(t)
    BY <1>1, <1>GetFound
    DEF GetFound, Transaction, TxOK, Undecided, Decided
  <2>3. tx' = [tx EXCEPT ![w] = t]
    BY <1>1, <1>GetFound DEF GetFound
  <2>4. t.job = tx[w].job \/ t.job = NoJob
    BY <1>1 DEF Transaction
  <2>5. UNCHANGED storeVars
    BY <1>GetFound DEF GetFound
  <2> HIDE DEF t
  <2> QED
    BY <2>1, <2>2, <2>3, <2>4, <2>5, LocalStep
<1>MarkRunning. CASE MarkRunning(w)
  <2> DEFINE t == [tx[w] EXCEPT !.pc = "analyse", !.invStatus = "running"]
  <2>1. t \in Transaction
    BY <1>1, ZenonT(40) DEF Transaction, WorkerPc, InvestigationStatus
  <2>2. TxOK(t)
    BY <1>1, <1>MarkRunning
    DEF MarkRunning, Transaction, TxOK, Undecided, Decided
  <2>3. tx' = [tx EXCEPT ![w] = t]
    BY <1>1, <1>MarkRunning DEF MarkRunning
  <2>4. t.job = tx[w].job \/ t.job = NoJob
    BY <1>1 DEF Transaction
  <2>5. UNCHANGED storeVars
    BY <1>MarkRunning DEF MarkRunning
  <2> HIDE DEF t
  <2> QED
    BY <2>1, <2>2, <2>3, <2>4, <2>5, LocalStep
<1>AnalysisSucceeds. CASE AnalysisSucceeds(w)
  <2>p. PICK ledger \in SUBSET Evidence, cites \in SUBSET Evidence :
         cites \subseteq ledger /\ tx' = [tx EXCEPT ![w].pc = "persist", ![w].ledger = ledger, ![w].cites = cites]
    BY <1>AnalysisSucceeds DEF AnalysisSucceeds
  <2> DEFINE t == [tx[w] EXCEPT !.pc = "persist", !.ledger = ledger, !.cites = cites]
  <2>1. t \in Transaction
    BY <1>1, <2>p DEF Transaction, WorkerPc
  <2>2. TxOK(t)
    BY <1>1, <1>AnalysisSucceeds, <2>p
    DEF AnalysisSucceeds, Transaction, TxOK, Undecided, Decided
  <2>3. tx' = [tx EXCEPT ![w] = t]
    BY <1>1, <1>AnalysisSucceeds, <2>p DEF AnalysisSucceeds
  <2>4. t.job = tx[w].job \/ t.job = NoJob
    BY <1>1 DEF Transaction
  <2>5. UNCHANGED storeVars
    BY <1>AnalysisSucceeds DEF AnalysisSucceeds
  <2> HIDE DEF t
  <2> QED
    BY <2>1, <2>2, <2>3, <2>4, <2>5, LocalStep
<1>AnalysisRetryable. CASE AnalysisRetryable(w)
  <2>p. PICK code \in RetryableCodes :
         tx' = [tx EXCEPT ![w].pc = "retry", ![w].code = code]
    BY <1>AnalysisRetryable DEF AnalysisRetryable
  <2> DEFINE t == [tx[w] EXCEPT !.pc = "retry", !.code = code]
  <2>1. t \in Transaction
    BY <1>1, <2>p DEF Transaction, WorkerPc, ErrorCodes
  <2>2. TxOK(t)
    BY <1>1, <1>AnalysisRetryable, <2>p
    DEF AnalysisRetryable, Transaction, TxOK, Undecided, Decided
  <2>3. tx' = [tx EXCEPT ![w] = t]
    BY <1>1, <1>AnalysisRetryable, <2>p DEF AnalysisRetryable
  <2>4. t.job = tx[w].job \/ t.job = NoJob
    BY <1>1 DEF Transaction
  <2>5. UNCHANGED storeVars
    BY <1>AnalysisRetryable DEF AnalysisRetryable
  <2> HIDE DEF t
  <2> QED
    BY <2>1, <2>2, <2>3, <2>4, <2>5, LocalStep
<1>AnalysisTerminal. CASE AnalysisTerminal(w)
  <2>p. PICK code \in TerminalCodes :
         tx' = [tx EXCEPT ![w].pc = "fail", ![w].code = code]
    BY <1>AnalysisTerminal DEF AnalysisTerminal
  <2> DEFINE t == [tx[w] EXCEPT !.pc = "fail", !.code = code]
  <2>1. t \in Transaction
    BY <1>1, <2>p DEF Transaction, WorkerPc, ErrorCodes
  <2>2. TxOK(t)
    BY <1>1, <1>AnalysisTerminal, <2>p
    DEF AnalysisTerminal, Transaction, TxOK, Undecided, Decided
  <2>3. tx' = [tx EXCEPT ![w] = t]
    BY <1>1, <1>AnalysisTerminal, <2>p DEF AnalysisTerminal
  <2>4. t.job = tx[w].job \/ t.job = NoJob
    BY <1>1 DEF Transaction
  <2>5. UNCHANGED storeVars
    BY <1>AnalysisTerminal DEF AnalysisTerminal
  <2> HIDE DEF t
  <2> QED
    BY <2>1, <2>2, <2>3, <2>4, <2>5, LocalStep
<1>AppendEvidence. CASE AppendEvidence(w)
  <2> DEFINE e == NextEntry(tx[w])
             rows == IF EvidenceStored(inv[tx[w].inv], e) THEN tx[w].rows
                     ELSE tx[w].rows \cup {e}
             t == [tx[w] EXCEPT !.done = @ \cup {e}, !.rows = rows]
  <2>0. e \in tx[w].ledger \ tx[w].done
    <3>1. tx[w].ledger \ tx[w].done # {} /\ tx[w].ledger \ tx[w].done \subseteq Nat
      BY <1>1, <1>AppendEvidence, StoreAssumption DEF AppendEvidence, TxOK, Transaction
    <3> QED
      BY <3>1, MinIsLeast DEF NextEntry
  <2> HIDE DEF e
  <2>1. t \in Transaction
    BY <1>1, <2>0 DEF Transaction
  <2>2. TxOK(t)
    BY <1>1, <1>AppendEvidence, <2>0 DEF AppendEvidence, Transaction, TxOK, Undecided, Decided
  <2>3. tx' = [tx EXCEPT ![w] = t]
    BY <1>1, <1>AppendEvidence DEF AppendEvidence, e
  <2>4. t.job = tx[w].job \/ t.job = NoJob
    BY <1>1 DEF Transaction
  <2>5. UNCHANGED storeVars
    BY <1>AppendEvidence DEF AppendEvidence
  <2> HIDE DEF t
  <2> QED
    BY <2>1, <2>2, <2>3, <2>4, <2>5, LocalStep
<1>Succeed. CASE Succeed(w)
  <2> DEFINE t == Succeeded(tx[w])
  <2>1. t \in Transaction
    <3>1. CASE reports[tx[w].inv] # NoRow
      BY <1>1, <3>1, ZenonT(40) DEF Succeeded, Transaction, WorkerPc, ErrorCodes, TerminalCodes
    <3>2. CASE reports[tx[w].inv] = NoRow
      <4>1. [tx[w] EXCEPT !.report = TRUE, !.invStatus = "succeeded",
                          !.audit = "report.persisted", !.jobStatus = "succeeded"]
              \in Transaction
        BY <1>1, ZenonT(40) DEF Transaction, InvestigationStatus, AuditAction, JobStatus
      <4> QED
        BY <3>2, <4>1, RecordAttemptType DEF Succeeded, AttemptOutcome
    <3> QED
      BY <3>1, <3>2
  <2>2. TxOK(t)
    BY <1>1, <1>Succeed
    DEF Succeed, Transaction, TxOK, Undecided, Decided, Succeeded,
         RecordAttempt
  <2>3. tx' = [tx EXCEPT ![w] = t]
    BY <1>1, <1>Succeed DEF Succeed
  <2>4. t.job = tx[w].job \/ t.job = NoJob
    BY <1>1 DEF Transaction, Succeeded, RecordAttempt
  <2>5. UNCHANGED storeVars
    BY <1>Succeed DEF Succeed
  <2> HIDE DEF t
  <2> QED
    BY <2>1, <2>2, <2>3, <2>4, <2>5, LocalStep
<1>TerminalFail. CASE TerminalFail(w)
  <2> DEFINE t == TerminallyFailed(tx[w], tx[w].code)
  <2>1. t \in Transaction
    BY <1>1, TerminallyFailedType
  <2>2. TxOK(t)
    BY <1>1, <1>TerminalFail
    DEF TerminalFail, Transaction, TxOK, Undecided, Decided,
         TerminallyFailed, RecordAttempt
  <2>3. tx' = [tx EXCEPT ![w] = t]
    BY <1>1, <1>TerminalFail DEF TerminalFail
  <2>4. t.job = tx[w].job \/ t.job = NoJob
    BY <1>1 DEF Transaction, TerminallyFailed, RecordAttempt
  <2>5. UNCHANGED storeVars
    BY <1>TerminalFail DEF TerminalFail
  <2> HIDE DEF t
  <2> QED
    BY <2>1, <2>2, <2>3, <2>4, <2>5, LocalStep
<1>RetryOrFail. CASE RetryOrFail(w)
  <2> DEFINE t == IF Exhausted(tx[w]) THEN TerminallyFailed(tx[w], tx[w].code) ELSE Requeued(tx[w])
  <2>1. t \in Transaction
    <3>1. [tx[w] EXCEPT !.jobStatus = "queued"] \in Transaction
      BY <1>1 DEF Transaction, JobStatus
    <3>2. tx[w].code \in ErrorCodes \cup {"none"} /\ "failed" \in AttemptOutcome
      BY <1>1 DEF Transaction, AttemptOutcome
    <3>3. Requeued(tx[w]) \in Transaction
      BY <3>1, <3>2, RecordAttemptType DEF Requeued
    <3> QED
      BY <1>1, <3>3, TerminallyFailedType
  <2>2. TxOK(t)
    BY <1>1, <1>RetryOrFail, WorkerAssumption
    DEF RetryOrFail, Transaction, TxOK, Undecided, Decided,
         TerminallyFailed, Requeued, RecordAttempt, Exhausted
  <2>3. tx' = [tx EXCEPT ![w] = t]
    BY <1>1, <1>RetryOrFail DEF RetryOrFail
  <2>4. t.job = tx[w].job \/ t.job = NoJob
    BY <1>1 DEF Transaction, TerminallyFailed, Requeued, RecordAttempt
  <2>5. UNCHANGED storeVars
    BY <1>RetryOrFail DEF RetryOrFail
  <2> HIDE DEF t
  <2> QED
    BY <2>1, <2>2, <2>3, <2>4, <2>5, LocalStep
<1>Escape. CASE Escape(w)
  <2> DEFINE t == NoTransaction
  <2>1. t \in Transaction
    BY <1>1 DEF Transaction, WorkerPc, JobStatus, AttemptOutcome, ErrorCodes,
         AuditAction, NoTransaction
  <2>2. TxOK(t)
    BY <1>1, <1>Escape
    DEF Escape, Transaction, TxOK, Undecided, Decided, NoTransaction
  <2>3. tx' = [tx EXCEPT ![w] = t]
    BY <1>1, <1>Escape DEF Escape
  <2>4. t.job = tx[w].job \/ t.job = NoJob
    BY <1>1 DEF Transaction, NoTransaction
  <2>5. UNCHANGED storeVars
    BY <1>Escape DEF Escape
  <2> HIDE DEF t
  <2> QED
    BY <2>1, <2>2, <2>3, <2>4, <2>5, LocalStep
<1>StatementError. CASE StatementError(w)
  <2> DEFINE t == [tx[w] EXCEPT !.aborted = TRUE,
                            !.pc = IF @ = "persist" THEN "fail" ELSE @,
                            !.code = IF tx[w].pc = "persist" THEN "internal_error" ELSE @]
  <2>1. t \in Transaction
    <3>1. (IF tx[w].pc = "persist" THEN "fail" ELSE tx[w].pc) \in WorkerPc
      BY <1>1 DEF Transaction, WorkerPc
    <3>2. (IF tx[w].pc = "persist" THEN "internal_error" ELSE tx[w].code)
            \in ErrorCodes \cup {"none"}
      BY <1>1 DEF Transaction, ErrorCodes, TerminalCodes
    <3> QED
      BY <1>1, <3>1, <3>2, ZenonT(40) DEF Transaction
  <2>2. TxOK(t)
    BY <1>1, <1>StatementError
    DEF StatementError, Transaction, TxOK, Undecided, Decided
  <2>3. tx' = [tx EXCEPT ![w] = t]
    BY <1>1, <1>StatementError DEF StatementError
  <2>4. t.job = tx[w].job \/ t.job = NoJob
    BY <1>1 DEF Transaction
  <2>5. UNCHANGED storeVars
    BY <1>StatementError DEF StatementError
  <2> HIDE DEF t
  <2> QED
    BY <2>1, <2>2, <2>3, <2>4, <2>5, LocalStep
<1>Crash. CASE Crash(w)
  <2> DEFINE t == NoTransaction
  <2>1. t \in Transaction
    BY <1>1 DEF Transaction, WorkerPc, JobStatus, AttemptOutcome, ErrorCodes,
         AuditAction, NoTransaction
  <2>2. TxOK(t)
    BY <1>1, <1>Crash
    DEF Crash, Transaction, TxOK, Undecided, Decided, NoTransaction
  <2>3. tx' = [tx EXCEPT ![w] = t]
    BY <1>1, <1>Crash DEF Crash
  <2>4. t.job = tx[w].job \/ t.job = NoJob
    BY <1>1 DEF Transaction, NoTransaction
  <2>5. UNCHANGED storeVars
    BY <1>Crash DEF Crash
  <2> HIDE DEF t
  <2> QED
    BY <2>1, <2>2, <2>3, <2>4, <2>5, LocalStep
<1> QED
  BY <1>GetMissing, <1>GetCancelled, <1>GetFound, <1>MarkRunning,
     <1>AnalysisSucceeds, <1>AnalysisRetryable, <1>AnalysisTerminal, <1>AppendEvidence,
     <1>Succeed, <1>TerminalFail, <1>RetryOrFail, <1>Escape, <1>StatementError, <1>Crash

\* A claim takes a job that no other worker holds; the claimed row is queued,
\* since no claim survives its transaction.
LEMMA ClaimStep ==
  ASSUME Structure, NEW w \in Workers, UNCHANGED createVars, Claim(w)
  PROVE  Structure'
<1>1. PICK j \in Jobs :
        /\ Eligible(j)
        /\ tx' = [tx EXCEPT ![w] =
             [NoTransaction EXCEPT
                !.pc = "get", !.job = j, !.inv = job[j].inv,
                !.count = job[j].attempt_count + 1, !.jobStatus = "claimed",
                !.cancelledAtClaim =
                  job[j].inv # NoInv /\ inv[job[j].inv].status = "cancelled"]]
  BY DEF Claim
<1> DEFINE cancelled == job[j].inv # NoInv /\ inv[job[j].inv].status = "cancelled"
           t == [NoTransaction EXCEPT
                   !.pc = "get", !.job = j, !.inv = job[j].inv,
                   !.count = job[j].attempt_count + 1, !.jobStatus = "claimed",
                   !.cancelledAtClaim = cancelled]
<1>2. job[j] \in JobRecord /\ job[j] # NoRow /\ job[j].status = "queued"
  BY <1>1 DEF Structure, TypeOK, StoreTypeOK, RowShape, Eligible, Claimable, Finished
<1>3. job[j].inv \in Invs \cup {NoInv} /\ job[j].attempt_count + 1 \in Nat
  BY <1>2 DEF JobRecord
<1>4. cancelled \in BOOLEAN
  OBVIOUS
<1>5. tx' = [tx EXCEPT ![w] = t] /\ UNCHANGED storeVars
  BY <1>1 DEF Claim
<1> HIDE DEF cancelled
<1>6. t \in Transaction
  BY <1>3, <1>4 DEF Transaction, NoTransaction, WorkerPc, JobStatus, AttemptOutcome,
     AuditAction, ErrorCodes
<1>7. TxOK(t)
  BY <1>2, <1>3 DEF TxOK, NoTransaction, Undecided, Decided
<1>8. \A v \in Workers : tx[v].job # t.job
  BY <1>1 DEF Eligible, JobLocked, NoTransaction
<1> HIDE DEF t
<1> QED
  BY <1>5, <1>6, <1>7, <1>8, LocalStep

\* A step of a client that writes no committed row.
LEMMA LocalCall ==
  ASSUME Structure, NEW c \in Clients, NEW t \in Call,
         UNCHANGED storeVars, UNCHANGED tx, UNCHANGED replies,
         call' = [call EXCEPT ![c] = t],
         CallOK(t),
         t.new => \/ call[c].new /\ t.inv = call[c].inv
                  \/ \A d \in Clients : call[d].inv # t.inv,
         ~t.new => \A d \in Clients : call[d].new => call[d].inv # t.inv,
         t.job # NoJob => \A d \in Clients : call[d].job # t.job
  PROVE  Structure'
<1> USE DEF Structure, storeVars
<1>1. TypeOK'
  BY DEF TypeOK, StoreTypeOK, CreateTypeOK, WorkerTypeOK
<1>2. CallShape'
  <2>1. \A d \in Clients : CallOK(call'[d])
    BY DEF CallShape, TypeOK, CreateTypeOK
  <2>2. \A d \in Clients : CallOK(call[d])'
    BY <2>1 DEF CallOK
  <2>3. \A b, d \in Clients : b # d /\ call'[b].new => call'[d].inv # call'[b].inv
    BY DEF CallShape, TypeOK, CreateTypeOK
  <2>4. \A b, d \in Clients : b # d /\ call'[b].job # NoJob => call'[d].job # call'[b].job
    BY DEF CallShape, TypeOK, CreateTypeOK
  <2> QED
    BY <2>2, <2>3, <2>4 DEF CallShape
<1>3. RowShape'
  BY DEF RowShape
<1>4. TxShape'
  BY DEF TxShape, TxOK, Decided, Undecided
<1> QED
  BY <1>1, <1>2, <1>3, <1>4

\* The steps of a request before its commit, and its death.
LEMMA CallSteps ==
  ASSUME Structure, NEW c \in Clients, UNCHANGED tx,
         \/ \E r \in Requests : Insert(c, r) \/ Replay(c, r)
         \/ Enqueue(c) \/ AbandonCall(c)
  PROVE  Structure'
<1>1. /\ call \in [Clients -> Call] /\ now \in Nat
      /\ \A d \in Clients : call[d] \in Call /\ CallOK(call[d])
  BY DEF Structure, TypeOK, StoreTypeOK, CreateTypeOK, CallShape
<1>2. \A d \in Clients : call[d].new => call[d].inv \in Invs /\ inv[call[d].inv] = NoRow
  BY <1>1 DEF CallOK, NoCall
<1>3. NoCall \in Call
  BY DEF NoCall, Call, CallPc
<1>4. CallOK(NoCall)
  BY DEF CallOK, NoCall
<1>Insert. ASSUME NEW r \in Requests, Insert(c, r) PROVE Structure'
  <2>1. PICK i \in Invs :
          /\ FreshInvestigation(i)
          /\ call' = [call EXCEPT ![c] =
               [NoCall EXCEPT !.pc = "created", !.request = r, !.inv = i, !.new = TRUE,
                              !.now = now]]
    BY <1>Insert DEF Insert
  <2> DEFINE t == [NoCall EXCEPT !.pc = "created", !.request = r, !.inv = i, !.new = TRUE,
                                 !.now = now]
  <2>2. t \in Call /\ CallOK(t)
    BY <1>1, <2>1, RequestsAssumption DEF Call, CallPc, NoCall, CallOK, FreshInvestigation
  <2>3. t.new /\ t.job = NoJob /\ \A d \in Clients : call[d].inv # t.inv
    BY <2>1 DEF NoCall, FreshInvestigation
  <2>4. UNCHANGED storeVars /\ UNCHANGED replies
    BY <1>Insert DEF Insert
  <2>5. call' = [call EXCEPT ![c] = t]
    BY <2>1
  <2> HIDE DEF t
  <2> QED
    BY <2>2, <2>3, <2>4, <2>5, LocalCall
<1>Replay. ASSUME NEW r \in Requests, Replay(c, r) PROVE Structure'
  <2>1. PICK i \in Invs :
          /\ inv[i] # NoRow
          /\ SameKey(r, inv[i])
          /\ call' = [call EXCEPT ![c] =
               [NoCall EXCEPT !.pc = "enqueued", !.request = r, !.inv = i, !.now = now]]
    BY <1>Replay DEF Replay
  <2> DEFINE t == [NoCall EXCEPT !.pc = "enqueued", !.request = r, !.inv = i, !.now = now]
  <2>2. t \in Call /\ CallOK(t)
    BY <1>1, <2>1, RequestsAssumption DEF Call, CallPc, NoCall, CallOK
  <2>3. ~t.new /\ t.job = NoJob /\ \A d \in Clients : call[d].new => call[d].inv # t.inv
    BY <1>2, <2>1 DEF NoCall
  <2>4. UNCHANGED storeVars /\ UNCHANGED replies
    BY <1>Replay DEF Replay
  <2>5. call' = [call EXCEPT ![c] = t]
    BY <2>1
  <2> HIDE DEF t
  <2> QED
    BY <2>2, <2>3, <2>4, <2>5, LocalCall
<1>Enqueue. CASE Enqueue(c)
  <2>1. PICK j \in Jobs :
          /\ FreshJob(j)
          /\ call' = [call EXCEPT ![c].pc = "enqueued", ![c].job = j]
    BY <1>Enqueue DEF Enqueue
  <2> DEFINE t == [call[c] EXCEPT !.pc = "enqueued", !.job = j]
  <2>2. t \in Call
    BY <1>1 DEF Call, CallPc
  <2>3. CallOK(t)
    BY <1>1, <1>Enqueue, <2>1, StoreAssumption, ZenonT(40) DEF Enqueue, Call, CallOK, FreshJob
  <2>4. t.new /\ call[c].new /\ t.inv = call[c].inv /\ \A d \in Clients : call[d].job # t.job
    BY <1>1, <1>Enqueue, <2>1 DEF Enqueue, Call, CallOK, FreshJob
  <2>5. UNCHANGED storeVars /\ UNCHANGED replies
    BY <1>Enqueue DEF Enqueue
  <2>6. call' = [call EXCEPT ![c] = t]
    BY <1>1, <2>1
  <2> HIDE DEF t
  <2> QED
    BY <2>2, <2>3, <2>4, <2>5, <2>6, LocalCall
<1>Abandon. CASE AbandonCall(c)
  <2>1. ~NoCall.new /\ NoCall.job = NoJob /\ NoCall.inv = NoInv
    BY DEF NoCall
  <2>2. \A d \in Clients : call[d].new => call[d].inv # NoCall.inv
    BY <1>2, <2>1, StoreAssumption
  <2>3. /\ UNCHANGED storeVars /\ UNCHANGED replies
        /\ call' = [call EXCEPT ![c] = NoCall]
    BY <1>Abandon DEF AbandonCall
  <2> QED
    BY <1>3, <1>4, <2>1, <2>2, <2>3, LocalCall
<1> QED
  BY <1>Insert, <1>Replay, <1>Enqueue, <1>Abandon

\* The commit of a request publishes an investigation and a job nobody knew.
LEMMA CommitCallStep ==
  ASSUME Structure, NEW c \in Clients, UNCHANGED tx, CommitCall(c)
  PROVE  Structure'
<1> DEFINE t == call[c]
           row == [tenant |-> t.request.tenant, run |-> t.request.run,
                   key |-> t.request.key, status |-> "pending"]
           new == [inv |-> t.inv, status |-> "queued", available_at |-> t.now,
                   attempt_count |-> 0]
<1>1. /\ call \in [Clients -> Call] /\ call' = [call EXCEPT ![c] = NoCall]
      /\ t \in Call /\ t.pc = "enqueued"
      /\ \A d \in Clients : CallOK(call[d])
      /\ inv \in [Invs -> InvestigationRecord \cup {NoRow}]
      /\ job \in [Jobs -> JobRecord \cup {NoRow}]
  BY DEF Structure, TypeOK, StoreTypeOK, CreateTypeOK, CallShape, CommitCall
<1>2. t.request \in Request /\ t.inv \in Invs /\ (t.new <=> t.job # NoJob)
  BY <1>1 DEF CallOK
<1>3. row \in InvestigationRecord /\ new \in JobRecord
  BY <1>1, <1>2 DEF Request, InvestigationRecord, InvestigationStatus, JobRecord, JobStatus, Call
<1>4. row # NoRow /\ new # NoRow
  BY <1>3, NoRowAssumption
<1>5. CASE ~t.new
  <2>1. UNCHANGED <<inv, job, audit, attempts, evidence, reports, now>>
    BY <1>2, <1>5 DEF CommitCall
  <2>2. replies' = replies \cup {[request |-> t.request, inv |-> t.inv]}
    BY DEF CommitCall
  <2>3. TypeOK'
    <3>1. NoCall \in Call
      BY DEF NoCall, Call, CallPc
    <3> QED
      BY <1>1, <1>2, <2>1, <2>2, <3>1
      DEF Structure, TypeOK, StoreTypeOK, CreateTypeOK, WorkerTypeOK
  <2>4. CallShape'
    BY <1>1, <2>1, StoreAssumption DEF Structure, CallShape, CallOK, NoCall
  <2>5. RowShape'
    BY <2>1 DEF Structure, RowShape
  <2>6. TxShape'
    BY <2>1 DEF Structure, TxShape, TxOK, Decided, Undecided
  <2> QED
    BY <2>3, <2>4, <2>5, <2>6 DEF Structure
<1>6. CASE t.new
  <2>1. /\ inv' = [inv EXCEPT ![t.inv] = row] /\ job' = [job EXCEPT ![t.job] = new]
        /\ audit' = [audit EXCEPT ![t.inv]["investigation.created"] = @ + 1]
        /\ replies' = replies \cup {[request |-> t.request, inv |-> t.inv]}
        /\ UNCHANGED <<attempts, evidence, reports, now>>
    BY <1>2, <1>6 DEF CommitCall
  <2>2. t.job \in Jobs /\ inv[t.inv] = NoRow /\ job[t.job] = NoRow
    BY <1>1, <1>2, <1>6 DEF CallOK, Call
  <2> HIDE DEF row, new
  <2>3. \A i \in Invs : inv[i] # NoRow => inv'[i] = inv[i]
    BY <1>1, <2>1, <2>2
  <2>4. \A j \in Jobs : job[j] # NoRow => job'[j] = job[j]
    BY <1>1, <2>1, <2>2
  <2>5. TypeOK'
    <3>1. NoCall \in Call
      BY DEF NoCall, Call, CallPc
    <3>2. audit' \in [Invs -> [AuditAction -> Nat]]
      BY <1>2, <2>1 DEF Structure, TypeOK, StoreTypeOK, AuditAction
    <3>3. inv' \in [Invs -> InvestigationRecord \cup {NoRow}]
      BY <1>1, <1>3, <2>1
    <3>4. job' \in [Jobs -> JobRecord \cup {NoRow}]
      BY <1>1, <1>3, <2>1
    <3>5. CreateTypeOK'
      BY <1>1, <1>2, <2>1, <3>1 DEF Structure, TypeOK, CreateTypeOK
    <3> QED
      BY <2>1, <3>2, <3>3, <3>4, <3>5 DEF Structure, TypeOK, StoreTypeOK, WorkerTypeOK
  <2>6. CallShape'
    <3>1. \A d \in Clients : d # c => call'[d] = call[d] /\ call[d] \in Call
      BY <1>1
    <3>2. \A d \in Clients : d # c => call[d].inv # t.inv /\ call[d].job # t.job
      BY <1>2, <1>6 DEF Structure, CallShape
    <3>3. \A d \in Clients : CallOK(call[d])'
      <4> SUFFICES ASSUME NEW d \in Clients PROVE CallOK(call[d])'
        OBVIOUS
      <4>1. CASE d = c
        BY <1>1, <4>1 DEF CallOK, NoCall
      <4>2. CASE d # c
        <5>1. /\ call[d].inv \in Invs => inv'[call[d].inv] = inv[call[d].inv]
              /\ call[d].job \in Jobs => job'[call[d].job] = job[call[d].job]
          BY <1>1, <2>1, <3>2, <4>2
        <5> QED
          BY <1>1, <3>1, <4>2, <5>1 DEF CallOK, Call, NoCall
      <4> QED
        BY <4>1, <4>2
    <3> QED
      BY <1>1, <3>1, <3>3, StoreAssumption DEF Structure, CallShape, NoCall, CallOK
  <2>7. RowShape'
    <3>1. new.inv = t.inv /\ new.status = "queued"
      BY DEF new
    <3>2. \A j \in Jobs : job[j] # NoRow => job[j].inv # t.inv
      BY <1>2, <2>2, StoreAssumption DEF Structure, RowShape
    <3>3. \A j \in Jobs : j # t.job => job'[j] = job[j]
      BY <1>1, <2>1
    <3>4. job'[t.job] = new /\ inv'[t.inv] # NoRow
      BY <1>1, <1>2, <1>4, <2>1, <2>2
    <3>5. \A j \in Jobs : job[j] # NoRow => job[j].inv \in Invs \cup {NoInv}
      BY <1>1 DEF JobRecord
    <3> QED
      BY <2>3, <3>1, <3>2, <3>3, <3>4, <3>5 DEF Structure, RowShape
  <2>8. TxShape'
    <3>1. \A w \in Workers : TxOK(tx[w])'
      <4> SUFFICES ASSUME NEW w \in Workers PROVE TxOK(tx[w])'
        OBVIOUS
      <4>1. tx[w] \in Transaction /\ TxOK(tx[w])
        BY DEF Structure, TypeOK, WorkerTypeOK, TxShape
      <4>2. tx[w].pc # "idle" => job'[tx[w].job] = job[tx[w].job]
        BY <2>4, <4>1 DEF TxOK
      <4>3. tx[w].inv # NoInv => inv[tx[w].inv] # NoRow /\ inv'[tx[w].inv] = inv[tx[w].inv]
        BY <2>3, <4>1 DEF Structure, RowShape, TxOK, NoTransaction, Transaction
      <4> QED
        BY <4>1, <4>2, <4>3 DEF TxOK, Decided, Undecided
    <3> QED
      BY <3>1 DEF Structure, TxShape
  <2> QED
    BY <2>5, <2>6, <2>7, <2>8 DEF Structure
<1> QED
  BY <1>5, <1>6

\* What is known of the transaction a worker commits.
LEMMA AtCommit ==
  ASSUME Structure, NEW w \in Workers, Commit(w)
  PROVE  /\ tx[w] \in Transaction /\ Decided(tx[w])
         /\ tx[w].job \in Jobs /\ job[tx[w].job] \in JobRecord
         /\ job[tx[w].job] # NoRow /\ job[tx[w].job].status = "queued"
         /\ tx[w].inv = job[tx[w].job].inv
         /\ tx[w].count = job[tx[w].job].attempt_count + 1
         /\ tx[w].inv \in Invs \cup {NoInv}
         /\ tx[w].inv # NoInv =>
              inv[tx[w].inv] # NoRow /\ inv[tx[w].inv] \in InvestigationRecord
         /\ tx[w].invStatus # "unchanged" \/ tx[w].report \/ tx[w].audit # "none" \/ tx[w].rows # {}
              => tx[w].inv # NoInv
<1>1. tx[w] \in Transaction /\ TxOK(tx[w]) /\ tx[w].pc = "commit"
  BY DEF Structure, TypeOK, WorkerTypeOK, TxShape, Commit
<1>2. /\ tx[w].job \in Jobs /\ job[tx[w].job] # NoRow
      /\ job[tx[w].job].status = "queued"
      /\ tx[w].inv = job[tx[w].job].inv
      /\ tx[w].count = job[tx[w].job].attempt_count + 1
      /\ Decided(tx[w])
  BY <1>1 DEF TxOK
<1>3. job[tx[w].job] \in JobRecord
  BY <1>2 DEF Structure, TypeOK, StoreTypeOK
<1>4. tx[w].inv \in Invs \cup {NoInv}
  BY <1>2, <1>3 DEF JobRecord
<1>5. tx[w].inv # NoInv => inv[tx[w].inv] # NoRow /\ inv[tx[w].inv] \in InvestigationRecord
  BY <1>2, <1>4 DEF Structure, TypeOK, StoreTypeOK, RowShape
<1>6. tx[w].invStatus # "unchanged" \/ tx[w].report \/ tx[w].audit # "none" \/ tx[w].rows # {}
        => tx[w].inv # NoInv
  BY <1>2 DEF Decided
<1> QED
  BY <1>1, <1>2, <1>3, <1>4, <1>5, <1>6

\* What the commit of a worker does to the two tables with statuses: it changes
\* the row of its job and the status of its investigation, and nothing else.
LEMMA CommitRows ==
  ASSUME Structure, NEW w \in Workers, Commit(w)
  PROVE  /\ job'[tx[w].job] \in JobRecord
         /\ job'[tx[w].job].inv = tx[w].inv
         /\ job'[tx[w].job].status = tx[w].jobStatus
         /\ job'[tx[w].job].attempt_count = tx[w].count
         /\ \A j \in Jobs : j # tx[w].job => job'[j] = job[j]
         /\ \A i \in Invs : i # tx[w].inv => inv'[i] = inv[i]
         /\ tx[w].inv # NoInv =>
              /\ inv'[tx[w].inv] \in InvestigationRecord
              /\ inv'[tx[w].inv].tenant = inv[tx[w].inv].tenant
              /\ inv'[tx[w].inv].run = inv[tx[w].inv].run
              /\ inv'[tx[w].inv].key = inv[tx[w].inv].key
              /\ inv'[tx[w].inv].status =
                   IF tx[w].invStatus = "unchanged" THEN inv[tx[w].inv].status
                   ELSE tx[w].invStatus
<1> DEFINE t == tx[w]
           newJob == [job[t.job] EXCEPT !.status = t.jobStatus, !.attempt_count = t.count]
           newInv == [inv[t.inv] EXCEPT !.status = t.invStatus]
<1>1. /\ inv \in [Invs -> InvestigationRecord \cup {NoRow}]
      /\ job \in [Jobs -> JobRecord \cup {NoRow}]
  BY DEF Structure, TypeOK, StoreTypeOK
<1>2. /\ job' = [job EXCEPT ![t.job] = newJob]
      /\ inv' = IF t.invStatus = "unchanged" THEN inv ELSE [inv EXCEPT ![t.inv] = newInv]
  BY <1>1, AtCommit DEF Commit
<1>3. /\ newJob \in JobRecord /\ newJob.inv = t.inv
      /\ newJob.status = t.jobStatus /\ newJob.attempt_count = t.count
  BY AtCommit, ZenonT(40) DEF JobRecord, Transaction
<1>4. t.inv # NoInv /\ t.invStatus # "unchanged" =>
        /\ newInv \in InvestigationRecord /\ newInv.status = t.invStatus
        /\ newInv.tenant = inv[t.inv].tenant
        /\ newInv.run = inv[t.inv].run
        /\ newInv.key = inv[t.inv].key
  BY AtCommit DEF InvestigationRecord, Transaction
<1> HIDE DEF newJob, newInv
<1>5. job'[t.job] = newJob
  BY <1>1, <1>2, AtCommit
<1>6. t.inv # NoInv => inv'[t.inv] = IF t.invStatus = "unchanged" THEN inv[t.inv] ELSE newInv
  BY <1>1, <1>2, AtCommit
<1>7. \A i \in Invs : i # t.inv => inv'[i] = inv[i]
  BY <1>1, <1>2
<1>8. \A j \in Jobs : j # t.job => job'[j] = job[j]
  BY <1>1, <1>2
<1>9. t.inv # NoInv => inv[t.inv] \in InvestigationRecord
  BY AtCommit
<1> QED
  BY <1>3, <1>4, <1>5, <1>6, <1>7, <1>8, <1>9

LEMMA CommitStep ==
  ASSUME Structure, NEW w \in Workers, UNCHANGED createVars, Commit(w)
  PROVE  Structure'
<1> DEFINE t == tx[w]
<1>1. /\ inv \in [Invs -> InvestigationRecord \cup {NoRow}]
      /\ job \in [Jobs -> JobRecord \cup {NoRow}]
      /\ tx \in [Workers -> Transaction] /\ tx' = [tx EXCEPT ![w] = NoTransaction]
      /\ UNCHANGED <<call, replies, now>>
  BY DEF Structure, TypeOK, StoreTypeOK, WorkerTypeOK, Commit, createVars
<1>2. TypeOK'
  <2>1. inv' \in [Invs -> InvestigationRecord \cup {NoRow}]
    BY <1>1, AtCommit, CommitRows DEF Commit
  <2>2. job' \in [Jobs -> JobRecord \cup {NoRow}]
    BY <1>1, AtCommit, CommitRows DEF Commit
  <2>3. attempts' \subseteq AttemptRecord
    <3>1. t.outcome # "none" =>
            [job |-> t.job, number |-> t.count, outcome |-> t.outcome, code |-> t.code]
              \in AttemptRecord
      BY AtCommit DEF AttemptRecord, Transaction
    <3> QED
      BY <3>1 DEF Commit, Structure, TypeOK, StoreTypeOK
  <2>4. evidence' \subseteq EvidenceRecord
    <3>1. \A e \in t.rows :
            [tenant |-> inv[t.inv].tenant, run |-> inv[t.inv].run, id |-> e, inv |-> t.inv]
              \in EvidenceRecord
      BY AtCommit DEF EvidenceRecord, InvestigationRecord, Transaction
    <3> QED
      BY <3>1 DEF Commit, Structure, TypeOK, StoreTypeOK
  <2>5. reports' \in [Invs -> ReportRecord \cup {NoRow}]
    <3>1. t.report =>
            [tenant |-> inv[t.inv].tenant, run |-> inv[t.inv].run, cites |-> t.cites]
              \in ReportRecord
      BY AtCommit DEF ReportRecord, InvestigationRecord, Transaction
    <3> QED
      BY <3>1 DEF Commit, Structure, TypeOK, StoreTypeOK
  <2>6. audit' \in [Invs -> [AuditAction -> Nat]]
    <3>1. t.audit # "none" => t.inv \in Invs /\ t.audit \in AuditAction
      BY AtCommit DEF Transaction
    <3> QED
      BY <3>1 DEF Commit, Structure, TypeOK, StoreTypeOK
  <2>7. NoTransaction \in Transaction
    BY DEF Transaction, NoTransaction, WorkerPc, JobStatus, AttemptOutcome, AuditAction,
       ErrorCodes
  <2> QED
    BY <1>1, <2>1, <2>2, <2>3, <2>4, <2>5, <2>6, <2>7
    DEF Structure, TypeOK, StoreTypeOK, CreateTypeOK, WorkerTypeOK
<1>3. /\ \A i \in Invs : inv[i] = NoRow <=> inv'[i] = NoRow
      /\ \A j \in Jobs : job[j] = NoRow <=> job'[j] = NoRow
      /\ \A j \in Jobs : job[j] # NoRow => job'[j].inv = job[j].inv
  BY AtCommit, CommitRows, StoreAssumption, NoRowAssumption
<1>4. CallShape'
  <2>1. \A i \in Invs : inv[i] # NoRow =>
          inv'[i].key = inv[i].key /\ inv'[i].tenant = inv[i].tenant
    BY AtCommit, CommitRows, StoreAssumption
  <2>2. \A c \in Clients : CallOK(call[c])'
    <3> SUFFICES ASSUME NEW c \in Clients PROVE CallOK(call[c])'
      OBVIOUS
    <3>1. call[c] \in Call /\ CallOK(call[c]) /\ call'[c] = call[c]
      BY <1>1 DEF Structure, TypeOK, CreateTypeOK, CallShape
    <3> QED
      BY <1>3, <2>1, <3>1 DEF CallOK, Call, NoCall, SameKey
  <2> QED
    BY <1>1, <2>2 DEF Structure, CallShape
<1>5. RowShape'
  <2>1. t.jobStatus \in {"queued"} \cup Finished
    BY AtCommit DEF Decided, Finished
  <2>2. job'[t.job].status = t.jobStatus
    BY CommitRows
  <2>3. \A j \in Jobs : job[j] # NoRow => job[j].inv \in Invs \cup {NoInv}
    BY <1>1 DEF JobRecord
  <2> QED
    BY <1>3, <2>1, <2>2, <2>3, AtCommit, CommitRows DEF Structure, RowShape
<1>6. TxShape'
  <2>1. \A v \in Workers : TxOK(tx[v])'
    <3> SUFFICES ASSUME NEW v \in Workers PROVE TxOK(tx[v])'
      OBVIOUS
    <3>1. CASE v = w
      BY <1>1, <3>1 DEF TxOK, NoTransaction
    <3>2. CASE v # w
      <4>1. tx'[v] = tx[v] /\ tx[v] \in Transaction /\ TxOK(tx[v])
        BY <1>1, <3>2 DEF Structure, TxShape
      <4>2. tx[v].job # t.job
        BY <3>2, AtCommit, StoreAssumption DEF Structure, TxShape
      <4>3. tx[v].pc # "idle" => job'[tx[v].job] = job[tx[v].job]
        BY <4>1, <4>2, CommitRows DEF TxOK
      <4>4. tx[v].inv # NoInv => inv'[tx[v].inv] = inv[tx[v].inv]
        BY <4>1, <4>2, AtCommit, CommitRows
        DEF Structure, RowShape, TxOK, NoTransaction, Transaction
      <4> QED
        BY <4>1, <4>3, <4>4 DEF TxOK, Decided, Undecided
    <3> QED
      BY <3>1, <3>2
  <2>2. \A u, v \in Workers : u # v /\ tx'[v].job # NoJob => tx'[u].job # tx'[v].job
    BY <1>1 DEF Structure, TxShape, NoTransaction
  <2> QED
    BY <2>1, <2>2 DEF TxShape
<1> QED
  BY <1>2, <1>4, <1>5, <1>6 DEF Structure

LEMMA CancelStep ==
  ASSUME Structure, NEW i \in Invs, Cancel(i)
  PROVE  Structure'
<1> DEFINE row == [inv[i] EXCEPT !.status = "cancelled"]
<1>1. /\ inv \in [Invs -> InvestigationRecord \cup {NoRow}]
      /\ inv[i] # NoRow /\ inv[i] \in InvestigationRecord
      /\ inv' = [inv EXCEPT ![i] = row]
      /\ UNCHANGED <<job, attempts, evidence, reports, audit, now, call, replies, tx>>
  BY DEF Structure, TypeOK, StoreTypeOK, Cancel, createVars
<1>2. /\ row \in InvestigationRecord /\ row.status = "cancelled"
      /\ row.key = inv[i].key /\ row.tenant = inv[i].tenant
  BY <1>1 DEF InvestigationRecord, InvestigationStatus
<1> HIDE DEF row
<1>3. /\ \A k \in Invs : inv[k] = NoRow <=> inv'[k] = NoRow
      /\ \A k \in Invs : inv[k].status = "cancelled" => inv'[k].status = "cancelled"
      /\ \A k \in Invs : inv'[k].key = inv[k].key /\ inv'[k].tenant = inv[k].tenant
  BY <1>1, <1>2, NoRowAssumption
<1>4. TypeOK'
  BY <1>1, <1>2 DEF Structure, TypeOK, StoreTypeOK, CreateTypeOK, WorkerTypeOK
<1>5. CallShape'
  <2>1. \A c \in Clients : CallOK(call[c])'
    <3> SUFFICES ASSUME NEW c \in Clients PROVE CallOK(call[c])'
      OBVIOUS
    <3>1. call[c] \in Call /\ CallOK(call[c])
      BY DEF Structure, TypeOK, CreateTypeOK, CallShape
    <3> QED
      BY <1>1, <1>3, <3>1 DEF CallOK, Call, NoCall, SameKey
  <2> QED
    BY <1>1, <2>1 DEF Structure, CallShape
<1>6. RowShape'
  <2>1. \A j \in Jobs : job[j] # NoRow => job[j].inv \in Invs \cup {NoInv}
    BY DEF Structure, TypeOK, StoreTypeOK, JobRecord
  <2> QED
    BY <1>1, <1>3, <2>1 DEF Structure, RowShape
<1>7. TxShape'
  <2>1. \A w \in Workers : TxOK(tx[w])'
    <3> SUFFICES ASSUME NEW w \in Workers PROVE TxOK(tx[w])'
      OBVIOUS
    <3>1. tx[w] \in Transaction /\ TxOK(tx[w])
      BY DEF Structure, TypeOK, WorkerTypeOK, TxShape
    <3>2. tx[w].inv \in Invs \cup {NoInv}
      BY <3>1 DEF Transaction
    <3> QED
      BY <1>1, <1>3, <3>1, <3>2 DEF TxOK, Decided, Undecided
  <2> QED
    BY <1>1, <2>1 DEF Structure, TxShape
<1> QED
  BY <1>4, <1>5, <1>6, <1>7 DEF Structure

\* Every step keeps the structure.
LEMMA StructureStep == Structure /\ [Next]_vars => Structure'
<1> SUFFICES ASSUME Structure, [Next]_vars PROVE Structure'
  OBVIOUS
<1>1. ASSUME NEW c \in Clients, CreateStep(c), UNCHANGED tx PROVE Structure'
  BY <1>1, CallSteps, CommitCallStep DEF CreateStep
<1>2. ASSUME NEW w \in Workers, RunOnce(w), UNCHANGED createVars PROVE Structure'
  BY <1>2, ClaimStep, CommitStep, RunOnceLocal DEF RunOnce
<1>3. ASSUME NEW w \in Workers, Fault(w), UNCHANGED createVars PROVE Structure'
  BY <1>3, RunOnceLocal DEF Fault
<1>4. ASSUME NEW i \in Invs, Cancel(i) PROVE Structure'
  BY <1>4, CancelStep
<1>5. CASE Tick
  <2>1. now' \in Nat /\ UNCHANGED <<inv, job, attempts, evidence, reports, audit, call, replies, tx>>
    BY <1>5 DEF Tick, createVars, Structure, TypeOK, StoreTypeOK
  <2>2. TypeOK'
    BY <2>1 DEF Structure, TypeOK, StoreTypeOK, CreateTypeOK, WorkerTypeOK
  <2>3. CallShape' /\ RowShape'
    BY <2>1 DEF Structure, CallShape, CallOK, RowShape
  <2>4. TxShape'
    BY <2>1 DEF Structure, TxShape, TxOK, Decided, Undecided
  <2> QED
    BY <2>2, <2>3, <2>4 DEF Structure
<1>6. CASE UNCHANGED vars
  <2>1. UNCHANGED <<inv, job, attempts, evidence, reports, audit, now, call, replies, tx>>
    BY <1>6 DEF vars, storeVars, createVars
  <2>2. TypeOK'
    BY <2>1 DEF Structure, TypeOK, StoreTypeOK, CreateTypeOK, WorkerTypeOK
  <2>3. CallShape' /\ RowShape'
    BY <2>1 DEF Structure, CallShape, CallOK, RowShape
  <2>4. TxShape'
    BY <2>1 DEF Structure, TxShape, TxOK, Decided, Undecided
  <2> QED
    BY <2>2, <2>3, <2>4 DEF Structure
<1> QED
  BY <1>1, <1>2, <1>3, <1>4, <1>5, <1>6 DEF Next

\* The tables, the open requests and the open transactions always fit together.
THEOREM StructureHolds == Spec => []Structure
  BY StructureInit, StructureStep, PTL DEF Spec

-----------------------------------------------------------------------------
(* Consequences of the structure. *)

\* Every variable keeps its type.
THEOREM TypeCorrect == Spec => []TypeOK
<1>1. Structure => TypeOK
  BY DEF Structure
<1> QED
  BY <1>1, StructureHolds, PTL

\* No committed job is claimed or running, whatever crashes.
THEOREM ClaimsNeverSurvive == Spec => []NoClaimSurvives
<1>1. Structure => NoClaimSurvives
  BY DEF Structure, RowShape, NoClaimSurvives
<1> QED
  BY <1>1, StructureHolds, PTL

\* Two workers hold different jobs, and different jobs have different
\* investigations.
LEMMA StructureExclusive == Structure => ExclusiveRun
<1> SUFFICES ASSUME Structure, NEW v \in Workers, NEW w \in Workers,
                    v # w, tx[v].inv \in Invs, tx[v].inv = tx[w].inv
             PROVE  FALSE
  BY DEF ExclusiveRun
<1>1. tx[v].pc # "idle" /\ tx[w].pc # "idle" /\ TxOK(tx[v]) /\ TxOK(tx[w])
  BY StoreAssumption DEF Structure, TxShape, TxOK, NoTransaction
<1>2. tx[v].job = tx[w].job
  BY <1>1, StoreAssumption DEF Structure, RowShape, TxOK
<1> QED
  BY <1>1, <1>2, StoreAssumption DEF Structure, TxShape, TxOK

\* No two workers ever run the same investigation.
THEOREM RunsExclusive == Spec => []ExclusiveRun
  BY StructureExclusive, StructureHolds, PTL

-----------------------------------------------------------------------------
(***************************************************************************)
(* What the committed rows say of a job's life, proved over the structure   *)
(* above: only three kinds of step touch a committed row.                   *)
(***************************************************************************)

\* A step writes no committed row, or is the commit of a request, the commit of
\* a worker, or a cancellation.
LEMMA StepKinds ==
  ASSUME [Next]_vars
  PROVE  \/ UNCHANGED <<inv, job, attempts, evidence, reports, audit>>
         \/ \E c \in Clients : CommitCall(c)
         \/ \E w \in Workers : Commit(w)
         \/ \E i \in Invs : Cancel(i)
<1>1. ASSUME NEW c \in Clients, CreateStep(c), ~CommitCall(c)
      PROVE  UNCHANGED <<inv, job, attempts, evidence, reports, audit>>
  BY <1>1 DEF CreateStep, Insert, Replay, Enqueue, AbandonCall, storeVars
<1>2. ASSUME NEW w \in Workers, RunOnce(w) \/ Fault(w), ~Commit(w)
      PROVE  UNCHANGED <<inv, job, attempts, evidence, reports, audit>>
  BY <1>2 DEF RunOnce, Fault, Claim, GetMissing, GetCancelled, GetFound, MarkRunning,
     AnalysisSucceeds, AnalysisRetryable, AnalysisTerminal, AppendEvidence, Succeed,
     TerminalFail, RetryOrFail, Escape, StatementError, Crash, storeVars
<1> QED
  BY <1>1, <1>2 DEF Next, Tick, vars, storeVars

\* What the commit of a request writes.
LEMMA CreatedRows ==
  ASSUME Structure, NEW c \in Clients, CommitCall(c)
  PROVE  \/ UNCHANGED <<inv, job, attempts, evidence, reports, audit>>
         \/ /\ call[c].inv \in Invs /\ inv[call[c].inv] = NoRow
            /\ call[c].job \in Jobs /\ job[call[c].job] = NoRow
            /\ inv'[call[c].inv] # NoRow /\ inv'[call[c].inv].status = "pending"
            /\ \A i \in Invs : i # call[c].inv => inv'[i] = inv[i]
            /\ job'[call[c].job] # NoRow /\ job'[call[c].job].inv = call[c].inv
            /\ job'[call[c].job].status = "queued" /\ job'[call[c].job].attempt_count = 0
            /\ \A j \in Jobs : j # call[c].job => job'[j] = job[j]
            /\ audit' = [audit EXCEPT ![call[c].inv]["investigation.created"] = @ + 1]
            /\ UNCHANGED <<attempts, evidence, reports>>
<1> DEFINE t == call[c]
           row == [tenant |-> t.request.tenant, run |-> t.request.run,
                   key |-> t.request.key, status |-> "pending"]
           new == [inv |-> t.inv, status |-> "queued", available_at |-> t.now,
                   attempt_count |-> 0]
<1>1. t \in Call /\ t.pc = "enqueued" /\ CallOK(t)
  BY DEF Structure, TypeOK, CreateTypeOK, CallShape, CommitCall
<1>2. t.request \in Request /\ t.inv \in Invs /\ (t.new <=> t.job # NoJob)
  BY <1>1 DEF CallOK
<1>3. row \in InvestigationRecord /\ new \in JobRecord
  BY <1>1, <1>2 DEF Request, InvestigationRecord, InvestigationStatus, JobRecord, JobStatus, Call
<1>4. /\ row # NoRow /\ row.status = "pending"
      /\ new # NoRow /\ new.inv = t.inv /\ new.status = "queued" /\ new.attempt_count = 0
  BY <1>3, NoRowAssumption
<1>5. CASE ~t.new
  BY <1>2, <1>5 DEF CommitCall
<1>6. CASE t.new
  <2>1. /\ inv' = [inv EXCEPT ![t.inv] = row] /\ job' = [job EXCEPT ![t.job] = new]
        /\ audit' = [audit EXCEPT ![t.inv]["investigation.created"] = @ + 1]
        /\ UNCHANGED <<attempts, evidence, reports>>
    BY <1>2, <1>6 DEF CommitCall
  <2>2. t.job \in Jobs /\ inv[t.inv] = NoRow /\ job[t.job] = NoRow
    BY <1>1, <1>2, <1>6 DEF CallOK, Call
  <2>3. /\ inv \in [Invs -> InvestigationRecord \cup {NoRow}]
        /\ job \in [Jobs -> JobRecord \cup {NoRow}]
    BY DEF Structure, TypeOK, StoreTypeOK
  <2> HIDE DEF row, new
  <2> QED
    BY <1>2, <1>4, <2>1, <2>2, <2>3
<1> QED
  BY <1>5, <1>6

-----------------------------------------------------------------------------
(* Attempts. *)

LEMMA BoundedInit == Init => AttemptsBounded
  BY WorkerAssumption, NoRowAssumption DEF Init, StoreInit, AttemptsBounded

LEMMA BoundedStep == Structure /\ AttemptsBounded /\ [Next]_vars => AttemptsBounded'
<1> SUFFICES ASSUME Structure, AttemptsBounded, [Next]_vars PROVE AttemptsBounded'
  OBVIOUS
<1>1. CASE UNCHANGED <<inv, job, attempts, evidence, reports, audit>>
  BY <1>1 DEF AttemptsBounded
<1>2. ASSUME NEW c \in Clients, CommitCall(c) PROVE AttemptsBounded'
  <2>1. \/ /\ job'[call[c].job].status = "queued" /\ job'[call[c].job].attempt_count = 0
           /\ \A j \in Jobs : j # call[c].job => job'[j] = job[j]
        \/ UNCHANGED <<inv, job, attempts, evidence, reports, audit>>
    BY <1>2, CreatedRows
  <2> QED
    BY <1>1, <2>1, WorkerAssumption DEF AttemptsBounded
<1>3. ASSUME NEW w \in Workers, Commit(w) PROVE AttemptsBounded'
  <2>1. /\ job'[tx[w].job].status = tx[w].jobStatus
        /\ job'[tx[w].job].attempt_count = tx[w].count
        /\ \A j \in Jobs : j # tx[w].job => job'[j] = job[j]
    BY <1>3, CommitRows
  <2>2. tx[w].count \in 1..MaxAttempts
    <3>1. job[tx[w].job].attempt_count < MaxAttempts
      BY <1>3, AtCommit DEF AttemptsBounded
    <3>2. job[tx[w].job].attempt_count \in Nat
      BY <1>3, AtCommit DEF JobRecord
    <3> QED
      BY <1>3, <3>1, <3>2, AtCommit, WorkerAssumption
  <2>3. tx[w].jobStatus = "queued" => tx[w].count < MaxAttempts
    BY <1>3, AtCommit DEF Decided
  <2> QED
    BY <2>1, <2>2, <2>3 DEF AttemptsBounded
<1>4. ASSUME NEW i \in Invs, Cancel(i) PROVE AttemptsBounded'
  BY <1>4 DEF Cancel, AttemptsBounded
<1> QED
  BY <1>1, <1>2, <1>3, <1>4, StepKinds

\* No job is attempted more than max_attempts times, however often its worker
\* is restarted, its analysis fails or its investigation is cancelled.
THEOREM AttemptsAreBounded == Spec => []AttemptsBounded
  BY StructureHolds, StructureStep, BoundedInit, BoundedStep, PTL DEF Spec

-----------------------------------------------------------------------------
(* Reports and statuses. *)

\* A report belongs to a committed investigation.
ReportsOwned == \A i \in Invs : inv[i] = NoRow => reports[i] = NoRow

Story == ReportsOwned /\ OutcomesAgree

LEMMA StoryInit == Init => Story
  BY NoRowAssumption DEF Init, StoreInit, Story, ReportsOwned, OutcomesAgree

LEMMA StoryStep == Structure /\ Story /\ [Next]_vars => Story'
<1> SUFFICES ASSUME Structure, Story, [Next]_vars PROVE Story'
  OBVIOUS
<1>j. \A j \in Jobs : job[j] # NoRow => job[j].inv \in Invs \cup {NoInv}
  BY DEF Structure, TypeOK, StoreTypeOK, JobRecord
<1>1. CASE UNCHANGED <<inv, job, attempts, evidence, reports, audit>>
  BY <1>1 DEF Story, ReportsOwned, OutcomesAgree
<1>2. ASSUME NEW c \in Clients, CommitCall(c) PROVE Story'
  <2> SUFFICES ASSUME ~UNCHANGED <<inv, job, attempts, evidence, reports, audit>>
               PROVE  Story'
    BY <1>1
  <2> DEFINE i == call[c].inv
             k == call[c].job
  <2>1. /\ i \in Invs /\ inv[i] = NoRow
        /\ inv'[i] # NoRow /\ inv'[i].status = "pending"
        /\ \A h \in Invs : h # i => inv'[h] = inv[h]
        /\ job'[k].inv = i /\ job'[k].status = "queued" /\ job'[k].attempt_count = 0
        /\ \A j \in Jobs : j # k => job'[j] = job[j]
        /\ UNCHANGED reports
    BY <1>2, CreatedRows
  <2> HIDE DEF i, k
  <2>2. ReportsOwned'
    BY <2>1 DEF Story, ReportsOwned
  <2>3. \A j \in Jobs : job[j] # NoRow /\ job[j].inv # NoInv => job[j].inv # i
    BY <2>1 DEF Structure, RowShape
  <2>4. OutcomesAgree'
    <3> SUFFICES ASSUME NEW j \in Jobs, job'[j] # NoRow, job'[j].inv # NoInv
                 PROVE  LET h == job'[j].inv IN
                          /\ (reports'[h] # NoRow) <=> (job'[j].status = "succeeded")
                          /\ inv'[h].status # "cancelled" =>
                               inv'[h].status =
                                 (IF job'[j].status # "queued" THEN job'[j].status
                                  ELSE IF job'[j].attempt_count = 0 THEN "pending"
                                  ELSE "running")
      BY DEF OutcomesAgree
    <3>1. CASE j = k
      BY <2>1, <3>1 DEF Story, ReportsOwned
    <3>2. CASE j # k
      <4>1. job'[j] = job[j] /\ job[j].inv \in Invs /\ inv'[job[j].inv] = inv[job[j].inv]
        BY <1>j, <2>1, <2>3, <3>2
      <4> QED
        BY <2>1, <4>1 DEF Story, OutcomesAgree
    <3> QED
      BY <3>1, <3>2
  <2> QED
    BY <2>2, <2>4 DEF Story
<1>3. ASSUME NEW w \in Workers, Commit(w) PROVE Story'
  <2> DEFINE t == tx[w]
  <2>1. /\ Decided(t) /\ t.job \in Jobs /\ job[t.job] # NoRow
        /\ job[t.job].status = "queued" /\ t.inv = job[t.job].inv
        /\ t.inv \in Invs \cup {NoInv}
        /\ t.inv # NoInv => inv[t.inv] # NoRow
        /\ job[t.job] \in JobRecord /\ t.count = job[t.job].attempt_count + 1
    BY <1>3, AtCommit
  <2>2. /\ job'[t.job].inv = t.inv /\ job'[t.job].status = t.jobStatus
        /\ job'[t.job].attempt_count = t.count
        /\ \A j \in Jobs : j # t.job => job'[j] = job[j]
        /\ \A i \in Invs : i # t.inv => inv'[i] = inv[i]
        /\ t.inv # NoInv =>
             inv'[t.inv].status =
               IF t.invStatus = "unchanged" THEN inv[t.inv].status ELSE t.invStatus
    BY <1>3, CommitRows
  <2>3. t.count # 0
    BY <2>1 DEF JobRecord
  <2>4. /\ \A i \in Invs : i # t.inv \/ ~t.report => reports'[i] = reports[i]
        /\ t.report => t.inv \in Invs /\ reports'[t.inv] # NoRow
    <3>1. t.report => t.inv \in Invs
      BY <2>1 DEF Decided
    <3>2. t.report =>
            [tenant |-> inv[t.inv].tenant, run |-> inv[t.inv].run, cites |-> t.cites] # NoRow
      <4> SUFFICES ASSUME t.report
                   PROVE  [tenant |-> inv[t.inv].tenant, run |-> inv[t.inv].run,
                           cites |-> t.cites] \in ReportRecord
        BY NoRowAssumption
      <4> QED
        BY <1>3, AtCommit DEF ReportRecord, InvestigationRecord, Transaction
    <3>3. reports \in [Invs -> ReportRecord \cup {NoRow}]
      BY DEF Structure, TypeOK, StoreTypeOK
    <3> QED
      BY <1>3, <3>1, <3>2, <3>3 DEF Commit
  <2> HIDE DEF t
  <2>5. ReportsOwned'
    <3>1. \A i \in Invs : inv'[i] = NoRow => inv[i] = NoRow /\ i # t.inv
      BY <1>3, AtCommit, CommitRows, NoRowAssumption, StoreAssumption DEF t
    <3> QED
      BY <2>4, <3>1 DEF Story, ReportsOwned
  <2>6. OutcomesAgree'
    <3> SUFFICES ASSUME NEW j \in Jobs, job'[j] # NoRow, job'[j].inv # NoInv
                 PROVE  LET h == job'[j].inv IN
                          /\ (reports'[h] # NoRow) <=> (job'[j].status = "succeeded")
                          /\ inv'[h].status # "cancelled" =>
                               inv'[h].status =
                                 (IF job'[j].status # "queued" THEN job'[j].status
                                  ELSE IF job'[j].attempt_count = 0 THEN "pending"
                                  ELSE "running")
      BY DEF OutcomesAgree
    <3>1. CASE j = t.job
      <4>1. t.inv \in Invs /\ reports[t.inv] = NoRow
        BY <2>1, <2>2, <3>1 DEF Story, OutcomesAgree
      <4>2. (reports'[t.inv] # NoRow) <=> t.report
        BY <2>4, <4>1
      <4>3. t.report <=> t.jobStatus = "succeeded"
        BY <2>1 DEF Decided
      <4>4. inv'[t.inv].status # "cancelled" =>
              inv'[t.inv].status = (IF t.jobStatus # "queued" THEN t.jobStatus ELSE "running")
        BY <2>1, <2>2, <4>1, StoreAssumption DEF Decided
      <4> QED
        BY <2>2, <2>3, <3>1, <4>2, <4>3, <4>4
    <3>2. CASE j # t.job
      <4>1. job'[j] = job[j] /\ job[j].inv \in Invs
        BY <1>j, <2>2, <3>2
      <4>2. job[j].inv # t.inv
        BY <2>1, <3>2, <4>1 DEF Structure, RowShape
      <4>3. inv'[job[j].inv] = inv[job[j].inv] /\ reports'[job[j].inv] = reports[job[j].inv]
        BY <2>2, <2>4, <4>1, <4>2
      <4> QED
        BY <4>1, <4>3 DEF Story, OutcomesAgree
    <3> QED
      BY <3>1, <3>2
  <2> QED
    BY <2>5, <2>6 DEF Story
<1>4. ASSUME NEW i \in Invs, Cancel(i) PROVE Story'
  <2>1. /\ inv[i] # NoRow /\ inv[i] \in InvestigationRecord
        /\ inv \in [Invs -> InvestigationRecord \cup {NoRow}]
        /\ inv' = [inv EXCEPT ![i] = [inv[i] EXCEPT !.status = "cancelled"]]
        /\ UNCHANGED <<job, reports>>
    BY <1>4 DEF Structure, TypeOK, StoreTypeOK, Cancel
  <2>2. inv'[i].status = "cancelled" /\ \A h \in Invs : h # i => inv'[h] = inv[h]
    BY <2>1 DEF InvestigationRecord
  <2>3. \A h \in Invs : inv'[h] = NoRow => inv[h] = NoRow
    BY <2>1, NoRowAssumption DEF InvestigationRecord, InvestigationStatus
  <2> QED
    BY <1>j, <2>1, <2>2, <2>3 DEF Story, ReportsOwned, OutcomesAgree
<1> QED
  BY <1>1, <1>2, <1>3, <1>4, StepKinds

LEMMA StoryHolds == Spec => []Story
  BY StructureHolds, StoryInit, StoryStep, PTL DEF Spec

\* A report is stored exactly when the job succeeded, and job and investigation
\* tell the same story after every commit, crash and cancellation.
THEOREM OutcomesAlwaysAgree == Spec => []OutcomesAgree
<1>1. Story => OutcomesAgree
  BY DEF Story
<1> QED
  BY <1>1, StoryHolds, PTL

-----------------------------------------------------------------------------
(* The history of attempts. *)

LEMMA AttemptHistoryInit == Init => AttemptHistory
  BY NoRowAssumption DEF Init, StoreInit, AttemptHistory, AttemptsOf, Recorded, AttemptTaken

LEMMA AttemptHistoryStep ==
  Structure /\ AttemptHistory /\ [Next]_vars => AttemptHistory'
<1> SUFFICES ASSUME Structure, AttemptHistory, [Next]_vars PROVE AttemptHistory'
  OBVIOUS
\* A job whose row and attempts are as they were keeps its history.
<1>u. ASSUME NEW j \in Jobs, job'[j] = job[j],
             \A a : a.job = j => (a \in attempts' <=> a \in attempts)
      PROVE  /\ job'[j] = NoRow => AttemptsOf(j)' = {}
             /\ job'[j] # NoRow =>
                  /\ \A a \in AttemptsOf(j)' : a.number \in 1..Recorded(j)'
                  /\ \A n \in 1..Recorded(j)' : AttemptTaken(j, n)'
                  /\ \A a, b \in AttemptsOf(j)' : a.number = b.number => a = b
                  /\ \A a \in AttemptsOf(j)' :
                       a.outcome = (IF job'[j].status = "succeeded"
                                       /\ a.number = job'[j].attempt_count
                                    THEN "succeeded" ELSE "failed")
  <2>1. AttemptsOf(j)' = AttemptsOf(j)
    BY <1>u DEF AttemptsOf
  <2>2. Recorded(j)' = Recorded(j)
    BY <1>u DEF Recorded
  <2>3. \A n : AttemptTaken(j, n)' <=> AttemptTaken(j, n)
    BY <1>u DEF AttemptTaken
  <2> QED
    BY <1>u, <2>1, <2>2, <2>3 DEF AttemptHistory
<1>1. ASSUME UNCHANGED <<job, attempts>> PROVE AttemptHistory'
  BY <1>1 DEF AttemptHistory, AttemptsOf, Recorded, AttemptTaken
<1>2. ASSUME NEW c \in Clients, CommitCall(c) PROVE AttemptHistory'
  <2> SUFFICES ASSUME ~UNCHANGED <<inv, job, attempts, evidence, reports, audit>>
               PROVE  AttemptHistory'
    BY <1>1
  <2>0. PICK k \in Jobs : k = call[c].job
    BY <1>2, CreatedRows
  <2>1. /\ job[k] = NoRow /\ job'[k] # NoRow
        /\ job'[k].status = "queued" /\ job'[k].attempt_count = 0
        /\ \A j \in Jobs : j # k => job'[j] = job[j]
        /\ UNCHANGED attempts
    BY <1>2, <2>0, CreatedRows
  <2>2. AttemptsOf(k)' = {} /\ Recorded(k)' = 0
    BY <2>1 DEF AttemptHistory, AttemptsOf, Recorded
  <2>3. 1..0 = {}
    OBVIOUS
  <2> QED
    BY <1>u, <2>1, <2>2, <2>3 DEF AttemptHistory
<1>3. ASSUME NEW w \in Workers, Commit(w) PROVE AttemptHistory'
  <2>0. PICK k \in Jobs : k = tx[w].job
    BY <1>3, AtCommit
  <2> DEFINE t == tx[w]
             new == [job |-> k, number |-> t.count, outcome |-> t.outcome, code |-> t.code]
  <2>1. /\ Decided(t) /\ job[k] # NoRow /\ job[k].status = "queued"
        /\ job[k] \in JobRecord /\ t.count = job[k].attempt_count + 1
        /\ t.inv = job[k].inv
    BY <1>3, <2>0, AtCommit
  <2>2. /\ job'[k] # NoRow /\ job'[k].inv = t.inv
        /\ job'[k].status = t.jobStatus /\ job'[k].attempt_count = t.count
        /\ \A j \in Jobs : j # k => job'[j] = job[j]
    BY <1>3, <2>0, CommitRows, NoRowAssumption
  <2>3. attempts' = IF t.outcome = "none" THEN attempts ELSE attempts \cup {new}
    BY <1>3, <2>0 DEF Commit
  <2>4. job[k].attempt_count \in Nat /\ Recorded(k) = job[k].attempt_count
    BY <2>1 DEF JobRecord, Recorded
  <2>5. new.job = k /\ new.number = t.count /\ new.outcome = t.outcome
    OBVIOUS
  <2> HIDE DEF t, new
  <2>6. \A a \in AttemptsOf(k) : a.number \in 1..(t.count - 1) /\ a.outcome = "failed"
    BY <2>1, <2>4 DEF AttemptHistory
  <2>7. \A n \in 1..(t.count - 1) : AttemptTaken(k, n)
    BY <2>1, <2>4 DEF AttemptHistory
  <2>8. \A a, b \in AttemptsOf(k) : a.number = b.number => a = b
    BY <2>1 DEF AttemptHistory
  <2>9. t.count \in Nat /\ t.count > 0
    BY <2>1, <2>4
  <2>10. ASSUME t.outcome = "none"
         PROVE  /\ AttemptsOf(k)' = AttemptsOf(k) /\ Recorded(k)' = t.count - 1
                /\ \A n : AttemptTaken(k, n)' <=> AttemptTaken(k, n)
                /\ t.jobStatus # "succeeded"
    BY <2>1, <2>2, <2>3, <2>10 DEF Decided, AttemptsOf, Recorded, AttemptTaken
  <2>11. ASSUME t.outcome # "none"
         PROVE  /\ AttemptsOf(k)' = AttemptsOf(k) \cup {new} /\ Recorded(k)' = t.count
                /\ \A n : AttemptTaken(k, n)' <=> AttemptTaken(k, n) \/ n = t.count
                /\ t.outcome = IF t.jobStatus = "succeeded" THEN "succeeded" ELSE "failed"
    <3>1. Recorded(k)' = t.count
      BY <2>1, <2>2, <2>11 DEF Decided, Recorded
    <3>2. AttemptsOf(k)' = AttemptsOf(k) \cup {new}
      BY <2>3, <2>5, <2>11 DEF AttemptsOf
    <3>3. \A n : AttemptTaken(k, n)' <=> AttemptTaken(k, n) \/ n = t.count
      BY <2>3, <2>5, <2>11 DEF AttemptTaken
    <3>4. t.outcome = IF t.jobStatus = "succeeded" THEN "succeeded" ELSE "failed"
      BY <2>1, <2>11 DEF Decided
    <3> QED
      BY <3>1, <3>2, <3>3, <3>4
  <2>12. /\ \A a \in AttemptsOf(k)' : a.number \in 1..Recorded(k)'
         /\ \A n \in 1..Recorded(k)' : AttemptTaken(k, n)'
         /\ \A a, b \in AttemptsOf(k)' : a.number = b.number => a = b
         /\ \A a \in AttemptsOf(k)' :
              a.outcome = (IF job'[k].status = "succeeded"
                              /\ a.number = job'[k].attempt_count
                           THEN "succeeded" ELSE "failed")
    <3>1. CASE t.outcome = "none"
      BY <2>2, <2>6, <2>7, <2>8, <2>9, <2>10, <3>1
    <3>2. CASE t.outcome # "none"
      <4>1. \A a \in AttemptsOf(k)' : a.number \in 1..t.count
        BY <2>5, <2>6, <2>9, <2>11, <3>2
      <4>2. \A n \in 1..t.count : AttemptTaken(k, n)'
        BY <2>7, <2>9, <2>11, <3>2
      <4>3. \A a, b \in AttemptsOf(k)' : a.number = b.number => a = b
        BY <2>5, <2>6, <2>8, <2>9, <2>11, <3>2
      <4>4. \A a \in AttemptsOf(k)' :
              a.outcome = (IF t.jobStatus = "succeeded" /\ a.number = t.count
                           THEN "succeeded" ELSE "failed")
        BY <2>5, <2>6, <2>9, <2>11, <3>2
      <4> QED
        BY <2>2, <2>11, <3>2, <4>1, <4>2, <4>3, <4>4
    <3> QED
      BY <3>1, <3>2
  <2>13. \A j \in Jobs : j # k => \A a : a.job = j => (a \in attempts' <=> a \in attempts)
    BY <2>3, <2>5
  <2> QED
    BY <1>u, <2>2, <2>12, <2>13 DEF AttemptHistory
<1>4. ASSUME NEW i \in Invs, Cancel(i) PROVE AttemptHistory'
  BY <1>1, <1>4 DEF Cancel
<1> QED
  BY <1>1, <1>2, <1>3, <1>4, StepKinds

\* The attempts of every job are numbered without gap or repetition up to
\* attempt_count, and only the last attempt of a succeeded job succeeded.
THEOREM AttemptsAreHistory == Spec => []AttemptHistory
  BY StructureHolds, AttemptHistoryInit, AttemptHistoryStep, PTL DEF Spec

-----------------------------------------------------------------------------
(* What is decided stays. *)

\* The fields of an investigation other than its status are the row.
LEMMA SameInvestigation ==
  ASSUME NEW r \in InvestigationRecord, NEW s \in InvestigationRecord,
         r.tenant = s.tenant, r.run = s.run, r.key = s.key
  PROVE  [s EXCEPT !.status = r.status] = r
  BY DEF InvestigationRecord

LEMMA HistoryStep == Structure /\ Story /\ [Next]_vars => [KeepsHistory]_vars
<1> SUFFICES ASSUME Structure, Story, [Next]_vars PROVE KeepsHistory
  OBVIOUS
<1>t. /\ inv \in [Invs -> InvestigationRecord \cup {NoRow}]
      /\ \A i \in Invs : inv[i] # NoRow => inv[i] \in InvestigationRecord
  BY DEF Structure, TypeOK, StoreTypeOK
<1>s. ASSUME NEW i \in Invs, inv[i] # NoRow
      PROVE  [inv[i] EXCEPT !.status = inv[i].status] = inv[i]
  BY <1>s, <1>t, SameInvestigation
<1>1. ASSUME UNCHANGED <<inv, job, attempts, evidence, reports, audit>> PROVE KeepsHistory
  BY <1>1, <1>s DEF KeepsHistory
<1>2. ASSUME NEW c \in Clients, CommitCall(c) PROVE KeepsHistory
  <2> SUFFICES ASSUME ~UNCHANGED <<inv, job, attempts, evidence, reports, audit>>
               PROVE  KeepsHistory
    BY <1>1
  <2>1. /\ inv[call[c].inv] = NoRow /\ job[call[c].job] = NoRow
        /\ \A i \in Invs : i # call[c].inv => inv'[i] = inv[i]
        /\ \A j \in Jobs : j # call[c].job => job'[j] = job[j]
        /\ UNCHANGED <<attempts, evidence, reports>>
    BY <1>2, CreatedRows
  <2> QED
    BY <1>s, <2>1 DEF KeepsHistory
<1>3. ASSUME NEW w \in Workers, Commit(w) PROVE KeepsHistory
  <2> DEFINE t == tx[w]
  <2>1. /\ job[t.job].status = "queued" /\ job[t.job] # NoRow /\ t.job \in Jobs
        /\ t.inv = job[t.job].inv /\ t.inv \in Invs \cup {NoInv}
        /\ t.report => t.inv # NoInv
    BY <1>3, AtCommit
  <2>2. \A j \in Jobs : job[j] # NoRow /\ job[j].status \in Finished => job'[j] = job[j]
    BY <1>3, <2>1, CommitRows DEF Finished
  <2>3. \A i \in Invs : reports[i] # NoRow => reports'[i] = reports[i]
    <3>1. t.report => reports[t.inv] = NoRow
      BY <2>1 DEF Story, OutcomesAgree
    <3>2. reports' = IF t.report
                     THEN [reports EXCEPT ![t.inv] =
                            [tenant |-> inv[t.inv].tenant, run |-> inv[t.inv].run,
                             cites |-> t.cites]]
                     ELSE reports
      BY <1>3 DEF Commit
    <3>3. reports \in [Invs -> ReportRecord \cup {NoRow}]
      BY DEF Structure, TypeOK, StoreTypeOK
    <3> QED
      BY <3>1, <3>2, <3>3
  <2>4. ASSUME NEW i \in Invs, inv[i] # NoRow
        PROVE  inv'[i] # NoRow /\ [inv'[i] EXCEPT !.status = inv[i].status] = inv[i]
    <3>1. CASE i # t.inv
      BY <1>3, <1>s, <2>4, <3>1, CommitRows
    <3>2. CASE i = t.inv
      <4>1. /\ inv'[i] \in InvestigationRecord /\ inv'[i].tenant = inv[i].tenant
            /\ inv'[i].run = inv[i].run /\ inv'[i].key = inv[i].key
        BY <1>3, <3>2, CommitRows, StoreAssumption
      <4> QED
        BY <1>t, <2>4, <4>1, SameInvestigation, NoRowAssumption
    <3> QED
      BY <3>1, <3>2
  <2>5. attempts \subseteq attempts' /\ evidence \subseteq evidence'
    BY <1>3 DEF Commit
  <2> QED
    BY <2>2, <2>3, <2>4, <2>5 DEF KeepsHistory
<1>4. ASSUME NEW i \in Invs, Cancel(i) PROVE KeepsHistory
  <2>1. /\ inv[i] # NoRow /\ inv' = [inv EXCEPT ![i] = [inv[i] EXCEPT !.status = "cancelled"]]
        /\ UNCHANGED <<job, attempts, evidence, reports>>
    BY <1>4, <1>t DEF Cancel
  <2>2. /\ inv'[i] \in InvestigationRecord /\ inv'[i].tenant = inv[i].tenant
        /\ inv'[i].run = inv[i].run /\ inv'[i].key = inv[i].key
    BY <1>t, <2>1 DEF InvestigationRecord, InvestigationStatus
  <2>3. inv'[i] # NoRow /\ [inv'[i] EXCEPT !.status = inv[i].status] = inv[i]
    BY <1>t, <2>1, <2>2, SameInvestigation, NoRowAssumption
  <2>4. \A h \in Invs : h # i => inv'[h] = inv[h]
    BY <1>t, <2>1
  <2> QED
    BY <1>s, <2>1, <2>3, <2>4 DEF KeepsHistory
<1> QED
  BY <1>1, <1>2, <1>3, <1>4, StepKinds

\* A finished job, a stored report, an attempt and an evidence row are never
\* changed again, and an investigation keeps its tenant, run and key.
THEOREM HistoryIsStable == Spec => HistoryStable
  BY StoryHolds, StructureHolds, HistoryStep, PTL DEF Spec, HistoryStable

-----------------------------------------------------------------------------
(***************************************************************************)
(* Idempotent creation, proved for any number of overlapping requests: one  *)
(* job per investigation, and one investigation per tenant and key.         *)
(***************************************************************************)

-----------------------------------------------------------------------------
(* One job each. *)

\* The half of OneJobEach that the structure does not give.
HasJob == \A i \in Invs : inv[i] # NoRow => \E j \in Jobs : job[j] # NoRow /\ job[j].inv = i

LEMMA HasJobInit == Init => HasJob
  BY DEF Init, StoreInit, HasJob

LEMMA HasJobStep == Structure /\ HasJob /\ [Next]_vars => HasJob'
<1> SUFFICES ASSUME Structure, HasJob, [Next]_vars PROVE HasJob'
  OBVIOUS
<1>1. ASSUME UNCHANGED <<inv, job, attempts, evidence, reports, audit>> PROVE HasJob'
  BY <1>1 DEF HasJob
<1>2. ASSUME NEW c \in Clients, CommitCall(c) PROVE HasJob'
  <2> SUFFICES ASSUME ~UNCHANGED <<inv, job, attempts, evidence, reports, audit>>
               PROVE  HasJob'
    BY <1>1
  <2>1. /\ call[c].job \in Jobs /\ job[call[c].job] = NoRow
        /\ job'[call[c].job] # NoRow /\ job'[call[c].job].inv = call[c].inv
        /\ \A i \in Invs : i # call[c].inv => inv'[i] = inv[i]
        /\ \A j \in Jobs : j # call[c].job => job'[j] = job[j]
    BY <1>2, CreatedRows
  <2> QED
    BY <2>1 DEF HasJob
<1>3. ASSUME NEW w \in Workers, Commit(w) PROVE HasJob'
  <2>1. \A i \in Invs : inv'[i] # NoRow => inv[i] # NoRow
    BY <1>3, AtCommit, CommitRows, StoreAssumption
  <2>2. \A j \in Jobs : job[j] # NoRow => job'[j] # NoRow /\ job'[j].inv = job[j].inv
    BY <1>3, AtCommit, CommitRows, NoRowAssumption
  <2> QED
    BY <2>1, <2>2 DEF HasJob
<1>4. ASSUME NEW i \in Invs, Cancel(i) PROVE HasJob'
  <2>1. /\ inv[i] # NoRow /\ UNCHANGED job
        /\ \A h \in Invs : h # i => inv'[h] = inv[h]
    BY <1>4 DEF Cancel, Structure, TypeOK, StoreTypeOK
  <2> QED
    BY <2>1 DEF HasJob
<1> QED
  BY <1>1, <1>2, <1>3, <1>4, StepKinds

\* A committed investigation has exactly one job, and no job is committed
\* without its investigation.
THEOREM JobsAreSingle == Spec => []OneJobEach
<1>1. Structure /\ HasJob => OneJobEach
  <2> SUFFICES ASSUME Structure, HasJob, NEW i \in Invs
               PROVE  IF inv[i] = NoRow THEN JobsOf(i) = {}
                      ELSE \E j \in Jobs : JobsOf(i) = {j}
    BY DEF OneJobEach
  <2>1. i # NoInv
    BY StoreAssumption
  <2>2. CASE inv[i] = NoRow
    BY <2>1, <2>2 DEF Structure, RowShape, JobsOf
  <2>3. CASE inv[i] # NoRow
    <3>1. PICK j \in Jobs : job[j] # NoRow /\ job[j].inv = i
      BY <2>3 DEF HasJob
    <3>2. JobsOf(i) = {j}
      BY <2>1, <3>1 DEF Structure, RowShape, JobsOf
    <3> QED
      BY <2>3, <3>2
  <2> QED
    BY <2>2, <2>3
<1>2. Spec => []HasJob
  BY StructureHolds, HasJobInit, HasJobStep, PTL DEF Spec
<1> QED
  BY <1>1, <1>2, StructureHolds, PTL

-----------------------------------------------------------------------------
(* One investigation per key. *)

\* A key is free while a request that has inserted it is open, committed rows
\* have distinct keys, and every reply carries the key of the row it names.
KeyShape ==
  /\ \A c \in Clients :
       call[c].new => \A i \in Invs : inv[i] # NoRow => ~SameKey(call[c].request, inv[i])
  /\ \A c, d \in Clients :
       c # d /\ call[c].new /\ call[d].new => ~SameKey(call[c].request, call[d].request)
  /\ \A i, k \in Invs :
       inv[i] # NoRow /\ inv[k] # NoRow /\ SameKey(inv[i], inv[k]) => i = k
  /\ \A a \in replies :
       /\ inv[a.inv] # NoRow
       /\ inv[a.inv].tenant = a.request.tenant
       /\ inv[a.inv].key = a.request.key

LEMMA KeyShapeInit == Init => KeyShape
  BY DEF Init, StoreInit, CreateInit, KeyShape, NoCall

\* A step that leaves requests, replies and the keys of investigations alone.
LEMMA SameKeys ==
  ASSUME Structure, KeyShape, UNCHANGED <<call, replies>>,
         \A i \in Invs : /\ inv'[i] = NoRow <=> inv[i] = NoRow
                         /\ inv[i] # NoRow =>
                              inv'[i].tenant = inv[i].tenant /\ inv'[i].key = inv[i].key
  PROVE  KeyShape'
<1>1. \A a \in replies : a.inv \in Invs
  BY DEF Structure, TypeOK, CreateTypeOK
<1> QED
  BY <1>1 DEF KeyShape, SameKey

LEMMA KeyShapeStep == Structure /\ KeyShape /\ [Next]_vars => KeyShape'
<1> SUFFICES ASSUME Structure, KeyShape, [Next]_vars PROVE KeyShape'
  OBVIOUS
<1>t. call \in [Clients -> Call] /\ \A c \in Clients : CallOK(call[c])
  BY DEF Structure, TypeOK, CreateTypeOK, CallShape
<1>n. ~NoCall.new
  BY DEF NoCall
<1>Insert. ASSUME NEW c \in Clients, NEW r \in Requests, Insert(c, r) PROVE KeyShape'
  <2>1. PICK i \in Invs :
          call' = [call EXCEPT ![c] =
            [NoCall EXCEPT !.pc = "created", !.request = r, !.inv = i, !.new = TRUE,
                           !.now = now]]
    BY <1>Insert DEF Insert
  <2>2. /\ \A k \in Invs : inv[k] # NoRow => ~SameKey(r, inv[k])
        /\ \A d \in Clients : call[d].new => ~SameKey(r, call[d].request)
        /\ UNCHANGED <<inv, replies>>
    BY <1>Insert DEF Insert, storeVars
  <2>3. call'[c].request = r /\ \A d \in Clients : d # c => call'[d] = call[d]
    BY <1>t, <2>1 DEF NoCall
  <2> QED
    BY <2>2, <2>3 DEF KeyShape, SameKey
<1>Replay. ASSUME NEW c \in Clients, NEW r \in Requests, Replay(c, r) PROVE KeyShape'
  <2>1. /\ ~call'[c].new /\ \A d \in Clients : d # c => call'[d] = call[d]
        /\ UNCHANGED <<inv, replies>>
    BY <1>t, <1>Replay DEF Replay, NoCall, storeVars
  <2> QED
    BY <2>1 DEF KeyShape, SameKey
<1>Enqueue. ASSUME NEW c \in Clients, Enqueue(c) PROVE KeyShape'
  <2>1. PICK j \in Jobs : call' = [call EXCEPT ![c].pc = "enqueued", ![c].job = j]
    BY <1>Enqueue DEF Enqueue
  <2>2. /\ call'[c].new = call[c].new /\ call'[c].request = call[c].request
        /\ \A d \in Clients : d # c => call'[d] = call[d]
        /\ UNCHANGED <<inv, replies>>
    BY <1>t, <1>Enqueue, <2>1 DEF Enqueue, Call, storeVars
  <2> QED
    BY <2>2 DEF KeyShape, SameKey
<1>Abandon. ASSUME NEW c \in Clients, AbandonCall(c) PROVE KeyShape'
  <2>1. /\ ~call'[c].new /\ \A d \in Clients : d # c => call'[d] = call[d]
        /\ UNCHANGED <<inv, replies>>
    BY <1>t, <1>n, <1>Abandon DEF AbandonCall, storeVars
  <2> QED
    BY <2>1 DEF KeyShape, SameKey
<1>CommitCall. ASSUME NEW c \in Clients, CommitCall(c) PROVE KeyShape'
  <2> DEFINE t == call[c]
             row == [tenant |-> t.request.tenant, run |-> t.request.run,
                     key |-> t.request.key, status |-> "pending"]
  <2>1. /\ t.pc = "enqueued" /\ t \in Call /\ t.request \in Request /\ t.inv \in Invs
        /\ t.new => inv[t.inv] = NoRow
        /\ ~t.new => inv[t.inv] # NoRow /\ SameKey(t.request, inv[t.inv])
    BY <1>t, <1>CommitCall DEF CommitCall, CallOK
  <2>2. /\ ~call'[c].new /\ \A d \in Clients : d # c => call'[d] = call[d]
        /\ replies' = replies \cup {[request |-> t.request, inv |-> t.inv]}
    BY <1>t, <1>n, <1>CommitCall DEF CommitCall
  <2>3. \A a \in replies : a.inv \in Invs
    BY DEF Structure, TypeOK, CreateTypeOK
  <2>4. CASE ~t.new
    <3>1. UNCHANGED inv
      BY <1>CommitCall, <2>4 DEF CommitCall
    <3> QED
      BY <2>1, <2>2, <2>4, <3>1 DEF KeyShape, SameKey
  <2>5. CASE t.new
    <3>1. row \in InvestigationRecord
      BY <2>1 DEF Request, InvestigationRecord, InvestigationStatus
    <3>2. row # NoRow /\ row.tenant = t.request.tenant /\ row.key = t.request.key
      BY <3>1, NoRowAssumption
    <3>3. inv' = [inv EXCEPT ![t.inv] = row]
      BY <1>CommitCall, <2>5 DEF CommitCall
    <3> HIDE DEF row
    <3>4. inv'[t.inv] = row /\ \A i \in Invs : i # t.inv => inv'[i] = inv[i]
      BY <2>1, <3>3 DEF Structure, TypeOK, StoreTypeOK
    <3>5. \A i \in Invs : inv[i] # NoRow => ~SameKey(t.request, inv[i])
      BY <2>5 DEF KeyShape
    <3>6. \A d \in Clients : d # c /\ call[d].new => ~SameKey(call[d].request, t.request)
      BY <2>5 DEF KeyShape
    <3>7. \A d \in Clients :
            call'[d].new => \A i \in Invs : inv'[i] # NoRow => ~SameKey(call'[d].request, inv'[i])
      BY <2>2, <3>2, <3>4, <3>6 DEF KeyShape, SameKey
    <3>8. \A i, k \in Invs :
            inv'[i] # NoRow /\ inv'[k] # NoRow /\ SameKey(inv'[i], inv'[k]) => i = k
      BY <3>2, <3>4, <3>5 DEF KeyShape, SameKey
    <3>9. \A a \in replies' :
            /\ inv'[a.inv] # NoRow
            /\ inv'[a.inv].tenant = a.request.tenant
            /\ inv'[a.inv].key = a.request.key
      BY <2>1, <2>2, <2>3, <2>5, <3>2, <3>4 DEF KeyShape
    <3>10. \A b, d \in Clients :
             b # d /\ call'[b].new /\ call'[d].new => ~SameKey(call'[b].request, call'[d].request)
      BY <2>2 DEF KeyShape
    <3> QED
      BY <3>7, <3>8, <3>9, <3>10 DEF KeyShape, SameKey
  <2> QED
    BY <2>4, <2>5
<1>Worker. ASSUME NEW w \in Workers, RunOnce(w) \/ Fault(w), UNCHANGED createVars
           PROVE  KeyShape'
  <2>1. UNCHANGED <<call, replies>>
    BY <1>Worker DEF createVars
  <2>2. CASE Commit(w)
    <3>1. \A i \in Invs : /\ inv'[i] = NoRow <=> inv[i] = NoRow
                          /\ inv[i] # NoRow =>
                               inv'[i].tenant = inv[i].tenant /\ inv'[i].key = inv[i].key
      BY <2>2, AtCommit, CommitRows, StoreAssumption, NoRowAssumption
    <3> QED
      BY <2>1, <3>1, SameKeys
  <2>3. CASE ~Commit(w)
    <3>1. UNCHANGED inv
      BY <1>Worker, <2>3 DEF RunOnce, Fault, Claim, GetMissing, GetCancelled, GetFound,
         MarkRunning, AnalysisSucceeds, AnalysisRetryable, AnalysisTerminal, AppendEvidence,
         Succeed, TerminalFail, RetryOrFail, Escape, StatementError, Crash, storeVars
    <3> QED
      BY <2>1, <3>1, SameKeys
  <2> QED
    BY <2>2, <2>3
<1>Cancel. ASSUME NEW k \in Invs, Cancel(k) PROVE KeyShape'
  <2>1. /\ inv \in [Invs -> InvestigationRecord \cup {NoRow}]
        /\ inv[k] \in InvestigationRecord
        /\ inv' = [inv EXCEPT ![k] = [inv[k] EXCEPT !.status = "cancelled"]]
        /\ UNCHANGED <<call, replies>>
    BY <1>Cancel DEF Structure, TypeOK, StoreTypeOK, Cancel, createVars
  <2>2. /\ [inv[k] EXCEPT !.status = "cancelled"] \in InvestigationRecord
        /\ [inv[k] EXCEPT !.status = "cancelled"].tenant = inv[k].tenant
        /\ [inv[k] EXCEPT !.status = "cancelled"].key = inv[k].key
    BY <2>1 DEF InvestigationRecord, InvestigationStatus
  <2>3. \A i \in Invs : /\ inv'[i] = NoRow <=> inv[i] = NoRow
                        /\ inv[i] # NoRow =>
                             inv'[i].tenant = inv[i].tenant /\ inv'[i].key = inv[i].key
    BY <2>1, <2>2, NoRowAssumption
  <2> QED
    BY <2>1, <2>3, SameKeys
<1>Tick. ASSUME Tick \/ UNCHANGED vars PROVE KeyShape'
  <2>1. UNCHANGED <<inv, call, replies>>
    BY <1>Tick DEF Tick, vars, storeVars, createVars
  <2> QED
    BY <2>1, SameKeys
<1> QED
  BY <1>Insert, <1>Replay, <1>Enqueue, <1>Abandon, <1>CommitCall, <1>Worker, <1>Cancel,
     <1>Tick DEF Next, CreateStep

\* Two replies to one idempotency key of a tenant name one stored investigation
\* of that tenant, however the requests overlap, are repeated or die.
THEOREM RepliesAlwaysAgree == Spec => []RepliesAgree
<1>1. Structure /\ KeyShape => RepliesAgree
  <2> SUFFICES ASSUME Structure, KeyShape PROVE RepliesAgree
    OBVIOUS
  <2>1. \A a \in replies : a.inv \in Invs
    BY DEF Structure, TypeOK, CreateTypeOK
  <2> QED
    BY <2>1 DEF KeyShape, RepliesAgree, SameKey
<1>2. Spec => []KeyShape
  BY StructureHolds, KeyShapeInit, KeyShapeStep, PTL DEF Spec
<1> QED
  BY <1>1, <1>2, StructureHolds, PTL

-----------------------------------------------------------------------------
(***************************************************************************)
(* The evidence, the reports that cite it and the audit trail, for every    *)
(* number of workers that append overlapping ledgers, wait for each other   *)
(* and die.                                                                 *)
(***************************************************************************)

-----------------------------------------------------------------------------
(* The audit trail. *)

LEMMA AuditInit == Init => AuditTrail
  BY NoRowAssumption, StoreAssumption
  DEF Init, StoreInit, AuditTrail, JobsOf

LEMMA AuditStep == Structure /\ AuditTrail /\ [Next]_vars => AuditTrail'
<1> SUFFICES ASSUME Structure, AuditTrail, [Next]_vars PROVE AuditTrail'
  OBVIOUS
<1>a. audit \in [Invs -> [AuditAction -> Nat]]
  BY DEF Structure, TypeOK, StoreTypeOK
<1>j. \A j \in Jobs : job[j] # NoRow => job[j].inv \in Invs \cup {NoInv}
  BY DEF Structure, TypeOK, StoreTypeOK, JobRecord
<1>n. {"investigation.created", "report.persisted", "investigation.failed"} = AuditAction
  BY DEF AuditAction
<1>1. ASSUME UNCHANGED <<inv, job, attempts, evidence, reports, audit>> PROVE AuditTrail'
  BY <1>1 DEF AuditTrail, JobsOf
<1>2. ASSUME NEW c \in Clients, CommitCall(c) PROVE AuditTrail'
  <2> SUFFICES ASSUME ~UNCHANGED <<inv, job, attempts, evidence, reports, audit>>
               PROVE  AuditTrail'
    BY <1>1
  <2>p. PICK i \in Invs, k \in Jobs : i = call[c].inv /\ k = call[c].job
    BY <1>2, CreatedRows
  <2>1. /\ i \in Invs /\ inv[i] = NoRow /\ inv'[i] # NoRow
        /\ k \in Jobs /\ job[k] = NoRow
        /\ \A h \in Invs : h # i => inv'[h] = inv[h]
        /\ job'[k].inv = i /\ job'[k].status = "queued"
        /\ \A j \in Jobs : j # k => job'[j] = job[j]
    BY <1>2, <2>p, CreatedRows
  <2>0. audit' = [audit EXCEPT ![i]["investigation.created"] = @ + 1]
    BY <1>2, <2>p, CreatedRows
  <2>2. /\ audit'[i]["investigation.created"] = 1
        /\ audit'[i]["report.persisted"] = 0 /\ audit'[i]["investigation.failed"] = 0
        /\ \A h \in Invs : h # i => audit'[h] = audit[h]
    BY <1>a, <1>n, <2>0, <2>1 DEF AuditTrail
  <2>3. \A j \in Jobs : job[j] # NoRow => job[j].inv # i
    BY <2>1, StoreAssumption DEF Structure, RowShape
  <2>4. ASSUME NEW h \in Invs, h # i PROVE JobsOf(h)' = JobsOf(h)
    <3>1. k \notin JobsOf(h) /\ k \notin JobsOf(h)'
      BY <2>1, <2>4 DEF JobsOf
    <3>2. \A j \in Jobs : j # k => (j \in JobsOf(h) <=> j \in JobsOf(h)')
      BY <2>1 DEF JobsOf
    <3> QED
      BY <3>1, <3>2 DEF JobsOf
  <2>5. JobsOf(i)' \subseteq {k}
    BY <2>1, <2>3 DEF JobsOf
  <2>6. \A h \in Invs : h # i => \A j \in JobsOf(h) : job'[j] = job[j]
    BY <2>1 DEF JobsOf
  <2> QED
    BY <2>1, <2>2, <2>4, <2>5, <2>6 DEF AuditTrail
<1>3. ASSUME NEW w \in Workers, Commit(w) PROVE AuditTrail'
  <2> DEFINE t == tx[w]
             k == t.job
  <2>1. /\ Decided(t) /\ k \in Jobs /\ job[k] # NoRow /\ job[k].status = "queued"
        /\ t.inv = job[k].inv /\ t.inv \in Invs \cup {NoInv}
        /\ t.inv # NoInv => inv[t.inv] # NoRow
    BY <1>3, AtCommit
  <2>2. /\ job'[k].inv = t.inv /\ job'[k].status = t.jobStatus /\ job'[k] # NoRow
        /\ \A j \in Jobs : j # k => job'[j] = job[j]
        /\ \A h \in Invs : inv'[h] = NoRow => inv[h] = NoRow
    BY <1>3, AtCommit, CommitRows, NoRowAssumption, StoreAssumption
  <2>3. audit' = IF t.audit = "none" THEN audit
                 ELSE [audit EXCEPT ![t.inv][t.audit] = @ + 1]
    BY <1>3 DEF Commit
  <2> HIDE DEF t, k
  <2>4. \A h \in Invs : JobsOf(h)' = JobsOf(h)
    BY <2>1, <2>2 DEF JobsOf
  <2>5. \A h \in Invs : h # t.inv => audit'[h] = audit[h]
    BY <1>a, <2>3
  <2>6. \A h \in Invs : h # t.inv => \A j \in JobsOf(h) : job'[j] = job[j]
    BY <2>1, <2>2 DEF JobsOf
  <2>7. ASSUME t.inv \in Invs
        PROVE  /\ audit'[t.inv]["investigation.created"] = 1
               /\ audit'[t.inv]["report.persisted"]
                    = (IF t.jobStatus = "succeeded" THEN 1 ELSE 0)
               /\ audit'[t.inv]["investigation.failed"]
                    = (IF t.jobStatus = "failed" THEN 1 ELSE 0)
    <3>1. /\ audit[t.inv]["investigation.created"] = 1
          /\ audit[t.inv]["report.persisted"] = 0
          /\ audit[t.inv]["investigation.failed"] = 0
      BY <2>1, <2>7 DEF AuditTrail, JobsOf
    <3>2. t.inv # NoInv
      BY <2>7, StoreAssumption
    <3>3. CASE t.audit = "none"
      BY <2>1, <2>3, <3>1, <3>2, <3>3 DEF Decided
    <3>4. CASE t.audit = "report.persisted"
      BY <1>a, <1>n, <2>1, <2>3, <2>7, <3>1, <3>2, <3>4 DEF Decided
    <3>5. CASE t.audit = "investigation.failed"
      BY <1>a, <1>n, <2>1, <2>3, <2>7, <3>1, <3>2, <3>5 DEF Decided
    <3> QED
      BY <2>1, <3>3, <3>4, <3>5 DEF Decided
  <2>8. t.inv \in Invs => JobsOf(t.inv) \subseteq {k}
    <3> SUFFICES ASSUME t.inv \in Invs, NEW j \in JobsOf(t.inv) PROVE j = k
      OBVIOUS
    <3>1. j \in Jobs /\ job[j] # NoRow /\ job[j].inv = t.inv /\ t.inv # NoInv
      BY StoreAssumption DEF JobsOf
    <3> QED
      BY <2>1, <3>1 DEF Structure, RowShape
  <2> SUFFICES ASSUME NEW h \in Invs
               PROVE  /\ inv'[h] = NoRow => \A a \in AuditAction : audit'[h][a] = 0
                      /\ \A j \in JobsOf(h) :
                           /\ audit'[h]["investigation.created"] = 1
                           /\ audit'[h]["report.persisted"] =
                                (IF job'[j].status = "succeeded" THEN 1 ELSE 0)
                           /\ audit'[h]["investigation.failed"] =
                                (IF job'[j].status = "failed" THEN 1 ELSE 0)
    BY <2>4 DEF AuditTrail
  <2>9. CASE h # t.inv
    BY <2>2, <2>5, <2>6, <2>9 DEF AuditTrail
  <2>10. CASE h = t.inv
    <3>1. inv'[h] # NoRow
      BY <2>1, <2>2, <2>10, StoreAssumption
    <3> QED
      BY <2>2, <2>7, <2>8, <2>10, <3>1
  <2> QED
    BY <2>9, <2>10
<1>4. ASSUME NEW i \in Invs, Cancel(i) PROVE AuditTrail'
  <2>1. inv[i] # NoRow /\ UNCHANGED <<job, audit>> /\ \A h \in Invs : h # i => inv'[h] = inv[h]
    BY <1>4 DEF Cancel, Structure, TypeOK, StoreTypeOK
  <2>2. inv'[i] # NoRow
    <3>1. inv[i] \in InvestigationRecord /\ inv' = [inv EXCEPT ![i].status = "cancelled"]
      BY <1>4 DEF Cancel, Structure, TypeOK, StoreTypeOK
    <3>2. inv'[i] \in InvestigationRecord
      BY <3>1 DEF Structure, TypeOK, StoreTypeOK, InvestigationRecord, InvestigationStatus
    <3> QED
      BY <3>2, NoRowAssumption
  <2> QED
    BY <2>1, <2>2 DEF AuditTrail, JobsOf
<1> QED
  BY <1>1, <1>2, <1>3, <1>4, StepKinds

\* The audit trail names the creation of every investigation once, its report
\* once if its job succeeded, its failure once if it failed, and nothing else,
\* whatever is retried, rolled back or cancelled.
THEOREM AuditTrailHolds == Spec => []AuditTrail
  BY StructureHolds, AuditInit, AuditStep, PTL DEF Spec

-----------------------------------------------------------------------------
(* What open transactions have appended. *)

\* A transaction has inserted the entries it has passed, or found them stored;
\* those it has inserted are stored nowhere else; it goes through its ledger
\* upwards.
AppendOK(t) ==
  /\ t.done # {} => t.inv # NoInv
  /\ \A e \in t.done : e \in t.rows \/ EvidenceStored(inv[t.inv], e)
  /\ \A e \in t.rows : ~EvidenceStored(inv[t.inv], e)
  /\ \A e \in t.done : \A x \in t.ledger \ t.done : e < x

\* A cancellation that was there at the claim is still there, and no worker
\* goes past it.
CancelOK(t) ==
  t.cancelledAtClaim =>
    /\ t.pc \in {"get", "commit"} /\ t.invStatus = "unchanged"
    /\ t.inv # NoInv /\ inv[t.inv].status = "cancelled"

\* No two open transactions have inserted the same entry of a tenant's run.
SameOwner(v, w) ==
  /\ inv[tx[v].inv].tenant = inv[tx[w].inv].tenant
  /\ inv[tx[v].inv].run = inv[tx[w].inv].run

RowsApart ==
  \A v, w \in Workers :
    v # w => \A e \in tx[v].rows : e \in tx[w].rows => ~SameOwner(v, w)

AppendShape ==
  /\ \A w \in Workers : AppendOK(tx[w]) /\ CancelOK(tx[w])
  /\ RowsApart

LEMMA AppendShapeInit == Init => AppendShape
  BY DEF Init, WorkerInit, NoTransaction, AppendShape, AppendOK, CancelOK, RowsApart

\* The tenant and the run of an investigation never change.
LEMMA OwnerFixed ==
  ASSUME Structure, Story, [Next]_vars, NEW i \in Invs, inv[i] # NoRow
  PROVE  /\ inv'[i] # NoRow
         /\ inv'[i].tenant = inv[i].tenant /\ inv'[i].run = inv[i].run
<1>1. CASE UNCHANGED vars
  BY <1>1 DEF vars, storeVars
<1>2. CASE KeepsHistory
  <2>1. inv'[i] # NoRow /\ [inv'[i] EXCEPT !.status = inv[i].status] = inv[i]
    BY <1>2 DEF KeepsHistory
  <2>2. inv'[i] \in InvestigationRecord
    BY <2>1, StructureStep DEF Structure, TypeOK, StoreTypeOK
  <2> DEFINE r == inv'[i]
             s == [r EXCEPT !.status = inv[i].status]
  <2>3. s.tenant = r.tenant /\ s.run = r.run
    BY <2>2 DEF InvestigationRecord
  <2> QED
    BY <2>1, <2>3
<1> QED
  BY <1>1, <1>2, HistoryStep

\* The investigation of an open transaction is stored.
LEMMA TxInvestigation ==
  ASSUME Structure, NEW w \in Workers, tx[w].inv # NoInv
  PROVE  /\ tx[w].inv \in Invs /\ inv[tx[w].inv] # NoRow
         /\ inv[tx[w].inv] \in InvestigationRecord /\ tx[w].pc # "idle"
<1>1. tx[w] \in Transaction /\ TxOK(tx[w])
  BY DEF Structure, TypeOK, WorkerTypeOK, TxShape
<1>2. tx[w].pc # "idle"
  BY <1>1 DEF TxOK, NoTransaction
<1>3. tx[w].job \in Jobs /\ job[tx[w].job] # NoRow /\ tx[w].inv = job[tx[w].job].inv
  BY <1>1, <1>2 DEF TxOK
<1>4. tx[w].inv \in Invs
  BY <1>1 DEF Transaction
<1> QED
  BY <1>2, <1>3, <1>4 DEF Structure, RowShape, TypeOK, StoreTypeOK

\* What a step of a worker other than its commit does to its transaction.
LEMMA WorkerSteps ==
  ASSUME Structure, NEW w \in Workers, RunOnce(w) \/ Fault(w), ~Commit(w)
  PROVE  /\ UNCHANGED storeVars
         /\ \A v \in Workers : v # w => tx'[v] = tx[v]
         /\ \/ tx'[w] = NoTransaction
            \/ /\ tx'[w].rows = {} /\ tx'[w].done = {}
            \/ /\ tx'[w].rows = tx[w].rows /\ tx'[w].done = tx[w].done
               /\ tx'[w].ledger = tx[w].ledger /\ tx'[w].inv = tx[w].inv
            \/ AppendEvidence(w)
         /\ \/ Claim(w)
            \/ ~tx'[w].cancelledAtClaim
            \/ /\ tx'[w].cancelledAtClaim = tx[w].cancelledAtClaim
               /\ tx'[w].inv = tx[w].inv
               /\ \/ tx'[w].pc = tx[w].pc /\ tx'[w].invStatus = tx[w].invStatus
                  \/ tx'[w].pc = "commit" /\ tx'[w].invStatus = tx[w].invStatus
                     /\ tx[w].pc = "get"
                  \/ tx[w].pc \notin {"get", "commit"}
                  \/ GetFound(w)
<1>1. tx \in [Workers -> Transaction] /\ tx[w] \in Transaction /\ TxOK(tx[w])
  BY DEF Structure, TypeOK, WorkerTypeOK, TxShape
<1>2. CASE Claim(w)
  <2>1. /\ UNCHANGED storeVars /\ \A v \in Workers : v # w => tx'[v] = tx[v]
        /\ tx'[w].rows = {} /\ tx'[w].done = {}
    BY <1>1, <1>2 DEF Claim, NoTransaction
  <2> QED
    BY <1>2, <2>1
<1>3. CASE Escape(w) \/ Crash(w)
  <2>1. /\ UNCHANGED storeVars /\ \A v \in Workers : v # w => tx'[v] = tx[v]
        /\ tx'[w] = NoTransaction
    BY <1>1, <1>3 DEF Escape, Crash
  <2> QED
    BY <2>1 DEF NoTransaction
<1>4. CASE GetMissing(w) \/ GetCancelled(w) \/ GetFound(w) \/ MarkRunning(w)
           \/ AnalysisRetryable(w) \/ AnalysisTerminal(w)
  BY <1>1, <1>4 DEF Transaction, GetMissing, GetCancelled, GetFound, MarkRunning,
     AnalysisRetryable, AnalysisTerminal
<1>5. CASE AnalysisSucceeds(w)
  BY <1>1, <1>5 DEF Transaction, AnalysisSucceeds, TxOK
<1>6. CASE AppendEvidence(w)
  BY <1>1, <1>6 DEF Transaction, AppendEvidence
<1>7. CASE Succeed(w) \/ TerminalFail(w) \/ RetryOrFail(w)
  <2> DEFINE same(t) ==
               /\ t.rows = tx[w].rows /\ t.done = tx[w].done /\ t.ledger = tx[w].ledger
               /\ t.inv = tx[w].inv /\ t.cancelledAtClaim = tx[w].cancelledAtClaim
  <2>1. same(Succeeded(tx[w])) /\ same(TerminallyFailed(tx[w], tx[w].code))
        /\ same(Requeued(tx[w]))
    BY <1>1 DEF Transaction, Succeeded, TerminallyFailed, Requeued, RecordAttempt
  <2> HIDE DEF same
  <2>2. /\ UNCHANGED storeVars /\ \A v \in Workers : v # w => tx'[v] = tx[v]
        /\ tx[w].pc \notin {"get", "commit"}
    BY <1>1, <1>7 DEF Succeed, TerminalFail, RetryOrFail
  <2>3. same(tx'[w])
    BY <1>1, <1>7, <2>1 DEF Succeed, TerminalFail, RetryOrFail
  <2> QED
    BY <2>2, <2>3 DEF same
<1>8. CASE StatementError(w)
  BY <1>1, <1>8 DEF Transaction, StatementError
<1> QED
  BY <1>2, <1>3, <1>4, <1>5, <1>6, <1>7, <1>8 DEF RunOnce, Fault

\* Steps that leave the transactions alone.
LEMMA AppendShapeOther ==
  ASSUME Structure, Story, AppendShape, [Next]_vars, UNCHANGED <<tx, evidence>>,
         \A w \in Workers :
           tx[w].inv # NoInv /\ inv[tx[w].inv].status = "cancelled"
             => inv'[tx[w].inv].status = "cancelled"
  PROVE  AppendShape'
<1>1. ASSUME NEW w \in Workers, tx[w].inv # NoInv
      PROVE  /\ inv'[tx[w].inv].tenant = inv[tx[w].inv].tenant
             /\ inv'[tx[w].inv].run = inv[tx[w].inv].run
  BY <1>1, TxInvestigation, OwnerFixed
<1>2. ASSUME NEW w \in Workers PROVE tx[w].rows \subseteq tx[w].done
  BY DEF Structure, TxShape, TxOK
<1>3. ASSUME NEW w \in Workers PROVE AppendOK(tx[w])'
  BY <1>1, <1>2 DEF AppendShape, AppendOK, EvidenceStored
<1>4. ASSUME NEW w \in Workers PROVE CancelOK(tx[w])'
  BY DEF AppendShape, CancelOK
<1>5. RowsApart'
  <2> SUFFICES ASSUME NEW v \in Workers, NEW w \in Workers, v # w,
                      NEW e \in tx[v].rows, e \in tx[w].rows, SameOwner(v, w)'
               PROVE  FALSE
    BY DEF RowsApart
  <2>1. tx[v].inv # NoInv /\ tx[w].inv # NoInv
    BY <1>2 DEF AppendShape, AppendOK
  <2>2. SameOwner(v, w)
    BY <1>1, <2>1 DEF SameOwner
  <2> QED
    BY <2>2 DEF AppendShape, RowsApart
<1> QED
  BY <1>3, <1>4, <1>5 DEF AppendShape

\* Steps of a worker before its commit.
LEMMA AppendShapeWorker ==
  ASSUME Structure, AppendShape, NEW w \in Workers, RunOnce(w) \/ Fault(w), ~Commit(w)
  PROVE  AppendShape'
<1>u. UNCHANGED <<inv, job, evidence>> /\ \A v \in Workers : v # w => tx'[v] = tx[v]
  BY WorkerSteps DEF storeVars
<1>t. /\ tx[w] \in Transaction /\ TxOK(tx[w]) /\ AppendOK(tx[w]) /\ CancelOK(tx[w])
      /\ \A v \in Workers : tx[v].rows \subseteq tx[v].done
  BY DEF Structure, TypeOK, WorkerTypeOK, TxShape, TxOK, AppendShape
<1>1. ASSUME AppendEvidence(w)
      PROVE  /\ AppendOK(tx[w])'
             /\ \A v \in Workers : v # w =>
                  \A e \in tx[v].rows : e \in tx'[w].rows => ~SameOwner(v, w)'
  <2>0. PICK e : e = NextEntry(tx[w])
    OBVIOUS
  <2>1. e \in tx[w].ledger \ tx[w].done /\ \A x \in tx[w].ledger \ tx[w].done : e <= x
    <3>1. tx[w].ledger \ tx[w].done # {} /\ tx[w].ledger \ tx[w].done \subseteq Nat
      BY <1>t, <1>1, StoreAssumption DEF AppendEvidence, TxOK, Transaction
    <3> QED
      BY <2>0, <3>1, MinIsLeast DEF NextEntry
  <2>2. /\ tx'[w].done = tx[w].done \cup {e}
        /\ tx'[w].rows = IF EvidenceStored(inv[tx[w].inv], e) THEN tx[w].rows
                         ELSE tx[w].rows \cup {e}
        /\ tx'[w].ledger = tx[w].ledger /\ tx'[w].inv = tx[w].inv
        /\ ~EvidencePending(inv[tx[w].inv], e) /\ tx[w].inv # NoInv
    <3>1. tx \in [Workers -> Transaction]
      BY DEF Structure, TypeOK, WorkerTypeOK
    <3> QED
      BY <1>t, <1>1, <2>0, <3>1 DEF AppendEvidence, Transaction, TxOK
  <2>3. ASSUME NEW x \in tx'[w].done, NEW y \in tx'[w].ledger \ tx'[w].done PROVE x < y
    <3>1. x \in Nat /\ y \in Nat
      BY <1>t, <2>1, <2>2, <2>3, StoreAssumption DEF Transaction
    <3>2. CASE x = e
      BY <2>1, <2>2, <2>3, <3>1, <3>2
    <3>3. CASE x \in tx[w].done
      BY <1>t, <2>2, <2>3, <3>3 DEF AppendOK
    <3> QED
      BY <2>2, <3>2, <3>3
  <2>4. AppendOK(tx[w])'
    <3>1. \A x \in tx'[w].done : x \in tx'[w].rows \/ EvidenceStored(inv[tx[w].inv], x)
      BY <1>t, <2>2 DEF AppendOK
    <3>2. \A x \in tx'[w].rows : ~EvidenceStored(inv[tx[w].inv], x)
      BY <1>t, <2>2 DEF AppendOK
    <3> QED
      BY <1>u, <2>2, <2>3, <3>1, <3>2 DEF AppendOK, EvidenceStored
  <2>5. ASSUME NEW v \in Workers, v # w, NEW x \in tx[v].rows, x \in tx'[w].rows
        PROVE  ~SameOwner(v, w)'
    <3>1. CASE x \in tx[w].rows
      BY <1>u, <2>2, <2>5, <3>1 DEF AppendShape, RowsApart, SameOwner
    <3>2. CASE x = e
      BY <1>u, <2>2, <2>5, <3>2 DEF EvidencePending, SameOwner
    <3> QED
      BY <2>2, <2>5, <3>1, <3>2
  <2> QED
    BY <2>4, <2>5
<1>2. /\ AppendOK(tx[w])'
      /\ \A v \in Workers : v # w =>
           \A e \in tx[v].rows : e \in tx'[w].rows => ~SameOwner(v, w)'
  <2>1. CASE tx'[w].rows = {} /\ tx'[w].done = {}
    BY <2>1 DEF AppendOK
  <2>2. CASE tx'[w] = NoTransaction
    BY <2>1, <2>2 DEF NoTransaction
  <2>3. CASE /\ tx'[w].rows = tx[w].rows /\ tx'[w].done = tx[w].done
             /\ tx'[w].ledger = tx[w].ledger /\ tx'[w].inv = tx[w].inv
    <3>1. AppendOK(tx[w])'
      BY <1>t, <1>u, <2>3 DEF AppendOK, EvidenceStored
    <3>2. \A v \in Workers : v # w =>
            \A e \in tx[v].rows : e \in tx'[w].rows => ~SameOwner(v, w)'
      BY <1>u, <2>3 DEF AppendShape, RowsApart, SameOwner
    <3> QED
      BY <3>1, <3>2
  <2> QED
    BY <1>1, <2>1, <2>2, <2>3, WorkerSteps
<1>3. CancelOK(tx[w])'
  <2>1. CASE Claim(w)
    <3>1. PICK j \in Jobs :
            tx' = [tx EXCEPT ![w] =
              [NoTransaction EXCEPT
                 !.pc = "get", !.job = j, !.inv = job[j].inv,
                 !.count = job[j].attempt_count + 1, !.jobStatus = "claimed",
                 !.cancelledAtClaim =
                   job[j].inv # NoInv /\ inv[job[j].inv].status = "cancelled"]]
      BY <2>1 DEF Claim
    <3>2. tx \in [Workers -> Transaction]
      BY DEF Structure, TypeOK, WorkerTypeOK
    <3>3. /\ tx'[w].pc = "get" /\ tx'[w].inv = job[j].inv /\ tx'[w].invStatus = "unchanged"
          /\ tx'[w].cancelledAtClaim <=>
               job[j].inv # NoInv /\ inv[job[j].inv].status = "cancelled"
      BY <3>1, <3>2 DEF NoTransaction
    <3> QED
      BY <1>u, <3>3 DEF CancelOK
  <2>2. CASE GetFound(w)
    <3>1. ~tx[w].cancelledAtClaim
      BY <1>t, <2>2 DEF CancelOK, GetFound
    <3>2. tx'[w].cancelledAtClaim = tx[w].cancelledAtClaim
      BY <1>t, <2>2 DEF GetFound, Transaction, Structure, TypeOK, WorkerTypeOK
    <3> QED
      BY <3>1, <3>2 DEF CancelOK
  <2> QED
    BY <1>t, <1>u, <2>1, <2>2, WorkerSteps DEF CancelOK
<1>4. \A v \in Workers : v # w => AppendOK(tx[v])' /\ CancelOK(tx[v])'
  BY <1>u DEF AppendShape, AppendOK, CancelOK, EvidenceStored
<1>5. RowsApart'
  <2> SUFFICES ASSUME NEW u \in Workers, NEW v \in Workers, u # v,
                      NEW e \in tx'[u].rows, e \in tx'[v].rows
               PROVE  ~SameOwner(u, v)'
    BY DEF RowsApart
  <2>1. CASE u = w
    <3>1. ~SameOwner(v, w)'
      BY <1>2, <1>u, <2>1
    <3> QED
      BY <2>1, <3>1 DEF SameOwner
  <2>2. CASE v = w
    BY <1>2, <1>u, <2>2
  <2>3. CASE u # w /\ v # w
    BY <1>u, <2>3 DEF AppendShape, RowsApart, SameOwner
  <2> QED
    BY <2>1, <2>2, <2>3
<1> QED
  BY <1>2, <1>3, <1>4, <1>5 DEF AppendShape

\* What the commit of a worker adds to the evidence.
Added(t) ==
  {[tenant |-> inv[t.inv].tenant, run |-> inv[t.inv].run, id |-> e, inv |-> t.inv] : e \in t.rows}

\* An entry is stored after the commit if it was, or if the worker has inserted
\* it for the same tenant and run.
LEMMA StoredAfter ==
  ASSUME NEW w \in Workers, Commit(w), NEW r, NEW e
  PROVE  (\E x \in evidence' : x.tenant = r.tenant /\ x.run = r.run /\ x.id = e) <=>
           \/ EvidenceStored(r, e)
           \/ /\ e \in tx[w].rows
              /\ inv[tx[w].inv].tenant = r.tenant /\ inv[tx[w].inv].run = r.run
<1>1. evidence' = evidence \cup Added(tx[w])
  BY DEF Commit, Added
<1>2. \A x : x \in Added(tx[w]) /\ x.tenant = r.tenant /\ x.run = r.run /\ x.id = e =>
        /\ e \in tx[w].rows
        /\ inv[tx[w].inv].tenant = r.tenant /\ inv[tx[w].inv].run = r.run
  BY DEF Added
<1>3. ASSUME e \in tx[w].rows, inv[tx[w].inv].tenant = r.tenant, inv[tx[w].inv].run = r.run
      PROVE  \E x \in Added(tx[w]) : x.tenant = r.tenant /\ x.run = r.run /\ x.id = e
  <2> DEFINE x == [tenant |-> inv[tx[w].inv].tenant, run |-> inv[tx[w].inv].run,
                   id |-> e, inv |-> tx[w].inv]
  <2>1. x \in Added(tx[w])
    BY <1>3 DEF Added
  <2>2. x.tenant = r.tenant /\ x.run = r.run /\ x.id = e
    BY <1>3
  <2> QED
    BY <2>1, <2>2
<1> QED
  BY <1>1, <1>2, <1>3 DEF EvidenceStored

LEMMA AppendShapeCommit ==
  ASSUME Structure, Story, AppendShape, [Next]_vars, NEW w \in Workers, Commit(w)
  PROVE  AppendShape'
<1>u. tx'[w] = NoTransaction /\ \A v \in Workers : v # w => tx'[v] = tx[v]
  BY DEF Commit, Structure, TypeOK, WorkerTypeOK
<1>r. \A v \in Workers : tx[v].rows \subseteq tx[v].done
  BY DEF Structure, TxShape, TxOK
<1>o. ASSUME NEW v \in Workers, tx[v].inv # NoInv
      PROVE  /\ inv'[tx[v].inv].tenant = inv[tx[v].inv].tenant
             /\ inv'[tx[v].inv].run = inv[tx[v].inv].run
  BY <1>o, TxInvestigation, OwnerFixed
<1>1. ASSUME NEW v \in Workers, v # w PROVE AppendOK(tx[v])'
  <2>0. AppendOK(tx[v])
    BY DEF AppendShape
  <2>1. CASE tx[v].done = {}
    BY <1>r, <1>u, <1>1, <2>1 DEF AppendOK
  <2>2. CASE tx[v].done # {}
    <3>1. tx[v].inv # NoInv
      BY <2>0, <2>2 DEF AppendOK
    <3>2. ASSUME NEW e
          PROVE  EvidenceStored(inv[tx[v].inv], e)' <=>
                   \/ EvidenceStored(inv[tx[v].inv], e)
                   \/ e \in tx[w].rows /\ SameOwner(w, v)
      <4>1. EvidenceStored(inv[tx[v].inv], e)' <=>
              \E x \in evidence' : /\ x.tenant = inv[tx[v].inv].tenant
                                   /\ x.run = inv[tx[v].inv].run /\ x.id = e
        BY <1>o, <1>u, <1>1, <3>1 DEF EvidenceStored
      <4>2. PICK r : r = inv[tx[v].inv]
        OBVIOUS
      <4>3. (\E x \in evidence' : x.tenant = r.tenant /\ x.run = r.run /\ x.id = e) <=>
              \/ EvidenceStored(r, e)
              \/ /\ e \in tx[w].rows
                 /\ inv[tx[w].inv].tenant = r.tenant /\ inv[tx[w].inv].run = r.run
        BY StoredAfter
      <4> QED
        BY <4>1, <4>2, <4>3 DEF SameOwner
    <3>3. \A e \in tx[v].rows : ~(e \in tx[w].rows /\ SameOwner(w, v))
      BY <1>1 DEF AppendShape, RowsApart
    <3> QED
      BY <1>1, <1>u, <2>0, <3>2, <3>3 DEF AppendOK
  <2> QED
    BY <2>1, <2>2
<1>2. ASSUME NEW v \in Workers, v # w PROVE CancelOK(tx[v])'
  <2> SUFFICES ASSUME tx[v].cancelledAtClaim
               PROVE  inv'[tx[v].inv].status = "cancelled"
    BY <1>2, <1>u DEF AppendShape, CancelOK
  <2>1. tx[v].inv # NoInv /\ inv[tx[v].inv].status = "cancelled"
    BY DEF AppendShape, CancelOK
  <2>2. tx[v].inv \in Invs
    BY <2>1, TxInvestigation
  <2>3. tx[v].inv # tx[w].inv
    BY <1>2, <2>2, StructureExclusive DEF ExclusiveRun
  <2> QED
    BY <2>1, <2>2, <2>3, CommitRows
<1>3. AppendOK(tx[w])' /\ CancelOK(tx[w])'
  BY <1>u DEF AppendOK, CancelOK, NoTransaction
<1>4. RowsApart'
  <2> SUFFICES ASSUME NEW u \in Workers, NEW v \in Workers, u # v,
                      NEW e \in tx'[u].rows, e \in tx'[v].rows, SameOwner(u, v)'
               PROVE  FALSE
    BY DEF RowsApart
  <2>1. u # w /\ v # w
    BY <1>u DEF NoTransaction
  <2>2. tx[u].inv # NoInv /\ tx[v].inv # NoInv
    BY <1>r, <1>u, <2>1 DEF AppendShape, AppendOK
  <2>3. SameOwner(u, v)
    BY <1>o, <1>u, <2>1, <2>2 DEF SameOwner
  <2> QED
    BY <1>u, <2>1, <2>3 DEF AppendShape, RowsApart
<1> QED
  BY <1>1, <1>2, <1>3, <1>4 DEF AppendShape

LEMMA AppendShapeStep == Structure /\ Story /\ AppendShape /\ [Next]_vars => AppendShape'
<1> SUFFICES ASSUME Structure, Story, AppendShape, [Next]_vars PROVE AppendShape'
  OBVIOUS
<1>1. ASSUME NEW w \in Workers, RunOnce(w) \/ Fault(w) PROVE AppendShape'
  BY <1>1, AppendShapeWorker, AppendShapeCommit
<1>2. ASSUME NEW c \in Clients, CreateStep(c), UNCHANGED tx PROVE AppendShape'
  <2>1. CASE CommitCall(c)
    <3>1. UNCHANGED evidence
      BY <2>1 DEF CommitCall
    <3>2. \A i \in Invs : inv[i] # NoRow => inv'[i] = inv[i]
      BY <2>1, CreatedRows
    <3> QED
      BY <1>2, <3>1, <3>2, TxInvestigation, AppendShapeOther
  <2>2. CASE ~CommitCall(c)
    <3>1. UNCHANGED <<inv, evidence>>
      BY <1>2, <2>2 DEF CreateStep, Insert, Replay, Enqueue, AbandonCall, storeVars
    <3> QED
      BY <1>2, <3>1, AppendShapeOther
  <2> QED
    BY <2>1, <2>2
<1>3. ASSUME NEW i \in Invs, Cancel(i) PROVE AppendShape'
  <2>1. UNCHANGED <<tx, evidence>>
    BY <1>3 DEF Cancel
  <2>2. /\ inv \in [Invs -> InvestigationRecord \cup {NoRow}] /\ inv[i] # NoRow
        /\ inv' = [inv EXCEPT ![i] = [inv[i] EXCEPT !.status = "cancelled"]]
    BY <1>3 DEF Cancel, Structure, TypeOK, StoreTypeOK
  <2>3. \A h \in Invs : inv[h].status = "cancelled" => inv'[h].status = "cancelled"
    BY <2>2 DEF InvestigationRecord
  <2> QED
    BY <2>1, <2>3, TxInvestigation, AppendShapeOther
<1>4. CASE Tick
  BY <1>4, AppendShapeOther DEF Tick
<1>5. CASE UNCHANGED vars
  BY <1>5, AppendShapeOther DEF vars, storeVars
<1> QED
  BY <1>1, <1>2, <1>3, <1>4, <1>5 DEF Next

LEMMA AppendShapeHolds == Spec => []AppendShape
  BY StructureHolds, StoryHolds, AppendShapeInit, AppendShapeStep, PTL DEF Spec

\* No worker runs an investigation that was cancelled when it claimed the job.
THEOREM CancelledNeverRun == Spec => []CancelledNotRun
<1>1. AppendShape => CancelledNotRun
  BY DEF AppendShape, CancelOK, CancelledNotRun
<1> QED
  BY <1>1, AppendShapeHolds, PTL

\* Workers that append overlapping ledgers never wait in a circle: a worker
\* that is waited for waits, if at all, for a later entry.
THEOREM WaitsAlwaysAscend == Spec => []WaitsAscend
<1>1. Structure /\ AppendShape => WaitsAscend
  <2> SUFFICES ASSUME Structure, AppendShape, NEW v \in Workers, NEW w \in Workers,
                      WaitsFor(w, v), NEW u \in Workers, WaitsFor(v, u)
               PROVE  NextEntry(tx[v]) > NextEntry(tx[w])
    BY DEF WaitsAscend
  <2>1. tx[v] \in Transaction /\ TxOK(tx[v]) /\ AppendOK(tx[v])
    BY DEF Structure, TypeOK, WorkerTypeOK, TxShape, AppendShape
  <2>2. NextEntry(tx[w]) \in tx[v].done
    BY <2>1 DEF WaitsFor, TxOK
  <2>3. tx[v].ledger \ tx[v].done # {} /\ tx[v].ledger \subseteq Nat
    BY <2>1, StoreAssumption DEF WaitsFor, TxOK, Transaction
  <2>4. NextEntry(tx[v]) \in tx[v].ledger \ tx[v].done
    BY <2>3, MinIsLeast DEF NextEntry
  <2>5. NextEntry(tx[w]) < NextEntry(tx[v])
    BY <2>1, <2>2, <2>4 DEF AppendOK
  <2>6. NextEntry(tx[w]) \in Nat /\ NextEntry(tx[v]) \in Nat
    BY <2>1, <2>2, <2>3, <2>4 DEF TxOK
  <2> QED
    BY <2>5, <2>6
<1> QED
  BY <1>1, StructureHolds, AppendShapeHolds, PTL

-----------------------------------------------------------------------------
(* Stored evidence and the reports that cite it. *)

LEMMA UniqueInit == Init => EvidenceUnique
  BY DEF Init, StoreInit, EvidenceUnique

LEMMA UniqueStep == Structure /\ AppendShape /\ EvidenceUnique /\ [Next]_vars => EvidenceUnique'
<1> SUFFICES ASSUME Structure, AppendShape, EvidenceUnique, [Next]_vars PROVE EvidenceUnique'
  OBVIOUS
<1>1. ASSUME UNCHANGED evidence PROVE EvidenceUnique'
  BY <1>1 DEF EvidenceUnique
<1>2. ASSUME NEW w \in Workers, Commit(w) PROVE EvidenceUnique'
  <2>0. evidence' = evidence \cup Added(tx[w])
    BY <1>2 DEF Commit, Added
  <2>1. \A x \in Added(tx[w]) : \A y \in Added(tx[w]) : x.id = y.id => x = y
    BY DEF Added
  <2>2. ASSUME NEW x \in Added(tx[w]), NEW y \in evidence,
               x.tenant = y.tenant, x.run = y.run, x.id = y.id
        PROVE  FALSE
    <3>1. /\ x.id \in tx[w].rows /\ x.tenant = inv[tx[w].inv].tenant
          /\ x.run = inv[tx[w].inv].run
      BY DEF Added
    <3>2. EvidenceStored(inv[tx[w].inv], x.id)
      BY <2>2, <3>1 DEF EvidenceStored
    <3> QED
      BY <3>1, <3>2 DEF AppendShape, AppendOK
  <2> QED
    BY <2>0, <2>1, <2>2 DEF EvidenceUnique
<1>3. ASSUME NEW c \in Clients, CommitCall(c) PROVE EvidenceUnique'
  BY <1>1, <1>3 DEF CommitCall
<1>4. ASSUME NEW i \in Invs, Cancel(i) PROVE EvidenceUnique'
  BY <1>1, <1>4 DEF Cancel
<1> QED
  BY <1>1, <1>2, <1>3, <1>4, StepKinds

\* A tenant's run holds every piece of evidence once, however many workers
\* insert it at the same time.
THEOREM EvidenceIsUnique == Spec => []EvidenceUnique
  BY StructureHolds, AppendShapeHolds, UniqueInit, UniqueStep, PTL DEF Spec

LEMMA CitationsInit == Init => CitationsResolve
  BY DEF Init, StoreInit, CitationsResolve

LEMMA CitationsStep ==
  Structure /\ Story /\ AppendShape /\ CitationsResolve /\ [Next]_vars => CitationsResolve'
<1> SUFFICES ASSUME Structure, Story, AppendShape, CitationsResolve, [Next]_vars
             PROVE  CitationsResolve'
  OBVIOUS
<1>e. evidence \subseteq evidence'
  BY HistoryStep DEF KeepsHistory, vars, storeVars
\* A report that was there keeps its citations.
<1>k. ASSUME NEW i \in Invs, reports'[i] = reports[i], reports'[i] # NoRow
      PROVE  /\ inv'[i] # NoRow /\ reports'[i].tenant = inv'[i].tenant
             /\ reports'[i].run = inv'[i].run
             /\ \A e \in reports'[i].cites : EvidenceStored(reports[i], e)'
  <2>1. /\ inv[i] # NoRow /\ reports[i].tenant = inv[i].tenant
        /\ reports[i].run = inv[i].run
        /\ \A e \in reports[i].cites : EvidenceStored(reports[i], e)
    BY <1>k DEF CitationsResolve
  <2>2. inv'[i] # NoRow /\ inv'[i].tenant = inv[i].tenant /\ inv'[i].run = inv[i].run
    BY <2>1, OwnerFixed
  <2>3. \A e : EvidenceStored(reports[i], e) => EvidenceStored(reports[i], e)'
    BY <1>e, <1>k DEF EvidenceStored
  <2> QED
    BY <1>k, <2>1, <2>2, <2>3
<1>1. ASSUME UNCHANGED reports PROVE CitationsResolve'
  BY <1>1, <1>k DEF CitationsResolve
<1>2. ASSUME NEW w \in Workers, Commit(w) PROVE CitationsResolve'
  <2>1. CASE ~tx[w].report
    BY <1>1, <1>2, <2>1 DEF Commit
  <2>2. CASE tx[w].report
    <3>p. PICK i \in Invs : i = tx[w].inv
      BY <1>2, <2>2, AtCommit
    <3> DEFINE new == [tenant |-> inv[i].tenant, run |-> inv[i].run, cites |-> tx[w].cites]
    <3>1. reports' = [reports EXCEPT ![i] = new]
      BY <1>2, <2>2, <3>p DEF Commit
    <3>2. new.tenant = inv[i].tenant /\ new.run = inv[i].run /\ new.cites = tx[w].cites
      OBVIOUS
    <3> HIDE DEF new
    <3>3. reports'[i] = new /\ \A h \in Invs : h # i => reports'[h] = reports[h]
      BY <3>1 DEF Structure, TypeOK, StoreTypeOK
    <3>4. inv[i] # NoRow
      BY <1>2, <3>p, AtCommit, StoreAssumption
    <3>5. inv'[i] # NoRow /\ inv'[i].tenant = inv[i].tenant /\ inv'[i].run = inv[i].run
      BY <3>4, OwnerFixed
    <3>6. ASSUME NEW e \in new.cites PROVE EvidenceStored(reports[i], e)'
      <4>1. e \in tx[w].done
        <5>1. tx[w].cites \subseteq tx[w].ledger
          BY DEF Structure, TxShape, TxOK
        <5>2. tx[w].done = tx[w].ledger
          BY <1>2, <2>2, AtCommit DEF Decided
        <5> QED
          BY <3>2, <5>1, <5>2
      <4>2. e \in tx[w].rows \/ EvidenceStored(new, e)
        BY <3>2, <3>p, <4>1 DEF AppendShape, AppendOK, EvidenceStored
      <4>3. \E x \in evidence' : x.tenant = new.tenant /\ x.run = new.run /\ x.id = e
        BY <1>2, <3>2, <3>p, <4>2, StoredAfter
      <4> QED
        BY <3>3, <4>3 DEF EvidenceStored
    <3>7. /\ inv'[i] # NoRow /\ reports'[i].tenant = inv'[i].tenant
          /\ reports'[i].run = inv'[i].run
          /\ \A e \in reports'[i].cites : EvidenceStored(reports[i], e)'
      BY <3>2, <3>3, <3>5, <3>6
    <3> QED
      BY <1>k, <3>3, <3>7 DEF CitationsResolve
  <2> QED
    BY <2>1, <2>2
<1>3. ASSUME NEW c \in Clients, CommitCall(c) PROVE CitationsResolve'
  BY <1>1, <1>3 DEF CommitCall
<1>4. ASSUME NEW i \in Invs, Cancel(i) PROVE CitationsResolve'
  BY <1>1, <1>4 DEF Cancel
<1> QED
  BY <1>1, <1>2, <1>3, <1>4, StepKinds

\* Every citation of a stored report resolves to a stored row of the same tenant
\* and run, whoever inserted the row.
THEOREM CitationsAlwaysResolve == Spec => []CitationsResolve
  BY StructureHolds, StoryHolds, AppendShapeHolds, CitationsInit, CitationsStep, PTL DEF Spec

-----------------------------------------------------------------------------
(***************************************************************************)
(* ControlPlane implements Lifecycle, step by step: the commit of a request *)
(* opens an investigation, the commit of a worker is one of the four ends   *)
(* of an attempt, a cancellation is one, and nothing else can be seen.      *)
(***************************************************************************)

\* The job of an investigation is the one that names it.
JobsNamed ==
  \A i \in Invs, k \in Jobs : job[k] # NoRow /\ job[k].inv = i => JobOf(i) = k

LEMMA JobsNamedHolds == Structure => JobsNamed
<1> SUFFICES ASSUME Structure, NEW i \in Invs, NEW k \in Jobs, job[k] # NoRow, job[k].inv = i
             PROVE  JobOf(i) = k
  BY DEF JobsNamed
<1>1. i # NoInv
  BY StoreAssumption
<1>2. \A j \in Jobs : job[j] # NoRow /\ job[j].inv = i <=> j = k
  BY <1>1 DEF Structure, RowShape
<1> QED
  BY <1>2 DEF JobOf

LEMMA JobsNamedNext == Structure' => JobsNamed'
  BY JobsNamedHolds, PTL

\* A step that leaves all investigations but one alone changes what can be seen
\* of that one, to what its rows say.
LEMMA OneSeen ==
  ASSUME Structure, Structure', HasJob, NEW i \in Invs, NEW k \in Jobs,
         job'[k] # NoRow, job'[k].inv = i, inv'[i] # NoRow,
         \A h \in Invs : h # i => inv'[h] = inv[h] /\ reports'[h] = reports[h],
         \A j \in Jobs : j # k => job'[j] = job[j],
         job[k] # NoRow => job[k].inv = i
  PROVE  /\ VisibleStatus' = [VisibleStatus EXCEPT ![i] = inv'[i].status]
         /\ VisibleWork' = [VisibleWork EXCEPT ![i] = job'[k].status]
         /\ VisibleUsed' = [VisibleUsed EXCEPT ![i] = job'[k].attempt_count]
         /\ VisibleReport' = [VisibleReport EXCEPT ![i] = (reports'[i] # NoRow)]
<1>1. JobOf(i)' = k
  BY JobsNamedNext DEF JobsNamed
<1>2. ASSUME NEW h \in Invs, h # i, inv[h] # NoRow
      PROVE  JobOf(h)' = JobOf(h) /\ job'[JobOf(h)] = job[JobOf(h)]
  <2>1. PICK j \in Jobs : job[j] # NoRow /\ job[j].inv = h
    BY <1>2 DEF HasJob
  <2>2. j # k /\ job'[j] = job[j]
    BY <1>2, <2>1
  <2>3. JobOf(h) = j
    BY <2>1, JobsNamedHolds DEF JobsNamed
  <2>4. JobOf(h)' = j
    BY <2>1, <2>2, JobsNamedNext DEF JobsNamed
  <2> QED
    BY <2>2, <2>3, <2>4
<1>3. VisibleStatus' = [VisibleStatus EXCEPT ![i] = inv'[i].status]
  BY DEF VisibleStatus
<1>4. VisibleWork' = [VisibleWork EXCEPT ![i] = job'[k].status]
  BY <1>1, <1>2, ZenonT(40) DEF VisibleWork
<1>5. VisibleUsed' = [VisibleUsed EXCEPT ![i] = job'[k].attempt_count]
  BY <1>1, <1>2 DEF VisibleUsed
<1>6. VisibleReport' = [VisibleReport EXCEPT ![i] = (reports'[i] # NoRow)]
  BY DEF VisibleReport
<1> QED
  BY <1>3, <1>4, <1>5, <1>6

\* A report is either there or not.
LEMMA ReportSeen ==
  ASSUME NEW i \in Invs
  PROVE  VisibleReport[i] = (reports[i] # NoRow) /\ VisibleReport \in [Invs -> BOOLEAN]
  BY DEF VisibleReport

-----------------------------------------------------------------------------

\* A fresh schema shows no investigation.
LEMMA PromiseInit == Init => Promise!Init
<1> SUFFICES ASSUME Init PROVE Promise!Init
  OBVIOUS
<1>1. VisibleStatus = [i \in Invs |-> "absent"] /\ VisibleWork = [i \in Invs |-> "absent"]
      /\ VisibleUsed = [i \in Invs |-> 0]
  BY DEF Init, StoreInit, VisibleStatus, VisibleWork, VisibleUsed
<1>2. VisibleReport = [i \in Invs |-> FALSE]
  BY DEF Init, StoreInit, VisibleReport
<1> QED
  BY <1>1, <1>2 DEF Promise!Init

\* Rows that stay are seen as they were.
LEMMA NothingSeen ==
  ASSUME UNCHANGED <<inv, job, reports>>
  PROVE  UNCHANGED Promise!lifecycleVars
  BY DEF Promise!lifecycleVars, VisibleStatus, VisibleWork, VisibleUsed, VisibleReport, JobOf

\* The commit of a request opens the investigation, or shows nothing.
LEMMA CreateSeen ==
  ASSUME Structure, Structure', HasJob, NEW c \in Clients, CommitCall(c)
  PROVE  [Promise!Next]_Promise!lifecycleVars
<1> SUFFICES ASSUME ~UNCHANGED <<inv, job, attempts, evidence, reports, audit>>
             PROVE  Promise!Next
  BY NothingSeen
<1>p. PICK i \in Invs, k \in Jobs : i = call[c].inv /\ k = call[c].job
  BY CreatedRows
<1>1. /\ inv[i] = NoRow /\ job[k] = NoRow
      /\ inv'[i] # NoRow /\ inv'[i].status = "pending"
      /\ \A h \in Invs : h # i => inv'[h] = inv[h]
      /\ job'[k] # NoRow /\ job'[k].inv = i /\ job'[k].status = "queued"
      /\ job'[k].attempt_count = 0
      /\ \A j \in Jobs : j # k => job'[j] = job[j]
      /\ UNCHANGED reports
  BY <1>p, CreatedRows
<1>2. /\ VisibleStatus' = [VisibleStatus EXCEPT ![i] = "pending"]
      /\ VisibleWork' = [VisibleWork EXCEPT ![i] = "queued"]
      /\ VisibleUsed' = [VisibleUsed EXCEPT ![i] = 0]
  BY <1>1, OneSeen
<1>3. VisibleStatus[i] = "absent" /\ UNCHANGED VisibleUsed
  BY <1>1, <1>2 DEF VisibleStatus, VisibleUsed
<1>4. UNCHANGED VisibleReport
  BY <1>1 DEF VisibleReport
<1>5. Promise!Open(i)
  BY <1>2, <1>3, <1>4 DEF Promise!Open
<1> QED
  BY <1>5 DEF Promise!Next

\* The commit of a worker ends an attempt, or shows nothing where the job has
\* no investigation that can be read.
LEMMA AttemptSeen ==
  ASSUME Structure, Structure', HasJob, Story, Story', NEW w \in Workers, Commit(w)
  PROVE  [Promise!Next]_Promise!lifecycleVars
<1> DEFINE t == tx[w]
<1>p. PICK k \in Jobs : k = t.job
  BY AtCommit
<1>1. /\ Decided(t) /\ job[k] # NoRow /\ job[k].status = "queued"
      /\ t.inv = job[k].inv /\ t.count = job[k].attempt_count + 1
      /\ t.inv \in Invs \cup {NoInv} /\ (t.inv # NoInv => inv[t.inv] # NoRow)
  BY <1>p, AtCommit
<1>2. /\ job'[k].inv = t.inv /\ job'[k].status = t.jobStatus /\ job'[k] # NoRow
      /\ job'[k].attempt_count = t.count
      /\ \A j \in Jobs : j # k => job'[j] = job[j]
      /\ \A i \in Invs : i # t.inv => inv'[i] = inv[i]
      /\ t.inv # NoInv =>
           inv'[t.inv].status =
             IF t.invStatus = "unchanged" THEN inv[t.inv].status ELSE t.invStatus
  BY <1>p, CommitRows, NoRowAssumption
<1>3. \A i \in Invs : i # t.inv \/ ~t.report => reports'[i] = reports[i]
  BY <1>1 DEF Commit, Structure, TypeOK, StoreTypeOK
<1>4. CASE t.inv = NoInv
  <2>1. ~t.report /\ t.invStatus = "unchanged"
    BY <1>1, <1>4 DEF Decided
  <2>2. UNCHANGED <<inv, reports>>
    BY <2>1 DEF Commit
  <2>3. ASSUME NEW i \in Invs, inv[i] # NoRow
        PROVE  JobOf(i)' = JobOf(i) /\ job'[JobOf(i)] = job[JobOf(i)]
    <3>1. PICK j \in Jobs : job[j] # NoRow /\ job[j].inv = i
      BY <2>3 DEF HasJob
    <3>2. j # k /\ job'[j] = job[j]
      BY <1>1, <1>2, <1>4, <3>1, StoreAssumption
    <3>3. JobOf(i) = j
      BY <3>1, JobsNamedHolds DEF JobsNamed
    <3>4. JobOf(i)' = j
      BY <3>1, <3>2, JobsNamedNext DEF JobsNamed
    <3> QED
      BY <3>2, <3>3, <3>4
  <2>4. UNCHANGED <<VisibleStatus, VisibleReport>>
    BY <2>2 DEF VisibleStatus, VisibleReport
  <2>5. UNCHANGED VisibleWork /\ UNCHANGED VisibleUsed
    BY <2>2, <2>3 DEF VisibleWork, VisibleUsed
  <2> QED
    BY <2>4, <2>5 DEF Promise!lifecycleVars
<1>5. CASE t.inv # NoInv
  <2>p. PICK i \in Invs : i = t.inv
    BY <1>1, <1>5
  <2>0. inv'[i] # NoRow
    BY <1>5, <2>p, CommitRows, NoRowAssumption
  <2>1. /\ VisibleStatus' = [VisibleStatus EXCEPT ![i] = inv'[i].status]
        /\ VisibleWork' = [VisibleWork EXCEPT ![i] = t.jobStatus]
        /\ VisibleUsed' = [VisibleUsed EXCEPT ![i] = t.count]
        /\ VisibleReport' = [VisibleReport EXCEPT ![i] = (reports'[i] # NoRow)]
    BY <1>1, <1>2, <1>3, <2>0, <2>p, OneSeen
  <2>2. JobOf(i) = k
    BY <1>1, <2>p, JobsNamedHolds DEF JobsNamed
  <2>3. /\ VisibleStatus[i] = inv[i].status /\ VisibleWork[i] = "queued"
        /\ VisibleUsed[i] = job[k].attempt_count
    BY <1>1, <1>5, <2>2, <2>p DEF VisibleStatus, VisibleWork, VisibleUsed
  <2>4. t.count = VisibleUsed[i] + 1
    BY <1>1, <2>3
  <2>5. ~t.report => UNCHANGED VisibleReport
    BY <1>3, <2>1, ReportSeen
  <2> HIDE DEF t
  <2>6. CASE t.jobStatus = "cancelled"
    <3>1. ~t.report /\ inv[i].status = "cancelled" /\ inv'[i].status = "cancelled"
      BY <1>1, <1>2, <1>5, <2>6, <2>p DEF Decided
    <3>2. Promise!Withdraw(i)
      BY <2>1, <2>3, <2>4, <2>5, <2>6, <3>1 DEF Promise!Withdraw, Promise!Attempt
    <3> QED
      BY <3>2 DEF Promise!Next
  <2>7. CASE t.jobStatus = "queued"
    <3>1. ~t.report /\ t.count < MaxAttempts /\ inv'[i].status = "running"
      BY <1>1, <1>2, <1>5, <2>7, <2>p DEF Decided
    <3>2. Promise!Retry(i)
      BY <2>1, <2>3, <2>4, <2>5, <2>7, <3>1 DEF Promise!Retry, Promise!Attempt
    <3> QED
      BY <3>2 DEF Promise!Next
  <2>8. CASE t.jobStatus = "failed"
    <3>1. ~t.report /\ inv'[i].status = "failed"
      BY <1>1, <1>2, <1>5, <2>8, <2>p DEF Decided
    <3>2. Promise!Fail(i)
      BY <2>1, <2>3, <2>4, <2>5, <2>8, <3>1 DEF Promise!Fail, Promise!Attempt
    <3> QED
      BY <3>2 DEF Promise!Next
  <2>9. CASE t.jobStatus = "succeeded"
    <3>1. inv'[i].status = "succeeded"
      BY <1>1, <1>2, <1>5, <2>9, <2>p DEF Decided
    <3>2. reports'[i] # NoRow
      BY <1>2, <1>5, <2>9, <2>p DEF Story, OutcomesAgree
    <3>3. Promise!Succeed(i)
      BY <2>1, <2>3, <2>4, <2>9, <3>1, <3>2 DEF Promise!Succeed, Promise!Attempt
    <3> QED
      BY <3>3 DEF Promise!Next
  <2> QED
    BY <1>1, <1>5, <2>6, <2>7, <2>8, <2>9 DEF Decided
<1> QED
  BY <1>4, <1>5

\* A cancellation is seen as one.
LEMMA CancelSeen ==
  ASSUME Structure, Structure', HasJob, NEW i \in Invs, Cancel(i)
  PROVE  [Promise!Next]_Promise!lifecycleVars
<1>1. /\ inv[i] # NoRow /\ inv[i] \in InvestigationRecord
      /\ inv \in [Invs -> InvestigationRecord \cup {NoRow}]
      /\ inv' = [inv EXCEPT ![i] = [inv[i] EXCEPT !.status = "cancelled"]]
      /\ UNCHANGED <<job, reports>>
  BY DEF Cancel, Structure, TypeOK, StoreTypeOK
<1>2. inv'[i].status = "cancelled" /\ inv'[i] \in InvestigationRecord
  BY <1>1 DEF InvestigationRecord, InvestigationStatus
<1>3. inv'[i] # NoRow /\ \A h \in Invs : h # i => inv'[h] = inv[h]
  BY <1>1, <1>2, NoRowAssumption
<1>4. \A h \in Invs : inv'[h] = NoRow <=> inv[h] = NoRow
  BY <1>1, <1>3
<1>5. VisibleStatus' = [VisibleStatus EXCEPT ![i] = "cancelled"]
  BY <1>2, <1>3 DEF VisibleStatus
<1>6. UNCHANGED <<VisibleWork, VisibleUsed, VisibleReport>>
  BY <1>1, <1>4 DEF VisibleWork, VisibleUsed, VisibleReport, JobOf
<1>7. VisibleStatus[i] # "absent"
  BY <1>1 DEF VisibleStatus, InvestigationRecord, InvestigationStatus
<1>8. Promise!Cancel(i)
  BY <1>5, <1>6, <1>7 DEF Promise!Cancel
<1> QED
  BY <1>8 DEF Promise!Next

LEMMA PromiseStep ==
  Structure /\ HasJob /\ Story /\ [Next]_vars => [Promise!Next]_Promise!lifecycleVars
<1> SUFFICES ASSUME Structure, HasJob, Story, [Next]_vars
             PROVE  [Promise!Next]_Promise!lifecycleVars
  OBVIOUS
<1>1. Structure' /\ Story'
  BY StructureStep, StoryStep
<1> QED
  BY <1>1, StepKinds, NothingSeen, CreateSeen, AttemptSeen, CancelSeen

\* What tenants can read of their investigations changes as Lifecycle says,
\* whatever clients, workers, the operator and faults do: every transaction is,
\* to its readers, one indivisible step of the lifecycle or none.
THEOREM PromiseIsKept == Spec => KeepsPromise
<1>1. Spec => [](Structure /\ HasJob /\ Story)
  <2>1. Spec => []HasJob
    BY StructureHolds, HasJobInit, HasJobStep, PTL DEF Spec
  <2> QED
    BY <2>1, StructureHolds, StoryHolds, PTL
<1> QED
  BY <1>1, PromiseInit, PromiseStep, PTL DEF Spec, KeepsPromise, Promise!Spec

=============================================================================
