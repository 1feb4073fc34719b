# Formal model of the incident evidence compiler

TLA+ modules, TLC runs and TLAPS proofs kept beside the source of
`src/incident_evidence_compiler`. Modelled are the control plane and its two
persistence layers, the server process over time, the analysis from telemetry to
verdict, and the offline evaluation.

## The system

A client opens an investigation over HTTP (`api/app.py`). The use case
`CreateInvestigation` stores it and enqueues one job. A worker
(`application/worker.py`), in the server process (`runtime/server.py`) or in
another, claims a job, loads telemetry, ranks metric shifts, compiles an
evidence ledger, asks a language model for hypotheses, validates and verifies
the answer, and stores evidence and a report. Clients poll status and report.

| Component | State | Operations | Interaction | What makes it correct |
|---|---|---|---|---|
| `CreateInvestigation` (`application/use_cases.py`) | none of its own; one transaction per request | insert or find by key, enqueue, audit, commit | calls the unit of work | one investigation per tenant and key; one job each; all or nothing |
| `Worker` (`application/worker.py`) | none of its own; one transaction per `run_once` | claim, get, mark running, analyse, persist, fail, retry, commit | unit of work, telemetry source, language model, metrics | exclusive runs; attempts bounded and numbered; outcome, report, audit and statuses agree; every job settles |
| PostgreSQL unit of work (`persistence/postgres/unit_of_work.py`) | one connection, one transaction | repositories, commit, rollback | row locks, unique indexes | nothing visible before commit; an error aborts |
| In-memory unit of work (`persistence/memory.py`) | one store, one lock | snapshot, adopt | same interface | serial; no stale copy is adopted; a unit that does not commit leaves nothing |
| Schema and migrations (`persistence/migrations`) | tables, `schema_migrations` | apply unapplied files | startup script, several at once | each file applied once and in order; somebody completes |
| Worker loop, lifespan (`runtime/server.py`) | stop event, task | run, back off, stop | calls `run_once` | one bad job does not end the loop; shutdown ends, and when |
| HTTP API, auth (`api/`) | token registry | create, status, report | use cases | a tenant sees only its own; what was acknowledged holds |
| Gemini client (`llm/gemini.py`) | none | attempts with a deadline each, map errors | worker's deadline | every outcome is a typed error or a proposal |
| Hypotheses (`llm/parsing.py`, `domain/hypotheses.py`) | none | parse, validate | worker | only known signals pass; refusals are typed |
| Baseline, ledger, verifier, serialization (`domain/`) | none | pure functions | worker | independent of order and unit; the three statements of one rule agree; a verdict follows from the ledger; alterations are detected |
| Change evidence and verifier (`domain/change*.py`) | a log of events | compile, verify | evaluation | no event is lost; independent of arrival; support is not withdrawn |
| Telemetry sources (`runtime/prometheus.py`, `runtime/telemetry.py`) | configuration | load | worker, over a blocking transport | all or nothing; ends |
| Metrics (`observability/metrics.py`) | counters, histograms | register, inc, observe, render | worker, API | counters differ from what was committed by failures only |
| Evaluation harness (`evaluation/harness`) | tasks, a semaphore | predict, retry, score | provider | scores do not depend on concurrency |
| RCAEval adapter (`evaluation/rcaeval`) | files | walk, parse, label, write the sidecar | file system | cases and labels join; the sidecar is never partial |
| Configuration (`runtime/config.py`), scripts (`scripts/`) | none | read the environment; demonstrations | startup | - |

The hardest behaviours are in the first rows: overlapping requests with one
idempotency key, workers racing for jobs and for evidence rows, a crash between
any two statements, a statement that fails and aborts its transaction, a
cancellation racing a worker, retries meeting `max_attempts`. Then come copies
of the store that may be stale, deadlines inside deadlines, migrations that race
and rules stated in several places. `PROJECT.json` lists them with the line
where each one bites and the property that watches it.

## Modules

* `Store` holds the tables as variables: `inv`, `job`, `attempts`, `evidence`,
  `reports`, `audit` and the clock `now`. They contain committed rows only.
  Unique indexes and the `WHERE` and `ORDER BY` of `claim` are predicates. Job
  ids and evidence ids are numbers because the code orders by them; everything
  else is an unordered set.
* `CreateInvestigation`: `call[c]` is the open transaction of request `c`.
  `Insert` and `Replay` are the two results of `INSERT ... ON CONFLICT DO
  NOTHING`; an insert waits for an open transaction with the same key.
  `Enqueue`, `CommitCall` and `AbandonCall` (rollback) follow. `replies`
  remembers what clients were told.
* `Worker`: `tx[w]` is the open transaction of worker `w`: what it has claimed
  and written and not committed. Its actions are the statements of `run_once`
  in their order. Telemetry, baseline, model, parsing and verification touch no
  table and are one step (`AnalysisSucceeds`, `AnalysisRetryable`,
  `AnalysisTerminal`) whose results are chosen freely: any non-empty ledger, any
  citations from it, any error code of `AnalysisErrors`. Each round of
  `evidence.append` is a step of its own, because it may wait for another
  worker. `Commit` publishes everything at once. `StatementError` aborts a
  transaction, after which only `Escape` (the exception leaves `run_once`, the
  unit of work rolls back) is possible; `Crash` is the death of the process.
* `ControlPlane` composes them, with an operator that cancels (`Cancel`: the
  service has no such caller yet, `worker.py:153` is written for one) and the
  clock. It states the properties.
* `Lifecycle` is the abstract specification: one investigation, six indivisible
  steps, no clients, workers or transactions. `ControlPlaneRefinement` maps the
  committed rows to it.
* `MCControlPlane` instantiates them for TLC.
* `ControlPlaneProofs` holds the theorems about it.

The service in one process:

* `MemoryUnitOfWork`: `shared` is the store, a record of tables; `working[p]` the
  copy of task `p`; `holder` and `waiters` are the `asyncio.Lock`. The
  repositories are operators from store to store.
* `MemoryService` puts the HTTP handlers with their authentication and refusals,
  the use cases and `run_once` over it. What lies between two awaits is one
  action. `Interrupt` is the cancellation of a worker's task where it awaits
  telemetry or the provider. It is shown to implement the same `Lifecycle`; `MemoryProofs`
  proves it.
* `ServiceProcess` is one server process over time: `run_worker_loop`, the
  lifespan, the worker's deadline around the client's attempts and their
  deadlines, the counters, writes and commits that fail. A timeout is counted
  where it happens (`WorkerExpires`); the outcome is known then (`Decide`), but
  written before it is counted (`Counts`) and counted before it is committed
  (`Commits`), so that an exception may part any two of these (`WriteFails`,
  `CommitFails`). What an iteration writes is not repeated here. Theorems:
  `ServiceProcessProofs`.
* `Migrations`: several runners over one database; `already` is what a runner
  read, `recorded` and `applied` what is committed. How PostgreSQL treats
  uncommitted objects and keys is external. Theorems: `MigrationsProofs`.
* `Telemetry`: one query after the other over a transport that reads piece by
  piece, the checks of a response, and the mapping to the inputs of the ranking.
  Theorem: `TelemetryProofs`.

The analysis, from the bottom up:

* `Ordering`: what comprehensions, `sorted` and `statistics.median` return. The
  modules below, `Telemetry` and `Rcaeval` use it. An order is a set of pairs, and
  the element in place k is the one with k - 1 others before it: a definition by
  counting, which needs no recursion and can be reasoned about. Lemmas:
  `OrderingProofs`.
* `Baseline`: windows, medians, scale, scores, order and decision of
  `rank_metric_shifts`. `EvidenceLedger` extends it with the compiler, the
  identities and the validator; `Verification` with the parser and the verifier;
  `Serialization` with the serializers and the checks they repeat.
* `Analysis` is `_run_pipeline` up to its first write, stage by stage, with the
  error each stage may end in. Module `Worker` has all this as one step.
* `ChangeLedger`: the log of change events, to which events are added one by
  one, its ledger, hypotheses, verifier and serializers. Log and ledger both sort
  (`Arranged`). The history variable `compiled` keeps the events of the log that
  was compiled, so that properties compare the ledger with them and not with
  itself.
* `Evidence` puts the two side by side and states what holds of both,
  `OwnWorkAccepted` and `AlterationsDetected`. Theorems about all three:
  `EvidenceProofs`.

The evaluation:

* `Rcaeval`: `RcaevalAdapter.load` over a tree of directories, up to the
  replacement of the sidecar file and the clean-up after it, with a crash or a
  failure in each step: the clean-up runs after a replacement too, and an unlink
  that fails makes a load fail (`UnlinkFails`). Theorems: `EvaluationProofs`.
* `Harness`: the tasks of `evaluate_batch` with the model arm, the semaphore,
  retries and scores. Theorem: `EvaluationProofs`.

`MCMemoryService` and `MCTelemetry` instantiate these. `MCEvidence` holds the
instances of `Evidence`, `MCEvaluation` those of `Harness` and
`Rcaeval`: the two halves share no state, so a behaviour is one of either while
the other half keeps still (variable `half`). `ServiceProcess` and `Migrations`
have numbers for constants only and are run directly.

Operators whose comment says *mutant* are plausible mistakes in the definition
that follows them. No specification uses them; each one, put in the place of
that definition, makes TLC report the property it is listed with in
`PROJECT.json`.

### Abstractions

* READ COMMITTED isolation: a statement sees rows committed before it. Locks
  are those of rows updated or inserted by an open transaction.
* A lease's expiry is not modelled: a committed claimed row could be taken by
  any later claim. `NoClaimSurvives` shows that there is none.
* A job whose investigation its tenant cannot read (`OrphanJobs`) exists from
  the start: the foreign key checks the id, not the tenant.
* In `Worker`, payloads, timestamps other than `available_at`, worker ids and
  metrics are left out. Codes of domain errors are one code, `domain_error`, and
  those of rejected proposals `proposal_rejected`.
* A ledger is any set of evidence ids. In the code a ledger has one entry per
  signal; the model's ledgers include those.
* The ranking computes with floats, `Baseline` exactly: medians in halves,
  deviations in quarters, scores as fractions, 1.483 for 1.4826. Rounding and
  the overflow that raises `BaselineComputationError` are left out; `UnitFree`
  is a statement about the formulas.
* SHA-256 over canonical JSON is injective: an evidence id is the record of what
  is hashed. Signal keys and kinds are numbers in the order of the names.
* Text that UTF-8 cannot encode (a lone surrogate, which the constructors let
  through and a JSON answer may contain) is a key of `UnencodableKeys`, a context of
  `UnencodableContexts`, or a document that is not `encodable`. Identities and
  serializers fail on it (`Digest`, `Encodes`), as the code's do.
* Checks that a Python value has its type are left out where no value of the
  model could fail them; a text that is no valid document is one of a few kinds
  of wrong.
* Time stands still in `MemoryService`: a job is due from its creation, no claim is
  committed without the status that ends it, and which of two jobs comes first is
  as arbitrary as their ids.
* In `MemoryService` nothing can remove an investigation, so the paths for a row
  that has disappeared are unreachable there; `Worker` has them.
* Time in `ServiceProcess` passes only during awaits, and no timer that is due is
  passed. The telemetry source takes at most `LoadBound`, which is what `LoadEnds`
  gives for the Prometheus source, though not in seconds. Calls of the database
  take no time: the code gives them no deadline, so that `ShutdownBounded` speaks
  of load and provider call only.
* `urlopen(timeout)` bounds the wait for each read; a body is complete after
  `MaxReads` of them at the latest, since `read` is given the limit on its size.
* In `Harness` what the provider does for a case does not depend on when it is
  asked: that is what makes the summary's independence a question about the code.
  Of the reciprocal ranks the summary has, for each rank, the number of cases, and
  of each ratio numerator and denominator.

## Runs

| Run | Instance | Shows |
|---|---|---|
| `safety` | 2 investigations of one run, 2 workers, 2 attempts, 2 evidence ids, crashes and failing statements anywhere, cancellations | all invariants, `HistoryStable`, and `KeepsPromise`: `Lifecycle` is implemented |
| `idempotency` | 3 clients, 2 tenants with the same key, requests without a key, clients that die, the clock | `OneJobEach`, `RepliesAgree` |
| `liveness` | 2 workers, 2 investigations, an unreadable job, retries, cancellations, no faults | `EveryJobSettles` |
| `poison_job` | one job, rows the database refuses | `FailsClosed` is violated |
| `timeout_attempt` | one job, a provider timeout | `TimeoutRecorded` is violated |
| `retry_backoff` | one job, a retry | `RetryBacksOff` is violated |
| `evidence`, metrics | every course of one signal over five instants beside four courses of another, three policies, and a signal that cannot be encoded; five telemetries with every proposal of up to two predicates, refused and gated ones | `RankingJustified`, `RankingNeutral`, `OwnWorkAccepted`, `AlterationsDetected`, `VerdictJustified` |
| `evidence`, changes | nine events at every boundary of a window, one of them with a key that cannot be encoded, up to three in any order, two contexts, fifteen hypotheses | `ArrivalIrrelevant`, `ChangeVerdictSound`, `EvidenceAccumulates`, `OwnWorkAccepted`, `AlterationsDetected` |
| `memory` | two clients, two tenants with one key, a worker that may come back at once, interruptions | `AcknowledgedKept`, `SucceededHasReport`, `KeepsPromise`, `EveryRequestAnswered` |
| `process` | three iterations, two client attempts within a deadline of three, failing writes and commits | `CountersFollowCommits`, `ShutdownBounded`, `EndsOnDemand` |
| `migrations` | two runners, three files, two faults, four starts | `AppliedOnce`, `RunsComplete`, `RunsEnd` |
| `telemetry` | two queries, bodies at and beyond every limit | `AllOrNothing`, `LoadEnds` |
| `evaluation`, adapter | trees with nested, broken, unlabelled and too many cases, files wrong in each way, a crash or a failure in each step of the sidecar | `CasesFaithful`, `SidecarWhole` |
| `evaluation`, harness | three cases, two places, two retries | `ConcurrencyIrrelevant`, `BatchEnds` |

`CountersFollowCommits` has the escaped timeouts as a history variable: after a
write that failed, `/metrics` shows a timeout without an outcome for good.
`OutcomesAgree`, `AuditTrail` and `KeepsPromise` let a cancellation overwrite the
status of an investigation that has finished, as `set_status` does: nothing in the
service cancels, so that no rule of the code says what should happen.

`safety` checks the type invariant of the control plane as well. A property such as
`OwnWorkAccepted` is the conjunction of named parts, which stand in the modules
they are about, and `PROJECT.json` lists several mutants for it.

The properties are explained where they are defined, at the end of each module
(those of the control plane in `ControlPlane`).

Bounds. Two workers and two investigations are the smallest instance in which
claims race, ledgers overlap and a worker waits for another; two evidence ids
are the smallest in which the order of inserts matters; two attempts give a
retry and an exhaustion. Three clients let two race while a third dies or
replays. `MaxNow = 1` makes two values of `available_at` possible. The theorems
below need none of these bounds.

In the other runs: five instants give three points before the injection and two
after, enough for odd and even medians, a zero deviation and points on every
boundary; two signals give a tie and a margin. Three events suffice for two at
one instant and one in another phase, and `ArrivalIrrelevant` tries all their
orders. Two clients and one worker overlap in every
pair (create and create, create and iteration, read and iteration). A deadline of
three over client attempts of two lets either deadline fire first, depending on
whether the first attempt failed. Three files let a runner die between the first
and the last, and two starts each let the loser come back. Two reads
let a body trickle in. Three cases in two
places leave one waiting, and two retries are met and exceeded.

`CHECK_DEADLOCK FALSE` is set where the behaviour ends by itself: a finished
pipeline, load, batch or process, or bounds on calls that are used up.

Symmetry: investigations, clients and workers are used only as elements of
unordered sets in `safety` and `idempotency`; runs with a liveness property use
none.

Fairness: weak fairness of each worker's `RunOnce`. `run_worker_loop`
(`runtime/server.py:121`) calls `run_once` again and again, survives its
exceptions, and sleeps a bounded time; a run ends because the provider call has
a deadline and statements return. Nothing is assumed of clients, operator,
clock or faults. `EveryJobSettles` is checked without faults: a worker that
crashes every time makes no progress in the code either, since its attempt is
rolled back with it.

`memory` assumes that the event loop runs a task that is ready and that
`asyncio.Lock` serves its waiters in order, as its documentation says.
`process` assumes that the loop and time go on and that the lifespan closes once
the loop is done; nobody is obliged to shut down. `migrations`, `telemetry` and
`evaluation` assume only that what runs goes on, and that a read, a call or a pause
that is due to end does.

### Findings

* `poison_job`: the comment at `worker.py:169-173` says an unclassified
  exception fails the job closed, since otherwise the loop "would reclaim the
  same poison job forever". On PostgreSQL an error among the pipeline's writes
  has aborted the transaction, so `_terminal_fail` raises as well and the job is
  reclaimed forever. A savepoint around the pipeline's writes, or a failure
  recorded in a new transaction, would keep the promise.
* `timeout_attempt`: ADR 0013 line 54 promises a `TIMEOUT` attempt; the code
  records `FAILED`.
* `retry_backoff`: ADR 0013 lines 58-59 promise a backoff; `available_at` is not
  changed.

Four smaller differences between text and code were met while modelling. They are
in the model but have no run of their own, and each ends in a job that failed with
a less useful code, a count that is too low or a load that took longer than
configured; nothing else is affected (`AllOrNothing`, `LoadEnds`,
`CountersFollowCommits`):

* `llm/parsing.py:6` promises an `LLMValidationError` for every rejection; an
  integer literal of more digits than `int()` converts raises a plain `ValueError`
  (`parse_metric_hypothesis` in `Verification`).
* ADR 0015 line 37 says `iec_provider_timeouts_total` counts the provider's
  deadline hits; those of the client's own deadline are not counted
  (`ClientExpires` in `ServiceProcess`).
* `README.md:334` and `prometheus.py:230` call the timeout a deadline per query; it
  bounds each operation of the socket (`Read` and `Wait` in `Telemetry`).
* `prometheus.py:6-8` promises a `PrometheusError` for every malformed body; a
  deeply nested one raises `RecursionError` (`Respond` in `Telemetry`).

## Proofs

Each theorem holds for every choice of the constants that satisfies the named
assumptions of the modules it is about, which TLC evaluates on every run.

### Control plane

Assumptions: `StoreAssumption` (job and evidence ids are numbers; the markers of
absence are no members), `NoRowAssumption`, `RequestsAssumption`,
`WorkerAssumption` (`MaxAttempts` is positive) and `MaxNowAssumption`. Sets may be
infinite.

`ControlPlaneProofs` proves one inductive invariant, `Structure`:

* `TypeOK`;
* `CallShape`: ids drawn by open requests are not committed and not drawn twice;
* `RowShape`: a committed unfinished job is queued, jobs and investigations
  belong together, no two jobs share an investigation;
* `TxShape`: an open transaction holds a queued job that no other one holds, and
  has written exactly what its stage allows; at the commit that is one of the
  five alternatives of `Decided`.

None of the three safety properties is inductive alone: that claims do not
survive needs to know what a transaction may have written when it commits, and
exclusive runs need that two jobs never share an investigation, which in turn
needs the freshness of ids in open requests. The proof has one step per action;
steps that write no committed row go through `LocalStep` and `LocalCall`.
`TypeCorrect`, `ClaimsNeverSurvive` and `RunsExclusive` follow.

Over `Structure`, only three kinds of step touch
committed rows (`StepKinds`). From this follow `AttemptsAreBounded`,
`OutcomesAlwaysAgree` (strengthened with: reports belong to committed
investigations), `AttemptsAreHistory` and the action property
`HistoryIsStable`.

`JobsAreSingle` follows from `Structure`; `RepliesAlwaysAgree` rests on `KeyShape`: while a request that has inserted a key is open, no
committed row and no other open request has that key.

`AuditTrailHolds` follows by the three kinds of step, and the properties of evidence
from one more inductive invariant, `AppendShape`:

* `AppendOK` of each open transaction: it goes through its ledger upwards, every
  entry it has passed was inserted by itself or is stored, and what it has
  inserted is stored nowhere yet;
* `CancelOK`: a cancellation found at the claim is still there, and the worker
  goes no further than to commit it;
* `RowsApart`: no two open transactions have inserted one entry of a tenant's run.

`EvidenceIsUnique` needs `RowsApart`, since two uncommitted rows would both become
visible; `CitationsAlwaysResolve` needs that an entry skipped because it was
stored is still stored at the commit, and that an entry skipped because another
worker held it is never counted as passed before that worker has ended.
`WaitsAlwaysAscend` and `CancelledNeverRun` follow from `AppendShape` directly.

`PromiseIsKept` says that `ControlPlane` implements `Lifecycle`: by `StepKinds` a step is invisible, or it is the commit of a request
(`Open`), of a worker (one of the four ends of an attempt, chosen by `Decided`) or
a cancellation. `JobsNamed` shows that the `CHOOSE` in the mapping means the one
job there is.

### Service in memory

Assumptions: `MemoryServiceAssumption` (finitely many clients and ids, job ids are
numbers, clients and workers are different tasks, tokens belong to tenants, a
request that is not refused names an id) and `NoRowAssumption`.

`MemoryProofs` first shows what each repository operation does to any store, then
that a unit of work, whatever operations it is made of, is one of four changes
(`Changes`: none, `Opens`, `Cancels`, `Ends`), that each keeps a store in order
(`StoreOK`), takes nothing back (`Grows`) and is a step of `Lifecycle`
(`ChangesSeen`). The inductive invariant joins `StoreOK` of the shared store with

* `LockOK`: exactly the holder is inside, and one that has just entered has a copy
  equal to the shared store;
* `AttemptOK`: the copy of a worker that awaits telemetry or the provider differs
  from the shared store by its claim and nothing else;
* `RequestsOK`: the stored investigations and the open creations are together no
  more than the ids, so that `CHOOSE` finds a new one;
* `SeenOK`: what was answered is stored.

`AcknowledgedKept` alone is not inductive: a commit replaces all tables, so that it
takes `LockOK` and `AttemptOK` to see that no other commit is undone. From the
invariant follow `AcknowledgedIsKept`, the action property `SucceededIsReadable`
and `MemoryKeepsPromise`.

### Migrations and server process

`MigrationsProofs`, under `MigrationsAssumption`, for any number of processes,
files, starts and faults. `RunnerOK` says what a process knows of the versions
before the one it is at (applied by it or found recorded), `Apart` that no two
processes have inserted or reported the same version, `OneGetsThrough` that while
nothing was lost all is recorded or there is a process that nothing committed so
far makes fail. `EachAppliedOnce` and `RunsAreComplete` follow. `AppliedOnce` is not
inductive alone: it takes `RunnerOK` and `Apart` to see that a version about to be
committed is not recorded, although `already` may be stale.

`ServiceProcessProofs`, under `ServiceProcessAssumption`, for all deadlines,
attempts and durations. `CountersNeverBehind` is inductive once it is known that
an outcome is pending only between the decision and the commit, and a timeout only
in an iteration that is to end as retried or failed (`Accounts`). `ShutdownIsBounded` rests
on `Clocks`, which relates the time since the shutdown to the time of the load and
of the call under way. `LoopSurvives` is the first conjunct of `EndsOnDemand`.

### Orders

`OrderingProofs` is about any finite set and any strict total order on it:
`Ordered` lists each element once and in order (`OrderedIs`), `Kept` keeps order,
`Sorted` is a stable permutation in order of the keys, `Median2` is bounded by
values of the sequence and follows it under reversal of places and scaling. The
lemmas go by induction on numbers, with the predicate fixed, as the prover allows.

### Change evidence

Assumption: `ChangeAssumption` (events have numbers for kind, key and time, windows
are valid, hypotheses are the documents the caller's types allow). Logs and
hypotheses may be of any length.

The inductive invariant `Recorded` says that the log accepts its events and that a
ledger consists of entries of events of the log, each once; `CompiledFrom` that it
was made of some sequence of exactly the compiled events. `LogArranged` shows that
the log's own sort loses and repeats nothing, `LogEntries` the same of the ledger's
entries. Two sequences with the same elements, both in one strict order, are equal;
`ByOccurrence` is strict on events of different identity, so that any two orders of
the same events give one ledger (`SameLog`), and it holds each of them
(`LedgerIgnoresArrival`). `VerdictFollowsTheLog` goes from the compiled events to
the composition: entries that match and fit are found exactly if such an event was
compiled, and the verdict of a list of truth values is their minimum or maximum
(`ComposedAsKleene`, used for metrics too). `EvidenceNeverLost` needs to know of
which ledger a finding speaks (`Accumulated`): a later ledger has all its entries.

### The analysis

Assumptions: `AnalysisAssumption` (a valid window; policies as
`ScoringPolicy` accepts them, with positive counts and scores and margins that are
not negative; inputs with a positive floor and finitely many points at whole times;
of a proposal what the parser's types guarantee) and `MaxPredicatesAssumption`.
Any number of signals, points and predicates.

Three invariants, each resting on the one before:

* `Held`: each stage works on what the stage before it left. The ledger is bound to
  the ranking (`Bound`: policy and context are its own, its keys differ, every
  candidate of the ranking is the candidate of an entry and vice versa), the
  document passed the parser, what is stored is what was verified.
* `RankedFrom`: what was compiled is the ranking of the inputs and the ledger of
  that, and no two inputs have one key.
* `Agreed`: no stage failed for the content of another stage's result, unless some
  text in it cannot be encoded; the document is valid and its signals are in the
  ledger.

`VerdictsAreJustified` uses `Held` alone: `VerdictJustified` speaks of the ranking,
`verify_hypothesis` of the ledger, and `Bound` is what connects them.
`RankingsAreJustified` and `RankingsAreNeutral` are about `rank_metric_shifts`:
candidates and evaluations correspond, are in order and have medians that separate
halves of their values; turning the inputs gives the same sorted evaluations, since
keys differ; doubling doubles medians, deviations and scale (`Twofold`), and leaves
each score the same fraction, so that order and decision agree (`AllTwins`).
`OwnWorkIsAccepted` shows that the compiler's restatement of the decision rule and
the checks of the serializers hold of what the ranking and the verifier compute,
for metrics and for changes, and that what they refuse is exactly the text that
cannot be encoded (`DigestFails`: an identity exists if and only if its keys and its
context encode; an empty ledger has no identity, so that its context fails where it
is serialised). `AlterationsAreDetected` takes the altered ledgers one
kind at a time (`AlteredOnce`): a ledger that passes the validator has the ids of
its contents, which ties each entry to the context, the window and the policy, and
has the decision its candidates demand.

The theorems about both halves are of `Spec /\ ChangeSpec`, in which the two take
their steps in any order; `MCEvidence` checks behaviours of that kind.

### Telemetry and evaluation

`LoadIsAllOrNothing`, under `TelemetryAssumption` (at least one selector, positive
limits and timeout, bodies of series of samples), for any number of selectors and
bodies of any length. `Loading` says that the series collected are those of the
answers, none missing and none from elsewhere, that there are as many answers as
selectors when the mapping starts, and that inputs exist only of what could be
represented. That the mapping takes over each number in ascending times, each key
once, follows from the lemmas about `Kept` and `Sorted`.

`SidecarIsWhole` needs no assumption. `SidecarInv` says for each step which of the
two files has what; without the clauses that the temporary file is complete before
`os.replace` and gone after it, it is not inductive. A load whose unlink failed may
have replaced the sidecar and still report a failure; what it cannot do is leave
both a new sidecar and a temporary file.

`LoadIsFaithful`, under `RcaevalAssumption` (limits are numbers; a tree has a root,
every directory in it lies in another one of the tree; rows are sequences of
numbers, gaps and bad cells). Two invariants:

* `WalkInv`, with `WalkFacts`: what is pending lies to the right of everything
  found, in reverse order on the stack, below no case; each outermost case is found
  or lies below a pending directory.
* `BatchInv`: each case found was made a case of the batch or skipped, in their
  order, with an id no other one has.

`WalkComplete` is not inductive alone, since it speaks of the end of the walk; that
a window covers all points of its file is a lemma about the least and the greatest
time of a file that parses (`WindowsCover`).

`SummaryIsUnaffected`, under `HarnessAssumption` (`evaluate_batch` refuses a
concurrency of zero; a ledger has one entry per signal; the provider fails a finite
number of times before it answers). `ConcurrencyIrrelevant` speaks of the end and
is not inductive: `Predicting` says that a task that has predicted has predicted
`Outcome` of its case, in which no variable of a task occurs, and that no task has
failed more often than its provider fails or than it may retry. That the list of
services then has the true one where `TrueRank` says is `PlaceOfService`: the
services before it are as many as those with a signal before all of its own, since
the list goes by the first signal of each service.

### Only model-checked

* Liveness under fairness is beyond the prover: `EveryJobSettles`,
  `EveryRequestAnswered`, the second conjunct of `EndsOnDemand`, `RunsEnd`,
  `LoadEnds`, `BatchEnds`.
* The promises behind the findings (`FailsClosed`, `TimeoutRecorded`,
  `RetryBacksOff`) do not hold.

Every other invariant and action property that a run checks is a theorem.

## Plan

Done: every component below but those listed as not modelled is model-checked; the
control plane, the in-memory service, the server process, migrations, telemetry,
the analysis, change evidence, the RCAEval adapter and the harness are proved.

Left: `JobLease`, `claim` with leases as the repository offers it to any caller,
committed claims and expiry included.

## Not modelled

* The text of JSON, CSV and the exposition format, and of prompts: what is
  accepted and kept is modelled, how it is written is not.
* Rounding and overflow of floats.
* The registry of metrics beyond the worker's counters: one thread, that of the
  event loop, records and renders, so that its locks are never contended for.
* `runtime/config.py` and the `build_*` functions of `runtime/server.py`: read once
  at startup, without state.
* `evaluation/rcaeval/manifest.py` (a fixed list with checksums), the baseline arm
  of the harness (a loop over `Baseline`), the in-memory and RCAEval telemetry
  sources (look up a prepared value).
* The real provider, PostgreSQL and the file system: external, modelled by what
  the code relies on.
* `scripts/`, `.kiro/`: demonstrations and checks of the repository's layout.

`PROJECT.json` gives the reason for every part.
