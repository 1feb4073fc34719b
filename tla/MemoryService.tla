---------------------------- MODULE MemoryService ----------------------------
(***************************************************************************)
(* The service in one process, over the unit of work in memory: the HTTP    *)
(* handlers (api/app.py, api/auth.py) with the use cases behind them, and   *)
(* Worker.run_once, which keeps the lock while it waits for telemetry and   *)
(* for the provider.  Tasks of one event loop change hands only where they  *)
(* await something, so what lies between two awaits is one action.          *)
(***************************************************************************)
EXTENDS MemoryUnitOfWork

CONSTANTS
  Clients, Workers,
  Tenants, Tokens,      \* Tokens maps bearer tokens to tenants
  Requests,             \* [kind, token, body, key, inv]
  MaxAttempts

\* Ids that requests carry have passed _investigation_id, unless they are refused.
ASSUME MemoryServiceAssumption ==
  /\ Procs = Clients \cup Workers /\ Clients \cap Workers = {} /\ NoProc \notin Procs
  /\ IsFiniteSet(Clients) /\ IsFiniteSet(Invs) /\ Jobs \subseteq Nat
  /\ MaxAttempts \in Nat \ {0}
  /\ \A t \in DOMAIN Tokens : Tokens[t] \in Tenants
  /\ \A r \in Requests : r.kind = "create" \/ r.body = "invalid" \/ r.inv \in Invs

InvestigationStatus == {"pending", "running", "succeeded", "failed", "cancelled"}
JobStatus == {"queued", "claimed", "running", "succeeded", "failed", "cancelled"}

InvestigationRecord ==
  [tenant : Tenants, key : {r.key : r \in Requests}, run : {"run"},
   status : InvestigationStatus]
JobRecord ==
  [inv : Invs, tenant : Tenants, status : JobStatus, available_at : Nat, lease : Nat,
   attempt_count : Nat]
ReportRecord == [about : SUBSET Evidence]

\* The marker of an absent row is neither a row nor a request.
ASSUME NoRowAssumption ==
  /\ NoRow \notin InvestigationRecord /\ NoRow \notin JobRecord
  /\ NoRow \notin ReportRecord /\ NoRow \notin Requests

VARIABLES
  pc,        \* of every task
  request,   \* the request each client's handler is serving
  reply,     \* the answer given in the last step, NoReply if none was
  current,   \* the job each worker has claimed, NoRow if none
  seen       \* history: what was answered, as facts

serviceVars == <<pc, request, reply, current, seen>>
vars == <<memoryVars, serviceVars>>

\* A job can be claimed from the moment it is enqueued and no claim is committed
\* without the status that ends it, so that time keeps no job back; which of two
\* jobs is first is as arbitrary as their ids.  The clock stands still.
Now == 0
Lease == 1
NoReply == [code |-> 0, inv |-> NoRow]
Silent == reply' = NoReply

Init ==
  /\ MemoryInit(EmptyStore)
  /\ pc = [p \in Procs |-> "idle"]
  /\ request = [c \in Clients |-> NoRow]
  /\ reply = NoReply
  /\ current = [w \in Workers |-> NoRow]
  /\ seen = {}

-----------------------------------------------------------------------------
(* The HTTP handlers. *)

\* authenticate and tenant_for.
Authenticated(r) == r.token \in DOMAIN Tokens

\* The answer given without a unit of work, 0 if there is none yet.  A body of
\* the wrong shape, a blank or long key and a window out of order are refused;
\* an id that is no UUID is not found.
Refusal(r) ==
  CASE ~Authenticated(r) -> 401
    [] Authenticated(r) /\ r.body = "invalid" -> IF r.kind = "create" THEN 422 ELSE 404
    [] OTHER -> 0

Answer(c, code, i, fact) ==
  /\ reply' = [code |-> code, inv |-> i]
  /\ request' = [request EXCEPT ![c] = NoRow]
  /\ pc' = [pc EXCEPT ![c] = "idle"]
  /\ seen' = seen \cup fact

Refuse(c) ==
  /\ pc[c] = "idle"
  /\ \E r \in Requests : Refusal(r) # 0 /\ Answer(c, Refusal(r), NoRow, {})
  /\ UNCHANGED <<memoryVars, current>>

\* The bound on investigations: as many requests are accepted as there are ids.
IdsLeft ==
  Cardinality({i \in Invs : shared.inv[i] # NoRow})
    + Cardinality({c \in Clients : request[c] # NoRow /\ request[c].kind = "create"})
  < Cardinality(Invs)

Receive(c) ==
  /\ pc[c] = "idle"
  /\ \E r \in Requests :
       /\ Refusal(r) = 0
       /\ r.kind = "create" => IdsLeft
       /\ request' = [request EXCEPT ![c] = r]
  /\ Arrive(c)
  /\ pc' = [pc EXCEPT ![c] = "waiting"]
  /\ Silent
  /\ UNCHANGED <<current, seen>>

Granted(p) ==
  /\ pc[p] = "waiting"
  /\ Enter(p)
  /\ pc' = [pc EXCEPT ![p] = "entered"]
  /\ Silent /\ UNCHANGED <<request, current, seen>>

Row(tenant, key) == [tenant |-> tenant, key |-> key, run |-> "run", status |-> "pending"]
QueuedJob(i, tenant) ==
  [inv |-> i, tenant |-> tenant, status |-> "queued", available_at |-> Now, lease |-> 0,
   attempt_count |-> 0]

\* CreateInvestigation.execute: the stored investigation of the key, or a new
\* one with its job and its audit record.
Create(c) ==
  /\ pc[c] = "entered" /\ request[c].kind = "create"
  /\ LET r == request[c]
         tenant == Tokens[r.token]
         store == working[c]
         old == ByKey(store, tenant, r.key) IN
       \/ \E i \in old :
            /\ CommitAndLeave(c, store)
            /\ Answer(c, 202, i, {<<"created", i, tenant, r.key>>})
       \/ \E j \in Jobs :
            LET i == CHOOSE x \in Invs : store.inv[x] = NoRow IN
            /\ old = {} /\ store.job[j] = NoRow
            /\ CommitAndLeave(c,
                 AddAudit(EnqueueJob(InsertInvestigation(store, i, Row(tenant, r.key)),
                                     j, QueuedJob(i, tenant)),
                          i, "investigation.created"))
            /\ Answer(c, 202, i, {<<"created", i, tenant, r.key>>})
  /\ UNCHANGED current

\* GetInvestigationStatus.execute
ReadStatus(c) ==
  /\ pc[c] = "entered" /\ request[c].kind = "status"
  /\ LET i == request[c].inv IN
       IF Visible(working[c], Tokens[request[c].token], i)
       THEN Answer(c, 200, i,
                   {<<s, i>> : s \in {working[c].inv[i].status} \cap {"succeeded"}})
       ELSE Answer(c, 404, i, {})
  /\ Leave(c)
  /\ UNCHANGED current

\* GetReport.execute
ReadReport(c) ==
  /\ pc[c] = "entered" /\ request[c].kind = "report"
  /\ LET i == request[c].inv IN
       IF ~Visible(working[c], Tokens[request[c].token], i) THEN Answer(c, 404, i, {})
       ELSE IF working[c].reports[i] = NoRow THEN Answer(c, 409, i, {})
       ELSE Answer(c, 200, i, {<<"report", i>>})
  /\ Leave(c)
  /\ UNCHANGED current

\* A caller of the persistence boundary cancels.
CancelInvestigation(c) ==
  /\ pc[c] = "entered" /\ request[c].kind = "cancel"
  /\ LET i == request[c].inv IN
       IF Visible(working[c], Tokens[request[c].token], i)
       THEN /\ CommitAndLeave(c, SetInvestigation(working[c], i, "cancelled"))
            /\ Answer(c, 200, i, {})
       ELSE Leave(c) /\ Answer(c, 404, i, {})
  /\ UNCHANGED current

-----------------------------------------------------------------------------
(* Worker.run_once *)

Begin(w) ==
  /\ pc[w] = "idle"
  /\ Arrive(w)
  /\ pc' = [pc EXCEPT ![w] = "waiting"]
  /\ Silent /\ UNCHANGED <<request, current, seen>>

End(w) ==
  /\ pc' = [pc EXCEPT ![w] = "idle"]
  /\ current' = [current EXCEPT ![w] = NoRow]
  /\ Silent /\ UNCHANGED <<request, seen>>

FindsNothing(w) ==
  /\ pc[w] = "entered"
  /\ ClaimableJobs(working[w], Now) = {}
  /\ CommitAndLeave(w, working[w])
  /\ End(w)

\* claim, get and set_status(RUNNING), up to the load of telemetry.
Claims(w) ==
  /\ pc[w] = "entered"
  /\ ClaimableJobs(working[w], Now) # {}
  /\ LET j == FirstJob(working[w], Now)
         store == ClaimJob(working[w], j, Now, Lease)
         i == store.job[j].inv IN
       IF store.inv[i].status = "cancelled"
       THEN CommitAndLeave(w, SetJob(store, j, "cancelled")) /\ End(w)
       ELSE /\ Work(w, SetInvestigation(store, i, "running"))
            /\ current' = [current EXCEPT ![w] = j]
            /\ pc' = [pc EXCEPT ![w] = "loading"]
            /\ Silent /\ UNCHANGED <<request, seen>>

\* _record_attempt, commit and the end of the scope.  A conflict escapes: the
\* copy is dropped.
Finish(w, store, outcome) ==
  LET j == current[w]
      n == store.job[j].attempt_count IN
  /\ IF AttemptTaken(store, j, n) THEN Leave(w)
     ELSE CommitAndLeave(w, AddAttempt(store, j, n, outcome))
  /\ End(w)

Failed(store, j) ==
  LET i == store.job[j].inv IN
  AddAudit(SetJob(SetInvestigation(store, i, "failed"), j, "failed"), i, "investigation.failed")

\* Telemetry that is unavailable, and anything the ledger refuses, is terminal.
LoadFails(w) ==
  /\ pc[w] = "loading"
  /\ Finish(w, Failed(working[w], current[w]), "failed")

Loads(w) ==
  /\ pc[w] = "loading"
  /\ pc' = [pc EXCEPT ![w] = "proposing"]
  /\ Silent /\ UNCHANGED <<memoryVars, request, current, seen>>

\* The provider answers, and the answer is refused.
ProposalRefused(w) ==
  /\ pc[w] = "proposing"
  /\ Finish(w, Failed(working[w], current[w]), "failed")

\* The provider fails or the deadline passes: _retry_or_fail.
ProviderFails(w) ==
  /\ pc[w] = "proposing"
  /\ LET j == current[w] IN
       Finish(w, IF working[w].job[j].attempt_count >= MaxAttempts
                 THEN Failed(working[w], j) ELSE SetJob(working[w], j, "queued"),
              "failed")

\* The writes of _run_pipeline.  A report that is there already raises after
\* the evidence was appended: the evidence is kept and the attempt fails.
Publishes(w) ==
  /\ pc[w] = "proposing"
  /\ \E ledger \in (SUBSET Evidence) \ {{}} :
       LET j == current[w]
           i == working[w].job[j].inv
           store == AppendEvidence(working[w], i, ledger) IN
       IF store.reports[i] # NoRow THEN Finish(w, Failed(store, j), "failed")
       ELSE Finish(w, SetJob(AddAudit(SetInvestigation(PutReport(store, i, ledger), i, "succeeded"),
                                      i, "report.persisted"), j, "succeeded"),
                   "succeeded")

\* The task is cancelled where it waits: CancelledError passes through the
\* handlers of run_once and the scope ends without a commit.
Interrupt(w) ==
  /\ pc[w] \in {"loading", "proposing"}
  /\ Leave(w)
  /\ End(w)

-----------------------------------------------------------------------------

Handle(c) == Create(c) \/ ReadStatus(c) \/ ReadReport(c) \/ CancelInvestigation(c)

Iterate(w) ==
  \/ FindsNothing(w) \/ Claims(w)
  \/ LoadFails(w) \/ Loads(w)
  \/ ProposalRefused(w) \/ ProviderFails(w) \/ Publishes(w)

Next ==
  \/ \E c \in Clients : Refuse(c) \/ Receive(c) \/ Handle(c)
  \/ \E p \in Procs : Granted(p)
  \/ \E w \in Workers : Begin(w) \/ Iterate(w) \/ Interrupt(w)

Spec == Init /\ [][Next]_vars

\* The event loop runs, and waiting for telemetry and the provider ends: the
\* sources and the worker have deadlines.  At most one task can go on at a time,
\* the holder of the lock or the one it is handed to.  Requests need not come and
\* the worker need not be started.
Progress ==
  \/ \E p \in Procs : Granted(p)
  \/ \E c \in Clients : Handle(c)
  \/ \E w \in Workers : Iterate(w)

Fairness == WF_vars(Progress)

FairSpec == Spec /\ Fairness

-----------------------------------------------------------------------------
(* Properties. *)

\* What a client was told holds on: an investigation whose id was returned is
\* there, the tenant's own, with one job, the only one of its key, and a report
\* that was read stays readable, however requests and iterations of the worker
\* overlap (InMemoryUnitOfWork.commit replaces all tables at once, so that a
\* stale copy would undo other commits).
AcknowledgedKept ==
  \A f \in seen :
    /\ f[1] = "created" =>
         /\ shared.inv[f[2]] # NoRow
         /\ shared.inv[f[2]].tenant = f[3] /\ shared.inv[f[2]].key = f[4]
         /\ Cardinality({j \in Jobs : shared.job[j] # NoRow /\ shared.job[j].inv = f[2]}) = 1
         /\ f[4] # NoRow => ByKey(shared, f[3], f[4]) = {f[2]}
    /\ f[1] = "report" => shared.reports[f[2]] # NoRow

\* Whoever has read "succeeded" can read the report: no later request for it is
\* answered 409 (GetReport, _run_pipeline).
SucceededHasReport ==
  [][reply'.code = 409 => <<"succeeded", reply'.inv>> \notin seen]_vars

\* Every request that was received is answered: the lock is always released
\* and nobody is overtaken for ever (asyncio.Lock, __aexit__).
EveryRequestAnswered == \A c \in Clients : pc[c] = "waiting" ~> pc[c] = "idle"

JobOf(i) == CHOOSE j \in Jobs : shared.job[j] # NoRow /\ shared.job[j].inv = i
Opened(i) == shared.inv[i] # NoRow

VisibleStatus == [i \in Invs |-> IF Opened(i) THEN shared.inv[i].status ELSE "absent"]
VisibleWork == [i \in Invs |-> IF Opened(i) THEN shared.job[JobOf(i)].status ELSE "absent"]
VisibleUsed == [i \in Invs |-> IF Opened(i) THEN shared.job[JobOf(i)].attempt_count ELSE 0]
VisibleReport == [i \in Invs |-> shared.reports[i] # NoRow]

Promise == INSTANCE Lifecycle WITH
  status <- VisibleStatus, work <- VisibleWork,
  used <- VisibleUsed, published <- VisibleReport

\* The service in memory keeps the same promise as the one over PostgreSQL:
\* the shared tables change as Lifecycle says.
KeepsPromise == Promise!Spec

=============================================================================
