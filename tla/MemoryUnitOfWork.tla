-------------------------- MODULE MemoryUnitOfWork --------------------------
(***************************************************************************)
(* persistence/memory.py: tables in memory and a unit of work that copies   *)
(* them, works on the copy under one lock for all, and puts the copy in     *)
(* their place at commit.                                                   *)
(*                                                                         *)
(* A store is a value: the record of its tables.  The repositories are      *)
(* operators from a store to a store.  asyncio.Lock serves its waiters in   *)
(* the order of their arrival.                                              *)
(***************************************************************************)
EXTENDS Integers, Sequences, FiniteSets

CONSTANTS
  Invs, Jobs, Evidence,     \* ids; those of jobs are numbers
  Procs,                    \* the tasks that open units of work
  NoRow, NoProc

VARIABLES
  shared,     \* the store all units of work share
  working,    \* the copy of each task that has a unit of work
  holder,     \* the task that holds the lock
  waiters     \* the tasks waiting for it, in the order of their arrival

memoryVars == <<shared, working, holder, waiters>>

AuditAction == {"investigation.created", "report.persisted", "investigation.failed"}

EmptyStore ==
  [inv |-> [i \in Invs |-> NoRow], job |-> [j \in Jobs |-> NoRow],
   attempts |-> {}, evidence |-> {}, reports |-> [i \in Invs |-> NoRow],
   audit |-> [i \in Invs |-> [a \in AuditAction |-> 0]]]

-----------------------------------------------------------------------------
(* Repositories. *)

\* _by_key: the investigation a tenant's key already names.
ByKey(store, tenant, key) ==
  {i \in Invs : /\ key # NoRow /\ store.inv[i] # NoRow
                /\ store.inv[i].tenant = tenant /\ store.inv[i].key = key}

Visible(store, tenant, i) == store.inv[i] # NoRow /\ store.inv[i].tenant = tenant

InsertInvestigation(store, i, row) == [store EXCEPT !.inv[i] = row]
SetInvestigation(store, i, status) == [store EXCEPT !.inv[i].status = status]

EnqueueJob(store, j, row) == [store EXCEPT !.job[j] = row]
SetJob(store, j, status) == [store EXCEPT !.job[j].status = status]

\* A claim is committed only with the status that ends it, so that no lease is
\* ever found: the second case of _claimable stays without effect.
ClaimableJobs(store, now) ==
  {j \in Jobs : /\ store.job[j] # NoRow
                /\ \/ store.job[j].status = "queued" /\ store.job[j].available_at <= now
                   \/ store.job[j].status = "claimed" /\ store.job[j].lease <= now}

\* The first by (available_at, id).
FirstJob(store, now) ==
  CHOOSE j \in ClaimableJobs(store, now) :
    \A k \in ClaimableJobs(store, now) :
      \/ store.job[j].available_at < store.job[k].available_at
      \/ store.job[j].available_at = store.job[k].available_at /\ j <= k

ClaimJob(store, j, now, lease) ==
  [store EXCEPT !.job[j].status = "claimed", !.job[j].lease = now + lease,
                !.job[j].attempt_count = @ + 1]

\* record raises IdempotencyConflictError where the number is taken.
AttemptTaken(store, j, n) == \E a \in store.attempts : a.job = j /\ a.number = n
AddAttempt(store, j, n, outcome) ==
  [store EXCEPT !.attempts = @ \cup {[job |-> j, number |-> n, outcome |-> outcome]}]

\* append keeps the entry that is there.
AppendEvidence(store, i, ids) ==
  LET row == store.inv[i]
      there(e) == \E x \in store.evidence : x.tenant = row.tenant /\ x.run = row.run /\ x.id = e
  IN [store EXCEPT !.evidence = @ \cup
        {[tenant |-> row.tenant, run |-> row.run, id |-> e, inv |-> i] :
           e \in {x \in ids : ~there(x)}}]

PutReport(store, i, ledger) == [store EXCEPT !.reports[i] = [about |-> ledger]]
AddAudit(store, i, action) == [store EXCEPT !.audit[i][action] = @ + 1]

-----------------------------------------------------------------------------
(* The unit of work. *)

MemoryInit(store) ==
  /\ shared = store
  /\ working = [p \in Procs |-> NoRow]
  /\ holder = NoProc /\ waiters = <<>>

\* InMemoryUnitOfWork(shared, lock), then lock.acquire: a copy is taken now,
\* another one when the lock is granted.
Arrive(p) ==
  /\ working' = [working EXCEPT ![p] = shared]
  /\ waiters' = Append(waiters, p)
  /\ UNCHANGED <<shared, holder>>

\* Mutants: the lock is not awaited; the copy taken at the construction is used;
\* the last to arrive is served first.
EnterUnlocked(p) ==
  /\ waiters # <<>> /\ Head(waiters) = p
  /\ holder' = p /\ waiters' = Tail(waiters)
  /\ working' = [working EXCEPT ![p] = shared]
  /\ UNCHANGED shared
EnterStale(p) ==
  /\ holder = NoProc /\ waiters # <<>> /\ Head(waiters) = p
  /\ holder' = p /\ waiters' = Tail(waiters)
  /\ UNCHANGED <<shared, working>>
EnterLast(p) ==
  /\ holder = NoProc /\ waiters # <<>> /\ waiters[Len(waiters)] = p
  /\ holder' = p /\ waiters' = SubSeq(waiters, 1, Len(waiters) - 1)
  /\ working' = [working EXCEPT ![p] = shared]
  /\ UNCHANGED shared

Enter(p) ==
  /\ holder = NoProc /\ waiters # <<>> /\ Head(waiters) = p
  /\ holder' = p /\ waiters' = Tail(waiters)
  /\ working' = [working EXCEPT ![p] = shared]
  /\ UNCHANGED shared

\* The task goes on working on its copy.
Work(p, store) ==
  /\ working' = [working EXCEPT ![p] = store]
  /\ UNCHANGED <<shared, holder, waiters>>

\* commit adopts the copy, and __aexit__ releases the lock.
CommitAndLeave(p, store) ==
  /\ shared' = store
  /\ working' = [working EXCEPT ![p] = NoRow]
  /\ holder' = NoProc
  /\ UNCHANGED waiters

\* Mutant: what was done so far is kept.
LeaveAdopting(p) ==
  /\ shared' = working[p] /\ holder' = NoProc
  /\ working' = [working EXCEPT ![p] = NoRow]
  /\ UNCHANGED waiters

\* __aexit__ without commit: the copy is dropped.
Leave(p) ==
  /\ holder' = NoProc
  /\ working' = [working EXCEPT ![p] = NoRow]
  /\ UNCHANGED <<shared, waiters>>

=============================================================================
