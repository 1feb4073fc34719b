--------------------------- MODULE ServiceProcess ---------------------------
(***************************************************************************)
(* One server process over time: the worker loop inside the lifespan of the *)
(* application (runtime/server.py), the deadlines of the provider call      *)
(* (application/worker.py around llm/gemini.py) and the counters that /metrics *)
(* shows (observability/metrics.py).  What an iteration writes to the       *)
(* database is in module Worker; here a commit succeeds or fails.           *)
(*                                                                         *)
(* Time passes only while something is awaited, and no timer is passed that *)
(* is due.                                                                  *)
(***************************************************************************)
EXTENDS Integers

CONSTANTS
  LoadBound,       \* the longest a telemetry source takes
  Deadline,        \* Worker(deadline)
  ClientDeadline,  \* GeminiLLMClient(deadline), for each of its attempts
  ClientAttempts,  \* GeminiLLMClient(max_attempts)
  MaxAttempts,     \* Worker(max_attempts)
  MaxIterations    \* bound on the iterations that find something to do

ASSUME ServiceProcessAssumption ==
  /\ LoadBound \in Nat
  /\ Deadline \in Nat \ {0} /\ ClientDeadline \in Nat \ {0}
  /\ ClientAttempts \in Nat \ {0} /\ MaxAttempts \in Nat \ {0}
  /\ MaxIterations \in Nat

VARIABLES
  pc,           \* of the worker loop
  lifespan,     \* "serving", "stopping", "closed"
  stop,         \* the stop event
  outcome,      \* the label the iteration is to count, or has at "commit"; "none" before
  expired,      \* the iteration has counted a timeout of the provider
  tries,        \* attempt_count of the job at the head of the queue
  loading,      \* time since the load of telemetry began
  calling,      \* time since the provider was called
  attempt,      \* the client's attempt, and the time since it began
  waited,
  jobs,         \* iec_worker_jobs_total
  timeouts,     \* iec_provider_timeouts_total
  committed, lost,   \* history: outcomes committed, and counted but not committed
  escaped,      \* history: timeouts counted by iterations that counted no outcome
  stopping,     \* history: time since the stop event was set
  iterations

loopVars == <<pc, outcome, expired, tries, loading, calling, attempt, waited, iterations>>
counters == <<jobs, timeouts, committed, lost, escaped>>
vars == <<loopVars, lifespan, stop, counters, stopping>>

Outcomes == {"succeeded", "failed", "retried", "cancelled"}
None == [o \in Outcomes |-> 0]

Init ==
  /\ pc = "check" /\ lifespan = "serving" /\ stop = FALSE
  /\ outcome = "none" /\ expired = FALSE /\ tries = 0
  /\ loading = 0 /\ calling = 0 /\ attempt = 1 /\ waited = 0
  /\ jobs = None /\ timeouts = 0 /\ committed = None /\ lost = None /\ escaped = 0
  /\ stopping = 0 /\ iterations = 0

-----------------------------------------------------------------------------
(* run_worker_loop *)

Goto(stage) ==
  pc' = stage /\ UNCHANGED <<outcome, expired, tries, loading, calling, attempt, waited>>

\* Mutant: the loop does not look at the stop event.
LoopForever ==
  /\ pc = "check"
  /\ Goto("claim")
  /\ UNCHANGED <<iterations, lifespan, stop, counters, stopping>>

CheckStop ==
  /\ pc = "check"
  /\ Goto(IF stop THEN "done" ELSE "claim")
  /\ UNCHANGED <<iterations, lifespan, stop, counters, stopping>>

\* run_once returns False, or an exception escapes before the pipeline begins:
\* from the claim, the read of the investigation or the write of "running".
ClaimsNothing ==
  /\ pc = "claim"
  /\ Goto("sleep")
  /\ UNCHANGED <<iterations, lifespan, stop, counters, stopping>>

\* _sleep_or_stop: the pause is over or the stop event is set.
Wake ==
  /\ pc = "sleep"
  /\ Goto("check")
  /\ UNCHANGED <<iterations, lifespan, stop, counters, stopping>>

-----------------------------------------------------------------------------
(* run_once *)

\* How the iteration ends is known; it is written before it is counted.
Decide(label) == outcome' = label /\ pc' = "write"

\* An investigation that cannot be read is failed without being counted.
Missing ==
  /\ pc = "claim" /\ iterations < MaxIterations
  /\ iterations' = iterations + 1
  /\ Goto("commit")
  /\ UNCHANGED <<lifespan, stop, counters, stopping>>

Cancelled ==
  /\ pc = "claim" /\ iterations < MaxIterations
  /\ iterations' = iterations + 1
  /\ Decide("cancelled")
  /\ UNCHANGED <<expired, tries, loading, calling, attempt, waited, lifespan, stop, counters,
                 stopping>>

Claims ==
  /\ pc = "claim" /\ iterations < MaxIterations
  /\ iterations' = iterations + 1
  /\ pc' = "load" /\ loading' = 0
  /\ UNCHANGED <<outcome, expired, tries, calling, attempt, waited, lifespan, stop, counters,
                 stopping>>

\* The provider is called, with a deadline of the worker's own.
Loads ==
  /\ pc = "load"
  /\ pc' = "call" /\ calling' = 0 /\ attempt' = 1 /\ waited' = 0
  /\ UNCHANGED <<outcome, expired, tries, loading, iterations, lifespan, stop, counters,
                 stopping>>

\* _terminal_fail
LoadFails ==
  /\ pc = "load"
  /\ Decide("failed")
  /\ UNCHANGED <<expired, tries, loading, calling, attempt, waited, iterations, lifespan, stop,
                 counters, stopping>>

\* An answer is accepted and its evidence and report are written; or the client,
\* the parser or the verifier refuses it, or one of those writes fails.
Answers ==
  /\ pc = "call"
  /\ \E label \in {"succeeded", "failed"} : Decide(label)
  /\ UNCHANGED <<expired, tries, loading, calling, attempt, waited, iterations, lifespan, stop,
                 counters, stopping>>

\* Mutant: the worker's deadline starts afresh with every attempt too.
ClientRetriesAfresh ==
  /\ pc = "call" /\ attempt < ClientAttempts
  /\ attempt' = attempt + 1 /\ waited' = 0 /\ calling' = 0
  /\ UNCHANGED <<pc, outcome, expired, tries, loading, iterations, lifespan, stop, counters,
                 stopping>>

\* _generate tries again at once; the deadline of an attempt starts afresh.
ClientRetries ==
  /\ pc = "call" /\ attempt < ClientAttempts
  /\ attempt' = attempt + 1 /\ waited' = 0
  /\ UNCHANGED <<pc, outcome, expired, tries, loading, calling, iterations, lifespan, stop,
                 counters, stopping>>

\* _retry_or_fail
RetryOrFail(n) == Decide(IF n >= MaxAttempts THEN "failed" ELSE "retried")

\* ProviderUnavailableError after the client's last attempt.
ClientGivesUp ==
  /\ pc = "call" /\ attempt = ClientAttempts
  /\ RetryOrFail(tries + 1)
  /\ UNCHANGED <<expired, tries, loading, calling, attempt, waited, iterations, lifespan, stop,
                 counters, stopping>>

\* The client's deadline passes first: ProviderTimeoutError, which the worker
\* treats like an unavailable provider.  Where both are due the worker's wins.
ClientExpires ==
  /\ pc = "call" /\ waited = ClientDeadline /\ calling < Deadline
  /\ RetryOrFail(tries + 1)
  /\ UNCHANGED <<expired, tries, loading, calling, attempt, waited, iterations, lifespan, stop,
                 counters, stopping>>

\* asyncio.timeout around the call: the timeout is counted at once, before
\* anything is written.
WorkerExpires ==
  /\ pc = "call" /\ calling = Deadline
  /\ timeouts' = timeouts + 1 /\ expired' = TRUE
  /\ RetryOrFail(tries + 1)
  /\ UNCHANGED <<tries, loading, calling, attempt, waited, iterations, lifespan, stop, stopping,
                 jobs, committed, lost, escaped>>

\* Mutant: a final failure is not counted.
CountsNoFailure ==
  /\ pc = "write"
  /\ jobs' = IF outcome = "failed" THEN jobs ELSE [jobs EXCEPT ![outcome] = @ + 1]
  /\ pc' = "commit"
  /\ UNCHANGED <<outcome, expired, tries, loading, calling, attempt, waited, iterations,
                 lifespan, stop, stopping, timeouts, committed, lost, escaped>>

\* The job's status and the attempt are written, and Counter.inc counts the
\* outcome: after those writes and before the commit.
Counts ==
  /\ pc = "write"
  /\ jobs' = [jobs EXCEPT ![outcome] = @ + 1]
  /\ pc' = "commit"
  /\ UNCHANGED <<outcome, expired, tries, loading, calling, attempt, waited, iterations,
                 lifespan, stop, stopping, timeouts, committed, lost, escaped>>

\* One of those writes fails: the exception escapes run_once, the transaction is
\* rolled back, and no outcome is counted.  A timeout stays counted.
WriteFails ==
  /\ pc = "write"
  /\ escaped' = IF expired THEN escaped + 1 ELSE escaped
  /\ outcome' = "none" /\ expired' = FALSE /\ pc' = "sleep"
  /\ UNCHANGED <<tries, loading, calling, attempt, waited, iterations, lifespan, stop, stopping,
                 jobs, timeouts, committed, lost>>

\* A job that goes back to the queue keeps its attempts.
Commits ==
  /\ pc = "commit"
  /\ committed' = IF outcome = "none" THEN committed
                  ELSE [committed EXCEPT ![outcome] = @ + 1]
  /\ tries' = IF outcome = "retried" THEN tries + 1 ELSE 0
  /\ outcome' = "none" /\ expired' = FALSE /\ pc' = "check"
  /\ UNCHANGED <<loading, calling, attempt, waited, iterations, lifespan, stop, stopping,
                 jobs, timeouts, lost, escaped>>

\* Mutant: the loop ends with the exception.
CommitKillsLoop ==
  /\ pc = "commit"
  /\ lost' = IF outcome = "none" THEN lost ELSE [lost EXCEPT ![outcome] = @ + 1]
  /\ outcome' = "none" /\ expired' = FALSE /\ pc' = "done"
  /\ UNCHANGED <<tries, loading, calling, attempt, waited, iterations, lifespan, stop, stopping,
                 jobs, timeouts, committed, escaped>>

\* The commit fails, or a write between the count and it does (the audit row of a
\* failure; the job's status, where the investigation is missing): the exception
\* escapes run_once, the transaction is rolled back, and the loop goes on after a
\* pause.
CommitFails ==
  /\ pc = "commit"
  /\ lost' = IF outcome = "none" THEN lost ELSE [lost EXCEPT ![outcome] = @ + 1]
  /\ outcome' = "none" /\ expired' = FALSE /\ pc' = "sleep"
  /\ UNCHANGED <<tries, loading, calling, attempt, waited, iterations, lifespan, stop, stopping,
                 jobs, timeouts, committed, escaped>>

-----------------------------------------------------------------------------
(* The lifespan, and time. *)

\* The application shuts down: stop.set(), then the task is awaited.
Shutdown ==
  /\ lifespan = "serving"
  /\ lifespan' = "stopping" /\ stop' = TRUE
  /\ UNCHANGED <<loopVars, counters, stopping>>

Close ==
  /\ lifespan = "stopping" /\ pc = "done"
  /\ lifespan' = "closed"
  /\ UNCHANGED <<loopVars, stop, counters, stopping>>

Tick ==
  /\ \/ pc = "load" /\ loading < LoadBound
     \/ pc = "call" /\ calling # Deadline /\ waited # ClientDeadline
  /\ loading' = IF pc = "load" THEN loading + 1 ELSE loading
  /\ calling' = IF pc = "call" THEN calling + 1 ELSE calling
  /\ waited' = IF pc = "call" THEN waited + 1 ELSE waited
  /\ stopping' = IF stop THEN stopping + 1 ELSE stopping
  /\ UNCHANGED <<pc, outcome, expired, tries, attempt, iterations, lifespan, stop, counters>>

Iterate ==
  \/ CheckStop \/ ClaimsNothing \/ Wake
  \/ Missing \/ Cancelled \/ Claims
  \/ Loads \/ LoadFails
  \/ Answers \/ ClientRetries \/ ClientGivesUp \/ ClientExpires \/ WorkerExpires
  \/ Counts \/ WriteFails \/ Commits \/ CommitFails

Next == Iterate \/ Tick \/ Shutdown \/ Close

Spec == Init /\ [][Next]_vars

\* The event loop goes on and so does time; nobody is obliged to shut down.
Fairness == WF_vars(Iterate) /\ WF_vars(Tick) /\ WF_vars(Close)

FairSpec == Spec /\ Fairness

-----------------------------------------------------------------------------
(* Properties. *)

\* The outcome counter is never behind the database: it is ahead by the outcome
\* that is about to be committed and by those whose commit failed, and by
\* nothing else.  A timeout that is counted is counted as an outcome as well,
\* save while its outcome is written and where that write failed: what /metrics
\* shows of timeouts and of outcomes then differs for good (Counter.inc in
\* _run_pipeline before the writes, in _retry_or_fail and _terminal_fail after
\* them and before uow.commit).
CountersFollowCommits ==
  /\ \A o \in Outcomes :
       jobs[o] = committed[o] + lost[o] + (IF pc = "commit" /\ outcome = o THEN 1 ELSE 0)
  /\ timeouts <= jobs["retried"] + jobs["failed"] + escaped
                   + (IF pc = "write" /\ expired THEN 1 ELSE 0)

\* The load and the provider call of an iteration last no longer than the
\* telemetry source's bound and the worker's deadline together, however often the
\* client tries again: of the time shutdown waits they take no more than that
\* (asyncio.timeout in _run_pipeline, _lifespan).  The awaits of the database,
\* which the code gives no deadline, take no time here.
ShutdownBounded ==
  /\ stopping <= LoadBound + Deadline
  /\ calling <= Deadline

\* The loop ends when it is asked to and only then: no failure of an iteration
\* ends it while the service runs ("one bad job cannot wedge the process"), and a
\* shutdown completes (run_worker_loop, _lifespan).
EndsOnDemand ==
  /\ [](lifespan = "serving" => pc # "done")
  /\ lifespan = "stopping" ~> lifespan = "closed"

=============================================================================
