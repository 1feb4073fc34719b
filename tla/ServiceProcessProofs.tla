------------------------ MODULE ServiceProcessProofs ------------------------
(***************************************************************************)
(* The worker loop of one process, its counters and its shutdown, for every *)
(* deadline, number of attempts and duration of the telemetry source.       *)
(***************************************************************************)
EXTENDS ServiceProcess, TLAPS

-----------------------------------------------------------------------------
(* Counters. *)

CounterShape ==
  /\ outcome \in Outcomes \cup {"none"} /\ expired \in BOOLEAN
  /\ jobs \in [Outcomes -> Nat] /\ committed \in [Outcomes -> Nat] /\ lost \in [Outcomes -> Nat]
  /\ timeouts \in Nat /\ escaped \in Nat

\* An outcome is decided before it is written and none is left after the
\* transaction; a timeout is one of those outcomes that a timeout may have.
Accounts ==
  /\ CounterShape
  /\ pc \notin {"write", "commit"} => outcome = "none" /\ expired = FALSE
  /\ pc = "write" => outcome \in Outcomes
  /\ pc = "write" /\ expired => outcome \in {"retried", "failed"}
  /\ CountersFollowCommits

LEMMA AccountsInit == Init => Accounts
<1> SUFFICES ASSUME Init PROVE Accounts
  OBVIOUS
<1>1. expired \in BOOLEAN /\ (expired = FALSE)
  BY Zenon DEF Init
<1>2. /\ pc = "check" /\ outcome = "none" /\ timeouts = 0 /\ escaped = 0
      /\ jobs = [o \in Outcomes |-> 0] /\ committed = [o \in Outcomes |-> 0]
      /\ lost = [o \in Outcomes |-> 0]
  BY DEF Init, None
<1>3. CounterShape
  BY <1>1, <1>2 DEF CounterShape
<1>4. CountersFollowCommits
  BY <1>2 DEF CountersFollowCommits, Outcomes
<1> QED
  BY <1>1, <1>2, <1>3, <1>4, Zenon DEF Accounts

\* How an iteration ends is decided, and a timeout perhaps counted.
LEMMA DecideStep ==
  ASSUME Accounts, pc \notin {"write", "commit"}, NEW label \in Outcomes, Decide(label),
         UNCHANGED <<jobs, committed, lost, escaped>>,
         \/ UNCHANGED <<timeouts, expired>>
         \/ timeouts' = timeouts + 1 /\ expired' = TRUE /\ label \in {"retried", "failed"}
  PROVE  Accounts'
<1>1. outcome' = label /\ pc' = "write" /\ expired = FALSE /\ expired' \in BOOLEAN
  BY DEF Accounts, Decide
<1>2. CounterShape'
  BY <1>1 DEF Accounts, CounterShape
<1>3. \A o \in Outcomes : jobs[o] = committed[o] + lost[o]
  BY DEF Accounts, CounterShape, CountersFollowCommits
<1>4. timeouts <= jobs["retried"] + jobs["failed"] + escaped
  <2>1. timeouts <= jobs["retried"] + jobs["failed"] + escaped + 0
    BY DEF Accounts, CountersFollowCommits
  <2>2. jobs["retried"] \in Nat /\ jobs["failed"] \in Nat /\ escaped \in Nat /\ timeouts \in Nat
    BY DEF Accounts, CounterShape, Outcomes
  <2> QED
    BY <2>1, <2>2
<1>5. timeouts' <= jobs'["retried"] + jobs'["failed"] + escaped'
                     + (IF pc' = "write" /\ expired' THEN 1 ELSE 0)
  <2>1. jobs["retried"] \in Nat /\ jobs["failed"] \in Nat /\ escaped \in Nat /\ timeouts \in Nat
    BY DEF Accounts, CounterShape, Outcomes
  <2>2. CASE UNCHANGED <<timeouts, expired>>
    BY <1>1, <1>4, <2>1, <2>2
  <2>3. CASE timeouts' = timeouts + 1 /\ expired' = TRUE
    BY <1>1, <1>4, <2>1, <2>3
  <2> QED
    BY <2>2, <2>3
<1>6. \A o \in Outcomes :
        jobs'[o] = committed'[o] + lost'[o] + (IF pc' = "commit" /\ outcome' = o THEN 1 ELSE 0)
  BY <1>1, <1>3 DEF Accounts, CounterShape
<1>7. CountersFollowCommits'
  BY <1>5, <1>6 DEF CountersFollowCommits
<1>8. expired' => label \in {"retried", "failed"}
  BY <1>1
<1> QED
  BY <1>1, <1>2, <1>7, <1>8 DEF Accounts

\* What was written is counted.
LEMMA CountStep == Accounts /\ Counts => Accounts'
<1> SUFFICES ASSUME Accounts, Counts PROVE Accounts'
  OBVIOUS
<1>1. PICK label \in Outcomes : outcome = label
  BY DEF Accounts, Counts
<1>2. /\ pc = "write" /\ pc' = "commit" /\ outcome' = label
      /\ jobs \in [Outcomes -> Nat] /\ jobs' = [jobs EXCEPT ![label] = jobs[label] + 1]
      /\ UNCHANGED <<expired, timeouts, committed, lost, escaped>>
  BY <1>1 DEF Accounts, CounterShape, Counts
<1>3. CounterShape'
  BY <1>2 DEF Accounts, CounterShape
<1>4. /\ jobs'[label] = jobs[label] + 1
      /\ \A o \in Outcomes : o # label => jobs'[o] = jobs[o]
  BY <1>2
<1>5. ASSUME NEW o \in Outcomes
      PROVE  jobs'[o] = committed[o] + lost[o] + (IF label = o THEN 1 ELSE 0)
  <2>1. jobs[o] = committed[o] + lost[o]
    BY <1>2 DEF Accounts, CounterShape, CountersFollowCommits
  <2> QED
    BY <1>2, <1>4, <2>1 DEF Accounts, CounterShape
<1>6. timeouts <= jobs'["retried"] + jobs'["failed"] + escaped
  <2>1. timeouts <= jobs["retried"] + jobs["failed"] + escaped + (IF expired THEN 1 ELSE 0)
    BY <1>2 DEF Accounts, CountersFollowCommits
  <2>2. /\ jobs["retried"] \in Nat /\ jobs["failed"] \in Nat /\ timeouts \in Nat /\ escaped \in Nat
        /\ jobs'["retried"] = (IF label = "retried" THEN jobs["retried"] + 1 ELSE jobs["retried"])
        /\ jobs'["failed"] = (IF label = "failed" THEN jobs["failed"] + 1 ELSE jobs["failed"])
    BY <1>2, <1>4 DEF Outcomes, Accounts, CounterShape
  <2>3. CASE expired
    <3>1. label \in {"retried", "failed"}
      BY <1>1, <1>2, <2>3 DEF Accounts
    <3> QED
      BY <2>1, <2>2, <2>3, <3>1
  <2>4. CASE ~expired
    BY <2>1, <2>2, <2>4
  <2> QED
    BY <2>3, <2>4
<1>7. jobs'["retried"] \in Nat /\ jobs'["failed"] \in Nat /\ escaped \in Nat /\ timeouts \in Nat
  BY <1>2, <1>3 DEF CounterShape, Outcomes
<1>8. CountersFollowCommits'
  BY <1>2, <1>5, <1>6, <1>7 DEF CountersFollowCommits
<1> QED
  BY <1>2, <1>3, <1>8 DEF Accounts

\* Nothing is counted of an iteration whose writes fail, but its timeout was.
LEMMA WriteFailsStep == Accounts /\ WriteFails => Accounts'
<1> SUFFICES ASSUME Accounts, WriteFails PROVE Accounts'
  OBVIOUS
<1>1. /\ pc = "write" /\ pc' = "sleep" /\ outcome' = "none" /\ expired' = FALSE
      /\ UNCHANGED <<jobs, timeouts, committed, lost>>
      /\ escaped' = (IF expired THEN escaped + 1 ELSE escaped)
  BY DEF WriteFails
<1>2. escaped \in Nat /\ escaped' \in Nat
  BY <1>1 DEF Accounts, CounterShape
<1>3. CounterShape'
  BY <1>1, <1>2 DEF Accounts, CounterShape
<1>4. \A o \in Outcomes : jobs[o] = committed[o] + lost[o]
  BY <1>1 DEF Accounts, CounterShape, CountersFollowCommits
<1>5. timeouts <= jobs["retried"] + jobs["failed"] + escaped'
  <2>1. timeouts <= jobs["retried"] + jobs["failed"] + escaped + (IF expired THEN 1 ELSE 0)
    BY <1>1 DEF Accounts, CountersFollowCommits
  <2>2. jobs["retried"] \in Nat /\ jobs["failed"] \in Nat /\ timeouts \in Nat
    BY DEF Accounts, CounterShape, Outcomes
  <2>3. CASE expired
    BY <1>1, <1>2, <2>1, <2>2, <2>3
  <2>4. CASE ~expired
    BY <1>1, <1>2, <2>1, <2>2, <2>4
  <2> QED
    BY <2>3, <2>4
<1>6. jobs["retried"] \in Nat /\ jobs["failed"] \in Nat
  BY DEF Accounts, CounterShape, Outcomes
<1>7. \A o \in Outcomes : committed[o] + lost[o] \in Nat
  BY DEF Accounts, CounterShape
<1>8. CountersFollowCommits'
  BY <1>1, <1>2, <1>4, <1>5, <1>6, <1>7 DEF CountersFollowCommits
<1>9. (pc' \notin {"write", "commit"} => outcome' = "none" /\ expired' = FALSE) /\ ~(pc' = "write")
  BY <1>1
<1> QED
  BY <1>3, <1>8, <1>9, Zenon DEF Accounts

\* The transaction ends, and with it what was pending.
LEMMA EndStep == Accounts /\ (Commits \/ CommitFails) => Accounts'
<1> SUFFICES ASSUME Accounts, Commits \/ CommitFails PROVE Accounts'
  OBVIOUS
<1>1. /\ pc = "commit" /\ outcome' = "none" /\ expired' = FALSE
      /\ pc' \in {"check", "sleep"} /\ UNCHANGED <<jobs, timeouts, escaped>>
  BY DEF Commits, CommitFails
<1>2. timeouts <= jobs["retried"] + jobs["failed"] + escaped + 0
  BY <1>1 DEF Accounts, CountersFollowCommits
<1>3. CASE outcome = "none"
  <2>1. UNCHANGED <<committed, lost>>
    BY <1>3 DEF Commits, CommitFails
  <2>2. \A o \in Outcomes : o # "none"
    BY DEF Outcomes
  <2> QED
    BY <1>1, <1>2, <1>3, <2>1, <2>2 DEF Accounts, CounterShape, CountersFollowCommits
<1>4. CASE outcome # "none"
  <2>1. /\ outcome \in Outcomes /\ committed \in [Outcomes -> Nat] /\ lost \in [Outcomes -> Nat]
        /\ jobs \in [Outcomes -> Nat]
    BY <1>4 DEF Accounts, CounterShape
  <2>2. \/ committed' = [committed EXCEPT ![outcome] = committed[outcome] + 1] /\ lost' = lost
        \/ lost' = [lost EXCEPT ![outcome] = lost[outcome] + 1] /\ committed' = committed
    BY <1>4 DEF Commits, CommitFails
  <2>3. CounterShape'
    <3>1. committed' \in [Outcomes -> Nat] /\ lost' \in [Outcomes -> Nat]
      BY <2>1, <2>2
    <3>2. expired' \in BOOLEAN
      BY <1>1, Zenon
    <3>3. timeouts' \in Nat /\ escaped' \in Nat /\ jobs' \in [Outcomes -> Nat]
      BY <1>1 DEF Accounts, CounterShape
    <3> QED
      BY <1>1, <3>1, <3>2, <3>3 DEF CounterShape
  <2>4. ASSUME NEW o \in Outcomes PROVE jobs[o] = committed'[o] + lost'[o]
    <3>1. jobs[o] = committed[o] + lost[o] + (IF outcome = o THEN 1 ELSE 0)
      BY <1>1 DEF Accounts, CountersFollowCommits
    <3>2. CASE o = outcome
      BY <2>1, <2>2, <3>1, <3>2
    <3>3. CASE o # outcome
      BY <2>1, <2>2, <3>1, <3>3
    <3> QED
      BY <3>2, <3>3
  <2>5. committed' \in [Outcomes -> Nat] /\ lost' \in [Outcomes -> Nat]
    BY <2>3 DEF CounterShape
  <2> QED
    BY <1>1, <1>2, <2>3, <2>4, <2>5 DEF Accounts, CountersFollowCommits
<1> QED
  BY <1>3, <1>4

LEMMA AccountsStep == Accounts /\ [Next]_vars => Accounts'
<1> SUFFICES ASSUME Accounts, [Next]_vars PROVE Accounts'
  OBVIOUS
\* Steps that decide and count nothing.
<1>q. ASSUME UNCHANGED <<outcome, expired, jobs, timeouts, committed, lost, escaped>>,
             pc' = pc \/ (pc \notin {"write", "commit"} /\ pc' # "write")
      PROVE  Accounts'
  <2>1. CASE pc' = pc
    BY <1>q, <2>1 DEF Accounts, CounterShape, CountersFollowCommits
  <2>2. CASE pc \notin {"write", "commit"} /\ pc' # "write"
    <3>1. \A o \in Outcomes : o # "none"
      BY DEF Outcomes
    <3> QED
      BY <1>q, <2>2, <3>1 DEF Accounts, CounterShape, CountersFollowCommits
  <2> QED
    BY <1>q, <2>1, <2>2
<1>1. CASE CheckStop \/ ClaimsNothing \/ Wake \/ Missing
  BY <1>1, <1>q DEF CheckStop, ClaimsNothing, Wake, Missing, Goto, counters
<1>2. CASE Claims \/ Loads \/ ClientRetries
  BY <1>2, <1>q DEF Claims, Loads, ClientRetries, counters
<1>3. CASE Cancelled \/ LoadFails \/ Answers
  <2>1. PICK label \in {"cancelled", "failed", "succeeded"} : Decide(label)
    BY <1>3 DEF Cancelled, LoadFails, Answers
  <2>2. label \in Outcomes /\ pc \notin {"write", "commit"}
        /\ UNCHANGED <<expired, jobs, timeouts, committed, lost, escaped>>
    BY <1>3 DEF Cancelled, LoadFails, Answers, Outcomes, counters
  <2> QED
    BY <2>1, <2>2, DecideStep
<1>4. CASE ClientGivesUp \/ ClientExpires \/ WorkerExpires
  <2>1. PICK label \in {"failed", "retried"} : Decide(label)
    BY <1>4 DEF ClientGivesUp, ClientExpires, WorkerExpires, RetryOrFail
  <2>2. /\ label \in Outcomes /\ pc \notin {"write", "commit"}
        /\ UNCHANGED <<jobs, committed, lost, escaped>>
        /\ UNCHANGED <<timeouts, expired>> \/ (timeouts' = timeouts + 1 /\ expired' = TRUE)
    BY <1>4 DEF ClientGivesUp, ClientExpires, WorkerExpires, Outcomes, counters
  <2> QED
    BY <2>1, <2>2, DecideStep
<1>5. CASE Counts \/ WriteFails \/ Commits \/ CommitFails
  BY <1>5, CountStep, WriteFailsStep, EndStep
<1>6. CASE Shutdown \/ Close \/ Tick
  BY <1>6, <1>q DEF Shutdown, Close, Tick, loopVars, counters
<1>7. CASE UNCHANGED vars
  BY <1>7, <1>q DEF vars, loopVars, counters
<1> QED
  BY <1>1, <1>2, <1>3, <1>4, <1>5, <1>6, <1>7 DEF Next, Iterate

\* The outcome counter is ahead of the database by the outcome about to be
\* committed and those whose commit failed, and by nothing else; the timeout
\* counter is ahead of the outcomes only by the timeouts whose writes are under
\* way or have failed.
THEOREM CountersNeverBehind == Spec => []CountersFollowCommits
<1>1. Accounts => CountersFollowCommits
  BY DEF Accounts
<1> QED
  BY <1>1, AccountsInit, AccountsStep, PTL DEF Spec

-----------------------------------------------------------------------------
(* Shutdown. *)

\* Time since the stop event is time of the iteration that was running: the loop
\* begins no other.
Clocks ==
  /\ loading \in 0..LoadBound /\ calling \in 0..Deadline /\ stopping \in Nat
  /\ stop \in BOOLEAN
  /\ ~stop => stopping = 0
  /\ pc = "claim" => stopping = 0
  /\ pc = "load" => stopping <= loading
  /\ pc = "call" => stopping <= loading + calling
  /\ stopping <= LoadBound + Deadline
  /\ pc = "done" => stop
  /\ lifespan = "serving" => ~stop

LEMMA ClocksInit == Init => Clocks
<1>1. LoadBound \in Nat /\ Deadline \in Nat
  BY ServiceProcessAssumption
<1> SUFFICES ASSUME Init PROVE Clocks
  OBVIOUS
<1>2. ~stop /\ stop \in BOOLEAN
  BY Zenon DEF Init
<1>3. /\ loading = 0 /\ calling = 0 /\ stopping = 0 /\ pc = "check"
      /\ lifespan = "serving"
  BY DEF Init
<1> QED
  BY <1>1, <1>2, <1>3 DEF Clocks

LEMMA ClocksStep == Clocks /\ [Next]_vars => Clocks'
<1> SUFFICES ASSUME Clocks, [Next]_vars PROVE Clocks'
  OBVIOUS
<1> USE ServiceProcessAssumption DEF Clocks
<1>1. CASE CheckStop \/ ClaimsNothing \/ Wake \/ Missing
  BY <1>1 DEF CheckStop, ClaimsNothing, Wake, Missing, Goto
<1>2. CASE Cancelled \/ Claims \/ Loads
  BY <1>2 DEF Cancelled, Claims, Loads, Decide
<1>3. CASE LoadFails \/ Answers \/ ClientRetries
  BY <1>3 DEF LoadFails, Answers, ClientRetries, Decide
<1>4. CASE ClientGivesUp \/ ClientExpires \/ WorkerExpires
  BY <1>4 DEF ClientGivesUp, ClientExpires, WorkerExpires, RetryOrFail, Decide
<1>5. CASE Counts \/ WriteFails \/ Commits \/ CommitFails
  BY <1>5 DEF Counts, WriteFails, Commits, CommitFails
<1>6. CASE Tick
  <2>1. CASE pc = "load"
    BY <1>6, <2>1 DEF Tick
  <2>2. CASE pc = "call"
    BY <1>6, <2>2 DEF Tick
  <2> QED
    BY <1>6, <2>1, <2>2 DEF Tick
<1>7. CASE Shutdown \/ Close
  BY <1>7 DEF Shutdown, Close, loopVars
<1>8. CASE UNCHANGED vars
  BY <1>8 DEF vars, loopVars
<1> QED
  BY <1>1, <1>2, <1>3, <1>4, <1>5, <1>6, <1>7, <1>8 DEF Next, Iterate

LEMMA ClocksHold == Spec => []Clocks
  BY ClocksInit, ClocksStep, PTL DEF Spec

\* Of the time shutdown waits, load and provider call take no longer than one load
\* of telemetry and one deadline of the worker, however often the client tries
\* again.
THEOREM ShutdownIsBounded == Spec => []ShutdownBounded
<1>1. Clocks => ShutdownBounded
  BY ServiceProcessAssumption DEF Clocks, ShutdownBounded
<1> QED
  BY <1>1, ClocksHold, PTL

\* The safety half of EndsOnDemand: no failure of an iteration ends the loop
\* while the service runs.
THEOREM LoopSurvives == Spec => [](lifespan = "serving" => pc # "done")
<1>1. Clocks => (lifespan = "serving" => pc # "done")
  BY DEF Clocks
<1> QED
  BY <1>1, ClocksHold, PTL
=============================================================================
