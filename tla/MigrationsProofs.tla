-------------------------- MODULE MigrationsProofs --------------------------
(***************************************************************************)
(* Concurrent migrations, for every number of processes, files, restarts    *)
(* and lost connections.                                                    *)
(***************************************************************************)
EXTENDS Migrations, TLAPS

Active == {"create", "select", "read", "file", "execute", "insert", "commit"}
Ended == {"idle", "done", "failed"}

Shape ==
  /\ pc \in [Runners -> Active \cup Ended]
  /\ already \in [Runners -> SUBSET Versions] /\ newly \in [Runners -> SUBSET Versions]
  /\ at \in [Runners -> 1..(MaxVersion + 1)]
  /\ table \in BOOLEAN /\ recorded \subseteq Versions /\ applied \in [Versions -> Nat]
  /\ faults \in Nat /\ starts \in Nat

\* What a process knows of the versions before the one it is at, which it has
\* applied or found applied.
RunnerOK(r) ==
  /\ already[r] \subseteq recorded /\ newly[r] \subseteq recorded
  /\ pc[r] \in {"create", "select", "read"} => at[r] = 1
  /\ pc[r] \in {"file", "execute", "insert", "commit"} => 1..(at[r] - 1) \subseteq recorded
  /\ pc[r] \in {"execute", "insert", "commit"} => at[r] \in Versions
  /\ pc[r] = "commit" => at[r] \notin recorded
  /\ pc[r] = "done" => recorded = Versions

\* A row of schema_migrations that is inserted is inserted by one transaction,
\* and no two processes have applied the same version.
Apart ==
  \A r, s \in Runners :
    r # s => /\ pc[r] = "commit" /\ pc[s] = "commit" => at[r] # at[s]
             /\ newly[r] \cap newly[s] = {}

\* A process that nothing committed so far makes fail.
Live(r) ==
  \/ ~table /\ pc[r] \in {"create", "read"}
  \/ pc[r] = "select"
  \/ pc[r] = "file" /\ recorded \subseteq already[r] \cup 1..(at[r] - 1)
  \/ pc[r] \in {"execute", "insert", "commit"} /\ at[r] \notin recorded

\* As long as nothing is lost, one process gets through.
OneGetsThrough ==
  faults = 0 /\ starts > 0 => recorded = Versions \/ \E r \in Runners : Live(r)

Inductive ==
  Shape /\ AppliedOnce /\ (\A r \in Runners : RunnerOK(r)) /\ Apart /\ OneGetsThrough

-----------------------------------------------------------------------------

LEMMA InductiveInit == Init => Inductive
<1> SUFFICES ASSUME Init PROVE Inductive
  OBVIOUS
<1>1. Shape
  <2>1. at \in [Runners -> 1..(MaxVersion + 1)]
    BY MigrationsAssumption DEF Init
  <2>2. pc \in [Runners -> Active \cup Ended]
    BY DEF Init, Ended
  <2>3. /\ already \in [Runners -> SUBSET Versions] /\ newly \in [Runners -> SUBSET Versions]
        /\ table \in BOOLEAN /\ recorded \subseteq Versions /\ applied \in [Versions -> Nat]
        /\ faults \in Nat /\ starts \in Nat
    BY DEF Init
  <2> QED
    BY <2>1, <2>2, <2>3 DEF Shape
<1>2. AppliedOnce /\ (\A r \in Runners : RunnerOK(r)) /\ Apart /\ OneGetsThrough
  BY DEF Init, AppliedOnce, RunnerOK, Apart, OneGetsThrough
<1> QED
  BY <1>1, <1>2 DEF Inductive

\* The versions recorded so far are the ones before the one a process commits.
LEMMA CommitsNext ==
  ASSUME Inductive, NEW r \in Runners, pc[r] = "commit"
  PROVE  at[r] \in Versions /\ recorded = 1..(at[r] - 1)
<1>1. at[r] \in Versions /\ at[r] \notin recorded /\ 1..(at[r] - 1) \subseteq recorded
  BY DEF Inductive, RunnerOK
<1>2. ASSUME NEW v \in recorded PROVE v \in 1..(at[r] - 1)
  <2>1. v \in Nat /\ v >= 1 /\ at[r] \in Nat /\ at[r] >= 1
    BY <1>1, MigrationsAssumption DEF Inductive, Shape, Versions
  <2>2. ~(at[r] <= v)
    BY <1>1, <2>1 DEF Inductive, AppliedOnce
  <2> QED
    BY <2>1, <2>2
<1> QED
  BY <1>1, <1>2

\* A step of one process that records nothing keeps the invariant if it does so
\* for that process, and if the process that gets through still does.
LEMMA QuietStep ==
  ASSUME Inductive, NEW r \in Runners, UNCHANGED <<recorded, applied>>, Shape',
         \A s \in Runners : s # r =>
           pc'[s] = pc[s] /\ at'[s] = at[s] /\ already'[s] = already[s] /\ newly'[s] = newly[s],
         RunnerOK(r)',
         newly'[r] \subseteq newly[r],
         pc'[r] = "commit" => ~Inserted(r, at'[r]),
         faults' = 0 => faults = 0,
         faults' = 0 /\ starts' > 0 =>
           \/ Live(r)'
           \/ recorded = Versions
           \/ starts > 0 /\ ~Live(r) /\ table' = table
  PROVE  Inductive'
<1>1. AppliedOnce'
  BY DEF Inductive, AppliedOnce
<1>2. \A s \in Runners : RunnerOK(s)'
  BY DEF Inductive, RunnerOK
<1>3. Apart'
  <2> SUFFICES ASSUME NEW s \in Runners, NEW u \in Runners, s # u
               PROVE  /\ pc'[s] = "commit" /\ pc'[u] = "commit" => at'[s] # at'[u]
                      /\ newly'[s] \cap newly'[u] = {}
    BY DEF Apart
  <2>1. CASE s # r /\ u # r
    BY <2>1 DEF Inductive, Apart
  <2>2. CASE s = r
    BY <2>2 DEF Inductive, Apart, Inserted
  <2>3. CASE u = r
    BY <2>3 DEF Inductive, Apart, Inserted
  <2> QED
    BY <2>1, <2>2, <2>3
<1>4. OneGetsThrough'
  <2> SUFFICES ASSUME faults' = 0, starts' > 0, recorded # Versions
               PROVE  \E s \in Runners : Live(s)'
    BY DEF OneGetsThrough
  <2>1. CASE Live(r)'
    BY <2>1
  <2>2. CASE starts > 0 /\ ~Live(r) /\ table' = table
    <3>1. PICK s \in Runners : Live(s)
      BY <2>2 DEF Inductive, OneGetsThrough
    <3>2. Live(s)'
      BY <2>2, <3>1 DEF Live
    <3> QED
      BY <3>2
  <2> QED
    BY <2>1, <2>2
<1> QED
  BY <1>1, <1>2, <1>3, <1>4 DEF Inductive

LEMMA QuietSteps ==
  ASSUME Inductive, NEW r \in Runners,
         \/ Start(r) \/ CreateTable(r) \/ Select(r) \/ NextFile(r) \/ Execute(r) \/ Insert(r)
         \/ Crash(r)
  PROVE  Inductive'
<1>s. Shape /\ RunnerOK(r)
  BY DEF Inductive
<1>m. MaxVersion \in Nat
  BY MigrationsAssumption
<1>1. CASE Start(r)
  <2>1. Shape'
    BY <1>s, <1>1, <1>m DEF Start, Shape, Goto, database, Active, Ended, Versions
  <2>2. /\ UNCHANGED <<recorded, applied, table, faults>>
        /\ pc'[r] = (IF table THEN "select" ELSE "create")
        /\ already'[r] = {} /\ newly'[r] = {} /\ at'[r] = 1
        /\ \A s \in Runners : s # r =>
             pc'[s] = pc[s] /\ at'[s] = at[s] /\ already'[s] = already[s] /\ newly'[s] = newly[s]
    BY <1>s, <1>1 DEF Start, Shape, Goto, database
  <2>3. RunnerOK(r)'
    BY <2>2 DEF RunnerOK
  <2>4. Live(r)'
    BY <2>2 DEF Live
  <2> QED
    BY <2>1, <2>2, <2>3, <2>4, QuietStep
<1>2. CASE CreateTable(r)
  <2>1. Shape'
    BY <1>s, <1>2 DEF CreateTable, Shape, Goto, database, Active, Ended
  <2>2. /\ UNCHANGED <<recorded, applied, table, faults, starts, at, already, newly>>
        /\ pc[r] = "create" /\ pc'[r] = (IF table THEN "failed" ELSE "read")
        /\ \A s \in Runners : s # r => pc'[s] = pc[s]
    BY <1>s, <1>2 DEF CreateTable, Shape, Goto, database
  <2>3. RunnerOK(r)'
    BY <1>s, <2>2 DEF RunnerOK
  <2>4. Live(r)' \/ ~Live(r)
    BY <2>2 DEF Live
  <2> QED
    BY <2>1, <2>2, <2>3, <2>4, QuietStep
<1>3. CASE Select(r)
  <2>1. Shape'
    BY <1>s, <1>3 DEF Select, Shape, Goto, Active, Ended
  <2>2. /\ UNCHANGED <<recorded, applied, faults, starts, at, newly>>
        /\ pc'[r] = "file" /\ already'[r] = recorded
        /\ \A s \in Runners : s # r => pc'[s] = pc[s] /\ already'[s] = already[s]
    BY <1>s, <1>3 DEF Select, Shape, Goto
  <2>3. at[r] = 1
    BY <1>s, <1>3 DEF Select, RunnerOK
  <2>4. RunnerOK(r)'
    BY <1>s, <2>2, <2>3 DEF RunnerOK
  <2>5. Live(r)'
    BY <2>2 DEF Live
  <2> QED
    BY <2>1, <2>2, <2>4, <2>5, QuietStep
<1>4. CASE NextFile(r)
  <2>1. /\ UNCHANGED <<recorded, applied, table, faults, starts, already, newly>>
        /\ pc[r] = "file"
        /\ \A s \in Runners : s # r => pc'[s] = pc[s] /\ at'[s] = at[s]
    BY <1>s, <1>4 DEF NextFile, Shape, Goto, database
  <2>2. at[r] \in Nat /\ at[r] >= 1 /\ 1..(at[r] - 1) \subseteq recorded
        /\ recorded \subseteq Versions /\ already[r] \subseteq recorded
    BY <1>s, <1>m, <2>1 DEF Shape, RunnerOK
  <2>3. CASE at[r] > MaxVersion
    <3>1. pc'[r] = "done" /\ at' = at
      BY <1>s, <1>4, <2>3 DEF NextFile, Shape, Goto
    <3>2. recorded = Versions
      <4>1. \A u \in Versions : u \in 1..(at[r] - 1)
        BY <1>m, <2>2, <2>3 DEF Versions
      <4> QED
        BY <2>2, <4>1
    <3>3. Shape'
      BY <1>s, <1>4, <2>3 DEF NextFile, Shape, Goto, database, Active, Ended
    <3>4. RunnerOK(r)'
      BY <1>s, <2>1, <3>1, <3>2 DEF RunnerOK
    <3> QED
      BY <2>1, <3>1, <3>2, <3>3, <3>4, QuietStep
  <2>4. CASE at[r] <= MaxVersion /\ at[r] \in already[r]
    <3>1. pc'[r] = "file" /\ at'[r] = at[r] + 1
      BY <1>s, <1>m, <1>4, <2>2, <2>4 DEF NextFile, Shape, Goto
    <3>2. Shape'
      BY <1>s, <1>m, <1>4, <2>2, <2>4 DEF NextFile, Shape, Goto, database, Active, Ended
    <3>3. 1..(at'[r] - 1) = 1..(at[r] - 1) \cup {at[r]}
      BY <2>2, <3>1
    <3>4. RunnerOK(r)'
      BY <1>s, <2>1, <2>2, <2>4, <3>1, <3>3 DEF RunnerOK
    <3>5. Live(r)' \/ ~Live(r)
      BY <2>1, <3>1, <3>3 DEF Live
    <3>6. starts = starts' /\ table' = table
      BY <2>1
    <3> QED
      BY <2>1, <3>1, <3>2, <3>4, <3>5, <3>6, QuietStep
  <2>5. CASE at[r] <= MaxVersion /\ at[r] \notin already[r]
    <3>1. pc'[r] = "execute" /\ at'[r] = at[r] /\ at[r] \in Versions
      BY <1>s, <1>m, <1>4, <2>2, <2>5 DEF NextFile, Shape, Goto, Versions
    <3>2. Shape'
      BY <1>s, <1>m, <1>4, <2>2, <2>5 DEF NextFile, Shape, Goto, database, Active, Ended
    <3>3. RunnerOK(r)'
      BY <1>s, <2>1, <2>2, <3>1 DEF RunnerOK
    <3>4. Live(r)' \/ ~Live(r)
      <4>1. at[r] \notin 1..(at[r] - 1)
        BY <2>2
      <4> QED
        BY <2>1, <2>5, <3>1, <4>1 DEF Live
    <3> QED
      BY <2>1, <3>1, <3>2, <3>3, <3>4, QuietStep
  <2> QED
    BY <1>m, <2>2, <2>3, <2>4, <2>5
<1>5. CASE Execute(r)
  <2>1. Shape'
    BY <1>s, <1>5 DEF Execute, Shape, Goto, database, Active, Ended
  <2>2. /\ UNCHANGED <<recorded, applied, table, faults, starts, at, already, newly>>
        /\ pc[r] = "execute"
        /\ pc'[r] = (IF at[r] \notin Repeatable /\ applied[at[r]] > 0 THEN "failed" ELSE "insert")
        /\ \A s \in Runners : s # r => pc'[s] = pc[s]
    BY <1>s, <1>5 DEF Execute, Shape, Goto, database
  <2>3. RunnerOK(r)'
    BY <1>s, <2>2 DEF RunnerOK
  <2>4. Live(r)' \/ ~Live(r)
    <3>1. at[r] \in Versions /\ (applied[at[r]] > 0 => at[r] \in recorded)
      BY <1>s, <2>2 DEF Inductive, RunnerOK, AppliedOnce
    <3> QED
      BY <2>2, <3>1 DEF Live
  <2> QED
    BY <2>1, <2>2, <2>3, <2>4, QuietStep
<1>6. CASE Insert(r)
  <2>1. Shape'
    BY <1>s, <1>6 DEF Insert, Shape, Goto, database, Active, Ended
  <2>2. /\ UNCHANGED <<recorded, applied, table, faults, starts, at, already, newly>>
        /\ pc[r] = "insert" /\ ~Inserted(r, at[r])
        /\ pc'[r] = (IF at[r] \in recorded THEN "failed" ELSE "commit")
        /\ \A s \in Runners : s # r => pc'[s] = pc[s]
    BY <1>s, <1>6 DEF Insert, Shape, Goto, database
  <2>3. RunnerOK(r)'
    BY <1>s, <2>2 DEF RunnerOK
  <2>4. Live(r)' \/ ~Live(r)
    BY <2>2 DEF Live
  <2> QED
    BY <2>1, <2>2, <2>3, <2>4, QuietStep
<1>7. CASE Crash(r)
  <2>1. Shape'
    BY <1>s, <1>7 DEF Crash, Shape, Goto, database, Active, Ended
  <2>2. /\ UNCHANGED <<recorded, applied, table, starts, at, already, newly>>
        /\ pc'[r] = "failed" /\ faults' = faults + 1 /\ faults \in Nat
        /\ \A s \in Runners : s # r => pc'[s] = pc[s]
    BY <1>s, <1>7 DEF Crash, Shape, Goto, database
  <2>3. RunnerOK(r)'
    BY <1>s, <2>2 DEF RunnerOK
  <2>4. faults' # 0
    BY <2>2
  <2> QED
    BY <2>1, <2>2, <2>3, <2>4, QuietStep
<1> QED
  BY <1>1, <1>2, <1>3, <1>4, <1>5, <1>6, <1>7

\* The commit of a version, whether the process learns of it or not.
LEMMA EffectStep ==
  ASSUME Inductive, NEW r \in Runners, Commit(r) \/ CommitUnknown(r)
  PROVE  Inductive'
<1>s. Shape /\ RunnerOK(r) /\ MaxVersion \in Nat
  BY MigrationsAssumption DEF Inductive
<1>p. PICK v \in Versions : v = at[r]
  BY CommitsNext DEF Commit, CommitUnknown
<1>c. /\ pc[r] = "commit" /\ recorded = 1..(v - 1) /\ v \in Nat /\ v >= 1 /\ v <= MaxVersion
  BY <1>s, <1>p, CommitsNext DEF Commit, CommitUnknown, Versions
<1>1. /\ recorded' = recorded \cup {v} /\ applied' = [applied EXCEPT ![v] = @ + 1]
      /\ UNCHANGED <<table, already, starts>>
      /\ \A s \in Runners : s # r =>
           pc'[s] = pc[s] /\ at'[s] = at[s] /\ newly'[s] = newly[s]
      /\ \/ /\ pc'[r] = "file" /\ at'[r] = v + 1 /\ newly'[r] = newly[r] \cup {v}
            /\ faults' = faults
         \/ pc'[r] = "failed" /\ at'[r] = v /\ newly'[r] = newly[r] /\ faults' = faults + 1
  BY <1>s, <1>p DEF Commit, CommitUnknown, TakesEffect, Goto, Shape
<1>2. recorded' = 1..v
  BY <1>c, <1>1
<1>3. Shape'
  <2>1. at' \in [Runners -> 1..(MaxVersion + 1)]
    BY <1>s, <1>p, <1>c DEF Commit, CommitUnknown, Shape
  <2>2. pc' \in [Runners -> Active \cup Ended]
    BY <1>s DEF Commit, CommitUnknown, Shape, Goto, Active, Ended
  <2>3. newly' \in [Runners -> SUBSET Versions]
    BY <1>s, <1>p DEF Commit, CommitUnknown, Shape
  <2>4. applied' \in [Versions -> Nat] /\ recorded' \subseteq Versions
    BY <1>s, <1>1 DEF Shape
  <2>5. faults' \in Nat
    BY <1>s, <1>1 DEF Shape
  <2> QED
    BY <1>s, <1>1, <2>1, <2>2, <2>3, <2>4, <2>5 DEF Shape
<1>4. AppliedOnce'
  <2>1. \A u \in Versions : applied'[u] = (IF u \in recorded' THEN 1 ELSE 0)
    <3>1. applied[v] = 0 /\ \A u \in Versions : u # v => applied'[u] = applied[u]
      BY <1>s, <1>c, <1>1 DEF Inductive, AppliedOnce, Shape
    <3>2. applied'[v] = 1
      BY <1>s, <1>1, <3>1 DEF Shape
    <3> QED
      BY <1>1, <3>1, <3>2 DEF Inductive, AppliedOnce
  <2>2. \A u \in recorded' : \A x \in 1..u : x \in recorded'
    BY <1>c, <1>2
  <2> QED
    BY <2>1, <2>2 DEF AppliedOnce
<1>5. ASSUME NEW s \in Runners PROVE RunnerOK(s)'
  <2>1. CASE s = r
    BY <1>s, <1>c, <1>1, <1>2, <2>1 DEF RunnerOK
  <2>2. CASE s # r
    <3>1. pc[s] = "commit" => at[s] # v
      BY <1>c, <1>p, <2>2 DEF Inductive, Apart
    <3>2. RunnerOK(s) /\ (recorded = Versions => recorded' = Versions)
      BY <1>1 DEF Inductive
    <3> QED
      BY <1>1, <2>2, <3>1, <3>2 DEF RunnerOK
  <2> QED
    BY <2>1, <2>2
<1>6. Apart'
  <2>1. v \notin recorded /\ \A s \in Runners : newly[s] \subseteq recorded
    BY <1>c DEF Inductive, RunnerOK
  <2>2. \A s, u \in Runners : s # u => newly'[s] \cap newly'[u] = {}
    BY <1>1, <2>1 DEF Inductive, Apart
  <2>3. \A s, u \in Runners :
          s # u => (pc'[s] = "commit" /\ pc'[u] = "commit" => at'[s] # at'[u])
    BY <1>1 DEF Inductive, Apart
  <2> QED
    BY <2>2, <2>3 DEF Apart
<1>7. OneGetsThrough'
  <2>1. CASE pc'[r] = "file" /\ at'[r] = v + 1
    <3>1. recorded' = 1..(at'[r] - 1)
      BY <1>c, <1>2, <2>1
    <3> QED
      BY <2>1, <3>1 DEF OneGetsThrough, Live
  <2>2. CASE faults' = faults + 1
    BY <1>s, <2>2 DEF OneGetsThrough, Shape
  <2> QED
    BY <1>1, <2>1, <2>2
<1> QED
  BY <1>3, <1>4, <1>5, <1>6, <1>7 DEF Inductive

LEMMA InductiveStep == Inductive /\ [Next]_vars => Inductive'
<1> SUFFICES ASSUME Inductive, [Next]_vars PROVE Inductive'
  OBVIOUS
<1>1. CASE UNCHANGED vars
  BY <1>1 DEF vars, Inductive, Shape, AppliedOnce, RunnerOK, Apart, OneGetsThrough, Live
<1>2. ASSUME NEW r \in Runners, Start(r) \/ Step(r) \/ CommitUnknown(r) \/ Crash(r)
      PROVE  Inductive'
  BY <1>2, QuietSteps, EffectStep DEF Step
<1> QED
  BY <1>1, <1>2 DEF Next

LEMMA InductiveHolds == Spec => []Inductive
  BY InductiveInit, InductiveStep, PTL DEF Spec

\* Every file takes effect exactly once, in order, and is recorded exactly then,
\* however many processes migrate, from however stale a reading, and whoever dies.
THEOREM EachAppliedOnce == Spec => []AppliedOnce
<1>1. Inductive => AppliedOnce
  BY DEF Inductive
<1> QED
  BY <1>1, InductiveHolds, PTL

\* A run that returns leaves nothing unapplied, no two runs report the same
\* version, and unless something is lost not everyone fails.
THEOREM RunsAreComplete == Spec => []RunsComplete
<1>1. Inductive => RunsComplete
  <2> SUFFICES ASSUME Inductive PROVE RunsComplete
    OBVIOUS
  <2>1. \A r \in Runners : pc[r] = "done" => recorded = Versions
    BY DEF Inductive, RunnerOK
  <2>2. \A r, s \in Runners : r # s => newly[r] \cap newly[s] = {}
    BY DEF Inductive, Apart
  <2>3. \A r \in Runners : pc[r] \in {"idle", "done", "failed"} => ~Live(r)
    BY DEF Live
  <2>4. (faults = 0 /\ starts > 0 /\ \A r \in Runners : pc[r] \in {"idle", "done", "failed"})
          => recorded = Versions
    BY <2>3 DEF Inductive, OneGetsThrough
  <2> QED
    BY <2>1, <2>2, <2>4 DEF RunsComplete
<1> QED
  BY <1>1, InductiveHolds, PTL
=============================================================================
