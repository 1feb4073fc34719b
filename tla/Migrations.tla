----------------------------- MODULE Migrations -----------------------------
(***************************************************************************)
(* persistence/migrations/runner.py: processes that migrate one database at *)
(* the same time.  PostgreSQL is external: an uncommitted object blocks     *)
(* whoever creates the same one, who fails once it is committed and goes on *)
(* when it is rolled back; so does the primary key of schema_migrations.    *)
(* A version is the position of its file in the order of the names.         *)
(***************************************************************************)
EXTENDS Integers, FiniteSets

CONSTANTS
  Runners,
  MaxVersion,    \* the number of files
  Repeatable,    \* versions whose statements do not collide with themselves
  MaxFaults,     \* bound on lost processes and connections
  MaxStarts      \* bound on the calls of apply_migrations

Versions == 1..MaxVersion

ASSUME MigrationsAssumption ==
  MaxVersion \in Nat /\ Repeatable \subseteq Versions /\ MaxFaults \in Nat /\ MaxStarts \in Nat

VARIABLES
  pc, already, newly,
  at,            \* the version a runner is at
  table,         \* schema_migrations exists
  recorded,      \* its rows
  applied,       \* how often the statements of a version took effect
  faults, starts

vars == <<pc, already, newly, at, table, recorded, applied, faults, starts>>
database == <<table, recorded, applied>>

Init ==
  /\ pc = [r \in Runners |-> "idle"]
  /\ already = [r \in Runners |-> {}] /\ newly = [r \in Runners |-> {}]
  /\ at = [r \in Runners |-> 1]
  /\ table = FALSE /\ recorded = {} /\ applied = [v \in Versions |-> 0]
  /\ faults = 0 /\ starts = 0

Goto(r, stage) == pc' = [pc EXCEPT ![r] = stage]

\* What the open transactions of the others hold.
Creating(r) == \E s \in Runners \ {r} : pc[s] = "read"
Executed(r, v) == \E s \in Runners \ {r} : pc[s] \in {"insert", "commit"} /\ at[s] = v
Inserted(r, v) == \E s \in Runners \ {r} : pc[s] = "commit" /\ at[s] = v

-----------------------------------------------------------------------------

Start(r) ==
  /\ pc[r] \in {"idle", "done", "failed"} /\ starts < MaxStarts
  /\ starts' = starts + 1
  /\ already' = [already EXCEPT ![r] = {}] /\ newly' = [newly EXCEPT ![r] = {}]
  /\ at' = [at EXCEPT ![r] = 1]
  /\ Goto(r, IF table THEN "select" ELSE "create")
  /\ UNCHANGED <<database, faults>>

\* CREATE TABLE IF NOT EXISTS looks for the table before it creates it, and may
\* find at the end that another transaction has.
CreateTable(r) ==
  /\ pc[r] = "create" /\ ~Creating(r)
  /\ Goto(r, IF table THEN "failed" ELSE "read")
  /\ UNCHANGED <<already, newly, at, database, faults, starts>>

\* SELECT version and commit, on a table that was there or that this
\* transaction has created.
Select(r) ==
  /\ pc[r] \in {"select", "read"}
  /\ table' = TRUE
  /\ already' = [already EXCEPT ![r] = recorded]
  /\ Goto(r, "file")
  /\ UNCHANGED <<newly, at, recorded, applied, faults, starts>>

\* Mutant: the files are counted from the number of versions already applied.
NextFileByCount(r) ==
  /\ pc[r] = "file"
  /\ IF Cardinality(newly[r]) + at[r] > MaxVersion
     THEN Goto(r, "done") /\ UNCHANGED at
     ELSE /\ at' = [at EXCEPT ![r] = IF @ \in already[r] THEN @ + 1 ELSE @]
          /\ Goto(r, IF at[r] \in already[r] THEN "file" ELSE "execute")
  /\ UNCHANGED <<already, newly, database, faults, starts>>

NextFile(r) ==
  /\ pc[r] = "file"
  /\ IF at[r] > MaxVersion
     THEN Goto(r, "done") /\ UNCHANGED at
     ELSE /\ at' = [at EXCEPT ![r] = IF @ \in already[r] THEN @ + 1 ELSE @]
          /\ Goto(r, IF at[r] \in already[r] THEN "file" ELSE "execute")
  /\ UNCHANGED <<already, newly, database, faults, starts>>

\* The statements of the file: CREATE TABLE or ADD COLUMN fails on what is
\* there.
Execute(r) ==
  /\ pc[r] = "execute"
  /\ at[r] \notin Repeatable => ~Executed(r, at[r])
  /\ Goto(r, IF at[r] \notin Repeatable /\ applied[at[r]] > 0 THEN "failed" ELSE "insert")
  /\ UNCHANGED <<already, newly, at, database, faults, starts>>

\* Mutant: ON CONFLICT DO NOTHING.
InsertIfAbsent(r) ==
  /\ pc[r] = "insert" /\ ~Inserted(r, at[r])
  /\ Goto(r, "commit")
  /\ UNCHANGED <<already, newly, at, database, faults, starts>>

\* Mutant: a runner waits for everyone who has executed the file.
InsertLast(r) ==
  /\ pc[r] = "insert" /\ ~Executed(r, at[r])
  /\ Goto(r, IF at[r] \in recorded THEN "failed" ELSE "commit")
  /\ UNCHANGED <<already, newly, at, database, faults, starts>>

Insert(r) ==
  /\ pc[r] = "insert" /\ ~Inserted(r, at[r])
  /\ Goto(r, IF at[r] \in recorded THEN "failed" ELSE "commit")
  /\ UNCHANGED <<already, newly, at, database, faults, starts>>

TakesEffect(v) ==
  /\ applied' = [applied EXCEPT ![v] = @ + 1]
  /\ recorded' = recorded \cup {v}
  /\ UNCHANGED table

\* Mutant: the loop also counts the version it has just applied.
CommitAndSkip(r) ==
  /\ pc[r] = "commit"
  /\ TakesEffect(at[r])
  /\ newly' = [newly EXCEPT ![r] = @ \cup {at[r]}]
  /\ at' = [at EXCEPT ![r] = @ + 2]
  /\ Goto(r, "file")
  /\ UNCHANGED <<already, faults, starts>>

Commit(r) ==
  /\ pc[r] = "commit"
  /\ TakesEffect(at[r])
  /\ newly' = [newly EXCEPT ![r] = @ \cup {at[r]}]
  /\ at' = [at EXCEPT ![r] = @ + 1]
  /\ Goto(r, "file")
  /\ UNCHANGED <<already, faults, starts>>

\* The connection is lost during the commit, which the server may have made.
CommitUnknown(r) ==
  /\ pc[r] = "commit" /\ faults < MaxFaults
  /\ faults' = faults + 1
  /\ TakesEffect(at[r])
  /\ Goto(r, "failed")
  /\ UNCHANGED <<already, newly, at, starts>>

\* The process or its connection is lost: the open transaction is rolled back.
Crash(r) ==
  /\ pc[r] \notin {"idle", "done", "failed"} /\ faults < MaxFaults
  /\ faults' = faults + 1
  /\ Goto(r, "failed")
  /\ UNCHANGED <<already, newly, at, database, starts>>

Step(r) ==
  CreateTable(r) \/ Select(r) \/ NextFile(r) \/ Execute(r) \/ Insert(r) \/ Commit(r)

Next == \E r \in Runners : Start(r) \/ Step(r) \/ CommitUnknown(r) \/ Crash(r)

Spec == Init /\ [][Next]_vars

\* A process that runs goes on; nobody has to start one.
FairSpec == Spec /\ \A r \in Runners : WF_vars(Step(r))

-----------------------------------------------------------------------------
(* Properties. *)

\* Each file takes effect once, after the ones it builds on, and is recorded
\* exactly then, whoever applies it, from however stale a reading of the table
\* and whoever dies ("Applies the ordered *.sql files in this package exactly
\* once each").
AppliedOnce ==
  /\ \A v \in Versions : applied[v] = (IF v \in recorded THEN 1 ELSE 0)
  /\ \A v \in recorded : \A w \in 1..v : w \in recorded

\* A run that returns leaves nothing unapplied, and no two runs report the same
\* version as newly applied.  Who loses a race fails, but never everyone: when all
\* runs have ended and nothing was lost, one of them has migrated the database
\* (apply_migrations).
RunsComplete ==
  /\ \A r \in Runners : pc[r] = "done" => recorded = Versions
  /\ \A r, s \in Runners : r # s => newly[r] \cap newly[s] = {}
  /\ (faults = 0 /\ starts > 0 /\ \A r \in Runners : pc[r] \in {"idle", "done", "failed"})
       => recorded = Versions

\* A run that waits for another's transaction does not wait for ever.
RunsEnd == \A r \in Runners : pc[r] = "create" ~> pc[r] \in {"done", "failed"}

=============================================================================
