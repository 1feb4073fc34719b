------------------------------ MODULE Lifecycle ------------------------------
(***************************************************************************)
(* What the service promises about one investigation, without clients,      *)
(* workers, transactions or locks: each step below is one indivisible       *)
(* change of everything a tenant can see of it.                             *)
(***************************************************************************)
EXTENDS Naturals

CONSTANTS Invs, MaxAttempts

VARIABLES
  status,     \* status of the investigation, absent before it is opened
  work,       \* status of its job
  used,       \* attempts used
  published   \* whether its report can be read

lifecycleVars == <<status, work, used, published>>

Init ==
  /\ status = [i \in Invs |-> "absent"]
  /\ work = [i \in Invs |-> "absent"]
  /\ used = [i \in Invs |-> 0]
  /\ published = [i \in Invs |-> FALSE]

\* The investigation and its job appear together.
Open(i) ==
  /\ status[i] = "absent"
  /\ status' = [status EXCEPT ![i] = "pending"]
  /\ work' = [work EXCEPT ![i] = "queued"]
  /\ UNCHANGED <<used, published>>

\* An attempt ends: it uses up one of the attempts and sets both statuses.
\* It may overwrite a cancellation made after the worker looked.
Attempt(i, s, k) ==
  /\ work[i] = "queued"
  /\ used' = [used EXCEPT ![i] = @ + 1]
  /\ status' = [status EXCEPT ![i] = s]
  /\ work' = [work EXCEPT ![i] = k]

Retry(i) ==
  /\ used[i] + 1 < MaxAttempts
  /\ Attempt(i, "running", "queued")
  /\ UNCHANGED published

Succeed(i) ==
  /\ Attempt(i, "succeeded", "succeeded")
  /\ published' = [published EXCEPT ![i] = TRUE]

Fail(i) ==
  /\ Attempt(i, "failed", "failed")
  /\ UNCHANGED published

\* Only the job of a cancelled investigation is withdrawn.
Withdraw(i) ==
  /\ status[i] = "cancelled"
  /\ Attempt(i, "cancelled", "cancelled")
  /\ UNCHANGED published

Cancel(i) ==
  /\ status[i] # "absent"
  /\ status' = [status EXCEPT ![i] = "cancelled"]
  /\ UNCHANGED <<work, used, published>>

Next ==
  \E i \in Invs :
    Open(i) \/ Retry(i) \/ Succeed(i) \/ Fail(i) \/ Withdraw(i) \/ Cancel(i)

Spec == Init /\ [][Next]_lifecycleVars

=============================================================================
