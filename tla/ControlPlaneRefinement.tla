----------------------- MODULE ControlPlaneRefinement -----------------------
(***************************************************************************)
(* ControlPlane implements Lifecycle: what tenants can read of an           *)
(* investigation, that is its committed rows, changes as Lifecycle says.    *)
(***************************************************************************)
EXTENDS ControlPlane

JobOf(i) == CHOOSE j \in Jobs : job[j] # NoRow /\ job[j].inv = i

VisibleStatus == [i \in Invs |-> IF inv[i] = NoRow THEN "absent" ELSE inv[i].status]
VisibleWork == [i \in Invs |-> IF inv[i] = NoRow THEN "absent" ELSE job[JobOf(i)].status]
VisibleUsed == [i \in Invs |-> IF inv[i] = NoRow THEN 0 ELSE job[JobOf(i)].attempt_count]
VisibleReport == [i \in Invs |-> reports[i] # NoRow]

Promise == INSTANCE Lifecycle WITH
  status <- VisibleStatus, work <- VisibleWork,
  used <- VisibleUsed, published <- VisibleReport

\* Every step of clients, workers, operator and faults is, to a tenant that
\* reads committed rows, one step of the lifecycle or no change at all.
KeepsPromise == Promise!Spec

=============================================================================
