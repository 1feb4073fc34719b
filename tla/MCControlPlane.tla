--------------------------- MODULE MCControlPlane ---------------------------
(* Instances of ControlPlane for TLC. *)
EXTENDS ControlPlaneRefinement, TLC

CONSTANTS i1, i2, i3, t1, t2, r1, k1, c1, c2, c3, w1, w2

\* One tenant: a command with a key and one without, over the same run.
OneTenant ==
  {[tenant |-> t1, run |-> r1, key |-> k1], [tenant |-> t1, run |-> r1, key |-> NoKey]}

\* A key that two tenants use, and a command without a key.
SharedKey == OneTenant \cup {[tenant |-> t2, run |-> r1, key |-> k1]}

\* Only commands without a key: every command opens an investigation.
NoKeys == {[tenant |-> t1, run |-> r1, key |-> NoKey]}

\* Ids, clients and workers are interchangeable.
Symmetry == Permutations({i1, i2, i3}) \cup Permutations({c1, c2, c3}) \cup Permutations({w1, w2})

=============================================================================
