--------------------------- MODULE MCMemoryService ---------------------------
(* Instances of MemoryService for TLC. *)
EXTENDS MemoryService

CONSTANTS i1, i2, c1, c2, w1, t1, t2, k1

TheTokens == [t \in {"one", "two"} |-> IF t = "one" THEN t1 ELSE t2]

Ask(kind, token, key, i) ==
  [kind |-> kind, token |-> token, body |-> "ok", key |-> key, inv |-> i]

\* Two tenants with the same key, and readers of both investigations.
TheRequests ==
  {Ask("create", "one", k1, NoRow), Ask("create", "two", k1, NoRow),
   Ask("status", "one", NoRow, i1),
   Ask("report", "one", NoRow, i1), Ask("cancel", "one", NoRow, i1),
   Ask("status", "none", NoRow, i1),
   [Ask("create", "one", k1, NoRow) EXCEPT !.body = "invalid"]}

=============================================================================
