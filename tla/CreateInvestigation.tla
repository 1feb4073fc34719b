------------------------- MODULE CreateInvestigation -------------------------
(***************************************************************************)
(* The CreateInvestigation use case (application/use_cases.py): one         *)
(* transaction that inserts the investigation, or finds the one the         *)
(* idempotency key already names, and enqueues the job of a new one.        *)
(* Clients are the requests the control plane serves concurrently.          *)
(***************************************************************************)
EXTENDS Store

CONSTANTS
  Clients,   \* concurrent POST /investigations requests
  Requests   \* the commands they carry

ASSUME RequestsAssumption == Requests \subseteq Request

VARIABLES
  call,      \* the open transaction of each client
  replies    \* history: the ids returned, with the command they answered

createVars == <<call, replies>>

CallPc == {"idle", "created", "enqueued"}
Call ==
  [pc : CallPc, request : Request \cup {NoRow}, inv : Invs \cup {NoInv},
   job : Jobs \cup {NoJob}, new : BOOLEAN, now : Nat]

NoCall ==
  [pc |-> "idle", request |-> NoRow, inv |-> NoInv, job |-> NoJob, new |-> FALSE, now |-> 0]

CreateTypeOK ==
  /\ call \in [Clients -> Call]
  /\ replies \subseteq [request : Request, inv : Invs]

CreateInit ==
  /\ call = [c \in Clients |-> NoCall]
  /\ replies = {}

-----------------------------------------------------------------------------

\* Rows of open calls: an id of uuid4 is never drawn twice.
FreshInvestigation(i) == inv[i] = NoRow /\ \A c \in Clients : call[c].inv # i
FreshJob(j) == job[j] = NoRow /\ \A c \in Clients : call[c].job # j

\* Mutant: no unique index, only a look at the committed rows.
InsertUnserialised(c, r) ==
  /\ call[c].pc = "idle"
  /\ \A i \in Invs : inv[i] # NoRow => ~SameKey(r, inv[i])
  /\ \E i \in Invs :
       /\ FreshInvestigation(i)
       /\ call' = [call EXCEPT ![c] =
            [NoCall EXCEPT !.pc = "created", !.request = r, !.inv = i, !.new = TRUE,
                           !.now = now]]
  /\ UNCHANGED <<replies, storeVars>>

\* INSERT ... ON CONFLICT DO NOTHING inserts.  While another transaction has
\* inserted the same key and not finished, the statement waits for it.
Insert(c, r) ==
  /\ call[c].pc = "idle"
  /\ \A i \in Invs : inv[i] # NoRow => ~SameKey(r, inv[i])
  /\ \A d \in Clients : call[d].new => ~SameKey(r, call[d].request)
  /\ \E i \in Invs :
       /\ FreshInvestigation(i)
       /\ call' = [call EXCEPT ![c] =
            [NoCall EXCEPT !.pc = "created", !.request = r, !.inv = i, !.new = TRUE,
                           !.now = now]]
  /\ UNCHANGED <<replies, storeVars>>

\* Mutant: work is enqueued for the investigation that was found.
ReplayEnqueues(c, r) ==
  /\ call[c].pc = "idle"
  /\ \E i \in Invs :
       /\ inv[i] # NoRow
       /\ SameKey(r, inv[i])
       /\ call' = [call EXCEPT ![c] =
            [NoCall EXCEPT !.pc = "created", !.request = r, !.inv = i, !.now = now]]
  /\ UNCHANGED <<replies, storeVars>>

\* INSERT ... ON CONFLICT DO NOTHING inserts nothing and SELECT finds the row.
\* The stored id differs from the new one: nothing is enqueued.
Replay(c, r) ==
  /\ call[c].pc = "idle"
  /\ \E i \in Invs :
       /\ inv[i] # NoRow
       /\ SameKey(r, inv[i])
       /\ call' = [call EXCEPT ![c] =
            [NoCall EXCEPT !.pc = "enqueued", !.request = r, !.inv = i, !.now = now]]
  /\ UNCHANGED <<replies, storeVars>>

\* The job of a new investigation, and its audit record.
Enqueue(c) ==
  /\ call[c].pc = "created"
  /\ \E j \in Jobs :
       /\ FreshJob(j)
       /\ call' = [call EXCEPT ![c].pc = "enqueued", ![c].job = j]
  /\ UNCHANGED <<replies, storeVars>>

\* commit, and the id returned to the client.
CommitCall(c) ==
  /\ call[c].pc = "enqueued"
  /\ LET t == call[c] IN
       /\ inv' = IF t.new
                 THEN [inv EXCEPT ![t.inv] =
                        [tenant |-> t.request.tenant, run |-> t.request.run,
                         key |-> t.request.key, status |-> "pending"]]
                 ELSE inv
       /\ job' = IF t.job # NoJob
                 THEN [job EXCEPT ![t.job] =
                        [inv |-> t.inv, status |-> "queued", available_at |-> t.now,
                         attempt_count |-> 0]]
                 ELSE job
       /\ audit' = IF t.job # NoJob
                   THEN [audit EXCEPT ![t.inv]["investigation.created"] = @ + 1]
                   ELSE audit
       /\ replies' = replies \cup {[request |-> t.request, inv |-> t.inv]}
  /\ call' = [call EXCEPT ![c] = NoCall]
  /\ UNCHANGED <<attempts, evidence, reports, now>>

\* The request dies before its commit: the unit of work rolls back.
AbandonCall(c) ==
  /\ call[c].pc # "idle"
  /\ call' = [call EXCEPT ![c] = NoCall]
  /\ UNCHANGED <<replies, storeVars>>

CreateStep(c) ==
  \/ \E r \in Requests : Insert(c, r) \/ Replay(c, r)
  \/ Enqueue(c)
  \/ CommitCall(c)
  \/ AbandonCall(c)

=============================================================================
