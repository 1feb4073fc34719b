------------------------------ MODULE Evidence ------------------------------
(***************************************************************************)
(* The two halves of the evidence domain, which share parser, serialiser    *)
(* and verdicts but no state: Analysis for metrics and ChangeLedger for     *)
(* change events.  What both must satisfy; the parts are explained there.   *)
(***************************************************************************)
EXTENDS Analysis, ChangeLedger

\* What one stage computes the next accepts, although each states the rules once
\* more: the compiler every ranking, the serialisers every ledger and every
\* verification, of metrics and of changes.  Only text that cannot be encoded is
\* refused, and it always is (_decision, _ledger_decision, _evidence_id,
\* _canonical_json).
OwnWorkAccepted ==
  CompileAccepts /\ ArtefactsAgree /\ ChangeArtefactsAgree

\* No ledger that was altered is accepted, but for the entries whose absence the
\* ids cannot show (validate_metric_evidence_ledger,
\* validate_change_event_ledger).
AlterationsDetected == AlterationDetected /\ ChangeAlterationDetected

=============================================================================
