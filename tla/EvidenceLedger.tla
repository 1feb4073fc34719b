--------------------------- MODULE EvidenceLedger ---------------------------
(***************************************************************************)
(* domain/evidence/: the ledger that binds a baseline result to the tenant, *)
(* incident and run it was computed for, and the validator that rebuilds a  *)
(* ledger from its own content and accepts it only if nothing differs.      *)
(*                                                                         *)
(* An evidence id is the record of everything that is hashed: SHA-256 over  *)
(* the canonical JSON is taken to be injective.  Checks that a Python value *)
(* has its type are left out: the values below all do.                      *)
(*                                                                         *)
(* A key or an identifier is any text that is not blank, and may hold half  *)
(* a surrogate pair, which JSON can escape and UTF-8 cannot encode.         *)
(***************************************************************************)
EXTENDS Baseline

CONSTANTS
  UnencodableKeys,       \* the keys of signals and change events that UTF-8 cannot encode
  UnencodableContexts    \* and the contexts: tenant, incident and run

Invalid == [none |-> "ledger"]      \* InvalidEvidenceLedgerError

SchemaVersion == "metric-evidence-ledger.v1"

-----------------------------------------------------------------------------
(* _parsing.py *)

ValidPolicy(policy) ==
  /\ policy.points >= 1
  /\ policy.score.n >= 0 /\ policy.margin.n >= 0 /\ policy.relative >= 0

ValidWindow(window) == window.start <= window.injection /\ window.injection < window.end

\* The counts and floors of a candidate are those of its evaluation, and its
\* scale and scores are recomputed from the medians.
ValidCandidate(c, e, policy) ==
  /\ c.pre_mad >= 0 /\ c.floor > 0 /\ c.scale > 0 /\ c.suspicion.n >= 0
  /\ c.key = e.key
  /\ c.pre_count = e.pre_count /\ c.post_count = e.post_count
  /\ c.floor = e.floor
  /\ c.relative = policy.relative
  /\ c.scale = ScaleOf(c.pre_median, c.pre_mad, c.floor, c.relative)
  /\ c.signed = SignedScore(c.pre_median, c.post_median, c.scale)
  /\ c.suspicion = AbsScore(c.signed)

ValidEvaluation(e, policy) ==
  /\ e.floor > 0 /\ e.pre_count >= 0 /\ e.post_count >= 0
  /\ e.eligible = Enough(e.pre_count, e.post_count, policy)
  /\ (e.candidate # NoCandidate) = e.eligible
  /\ e.eligible => ValidCandidate(e.candidate, e, policy)

ValidEvaluations(evaluations, policy) ==
  /\ ~DuplicateKeys(evaluations)
  /\ \A k \in DOMAIN evaluations : ValidEvaluation(evaluations[k], policy)

-----------------------------------------------------------------------------
(* _decisions.py *)

KeysOf(seq) == [k \in DOMAIN seq |-> seq[k].key]

\* The reason to abstain, or "none" where the policy names a candidate.
ExpectedReason(policy, candidates) ==
  IF candidates = <<>> THEN "insufficient_evidence"
  ELSE IF Less(TopScore(candidates), policy.score) THEN "weak_evidence"
  ELSE IF Ambiguous(policy, candidates) THEN "ambiguous_evidence"
  ELSE "none"

Decision(kind, reason, candidates, lead) ==
  [kind |-> kind, reason |-> reason, keys |-> KeysOf(candidates),
   count |-> Len(candidates),
   top |-> TopScore(candidates), second |-> SecondScore(candidates), lead |-> lead]

\* Mutant: a ranking of one candidate must state a finite lead.
RankingNeedsLead(result, policy, candidates) ==
  /\ result.candidates = candidates /\ candidates # <<>>
  /\ ~Less(TopScore(candidates), policy.score)
  /\ Len(candidates) > 1
  /\ result.lead = LeadOf(candidates) /\ ~Less(result.lead, policy.margin)

RankingAgrees(result, policy, candidates) ==
  /\ result.candidates = candidates /\ candidates # <<>>
  /\ ~Less(TopScore(candidates), policy.score)
  /\ IF Len(candidates) = 1 THEN result.lead = Infinite
     ELSE /\ result.lead.n >= 0
          /\ result.lead = LeadOf(candidates) /\ ~Less(result.lead, policy.margin)

AbstentionAgrees(result, policy, candidates) ==
  /\ result.candidates = candidates
  /\ result.count = Len(candidates)
  /\ result.top = TopScore(candidates) /\ result.second = SecondScore(candidates)
  /\ result.reason = ExpectedReason(policy, candidates)

\* What a baseline result is recorded as; Invalid where it does not follow from
\* the candidates.
decision(result, policy, candidates) ==
  IF result.result = "ranking"
  THEN IF RankingAgrees(result, policy, candidates)
       THEN Decision("ranking", "none", candidates,
                     IF Len(candidates) = 1 THEN NoScore ELSE result.lead)
       ELSE Invalid
  ELSE IF AbstentionAgrees(result, policy, candidates)
       THEN Decision("abstention", result.reason, candidates, NoScore)
       ELSE Invalid

\* A decision read from a ledger is the one its candidates lead to.
ledger_decision(d, policy, candidates) ==
  /\ d.keys = KeysOf(candidates) /\ d.count = Len(candidates)
  /\ d.top = TopScore(candidates) /\ d.second = SecondScore(candidates)
  /\ IF d.kind = "ranking"
     THEN /\ d.reason = "none" /\ candidates # <<>>
          /\ ~Less(TopScore(candidates), policy.score)
          /\ IF Len(candidates) = 1 THEN d.lead = NoScore
             ELSE /\ d.lead # NoScore /\ d.lead.n >= 0
                  /\ d.lead = LeadOf(candidates) /\ ~Less(d.lead, policy.margin)
     ELSE /\ d.lead = NoScore
          /\ d.reason # "none" /\ d.reason = ExpectedReason(policy, candidates)

-----------------------------------------------------------------------------
(* _identity.py and _ledger.py *)

entry_payload(context, window, policy, d, e) ==
  [schema |-> SchemaVersion, context |-> context, window |-> window, policy |-> policy,
   decision |-> d, evaluation |-> e]

\* json.dumps(..., ensure_ascii=False).encode("utf-8")
Encodes(context, keys) ==
  context \notin UnencodableContexts /\ keys \cap UnencodableKeys = {}

\* Invalid where the payload cannot be encoded: it is no id, and nothing that has
\* it is a ledger.
Digest(payload, context, keys) ==
  IF Encodes(context, keys) THEN [sha256 |-> payload] ELSE Invalid

evidence_id(payload) ==
  Digest(payload, payload.context, {payload.evaluation.key} \cup ToSet(payload.decision.keys))

EntryOf(context, window, policy, d, e) ==
  [id |-> evidence_id(entry_payload(context, window, policy, d, e)),
   relative |-> policy.relative,
   key |-> e.key, floor |-> e.floor, pre_count |-> e.pre_count, post_count |-> e.post_count,
   eligible |-> e.eligible, candidate |-> e.candidate]

EntriesOf(context, window, policy, d, evaluations) ==
  [k \in DOMAIN evaluations |-> EntryOf(context, window, policy, d, evaluations[k])]

Evaluation(entry) ==
  [f \in DOMAIN entry \ {"id", "relative"} |-> entry[f]]

\* Mutant: the ids are taken as they were supplied.
IdsTrusted(ledger) ==
  LET evaluations == [k \in DOMAIN ledger.entries |-> Evaluation(ledger.entries[k])]
      ordered == SortedByKey(evaluations)
  IN /\ ledger.schema = SchemaVersion
     /\ ValidWindow(ledger.window) /\ ValidPolicy(ledger.policy)
     /\ ValidEvaluations(evaluations, ledger.policy)
     /\ KeysOf(evaluations) = KeysOf(ordered)
     /\ ledger_decision(ledger.decision, ledger.policy, CandidatesOf(ordered))

\* validate_metric_evidence_ledger: what it returns equals its argument, or it
\* raises InvalidEvidenceLedgerError.
ValidLedger(ledger) ==
  LET evaluations == [k \in DOMAIN ledger.entries |-> Evaluation(ledger.entries[k])]
      ordered == SortedByKey(evaluations)
  IN /\ ledger.schema = SchemaVersion
     /\ ValidWindow(ledger.window) /\ ValidPolicy(ledger.policy)
     /\ \A k \in DOMAIN ledger.entries :
          /\ ledger.entries[k].id # Invalid
          /\ ledger.entries[k].relative = ledger.policy.relative
     /\ ValidEvaluations(evaluations, ledger.policy)
     /\ KeysOf(evaluations) = KeysOf(ordered)
     /\ ledger_decision(ledger.decision, ledger.policy, CandidatesOf(ordered))
     /\ ledger.entries =
          EntriesOf(ledger.context, ledger.window, ledger.policy, ledger.decision, ordered)

validate_metric_evidence_ledger(ledger) == IF ValidLedger(ledger) THEN ledger ELSE Invalid

compile_metric_shift_ledger(context, window, result) ==
  LET evaluations == SortedByKey(result.evaluations)
      d == decision(result, result.policy, CandidatesOf(evaluations))
  IN IF /\ ValidWindow(window) /\ ValidPolicy(result.policy)
        /\ ValidEvaluations(result.evaluations, result.policy)
        /\ d # Invalid
     THEN validate_metric_evidence_ledger(
            [schema |-> SchemaVersion, context |-> context, window |-> window,
             policy |-> result.policy, decision |-> d,
             entries |-> EntriesOf(context, window, result.policy, d, evaluations)])
     ELSE Invalid

=============================================================================
