---------------------------- MODULE Verification ----------------------------
(***************************************************************************)
(* llm/parsing.py, domain/hypotheses.py and domain/verifier.py: the text a  *)
(* model proposes is parsed into a hypothesis document, and the document is *)
(* verified against an evidence ledger.                                     *)
(*                                                                         *)
(* A proposal is abstracted to what the parser tells apart: why the text is *)
(* no JSON object, or an object whose predicates are a list of entries.     *)
(* BadEntry stands for an entry, and header = FALSE for the other fields,   *)
(* with a missing or blank value, a wrong type or an unknown enum member.   *)
(* encodable = FALSE: an id holds half a surrogate pair, which JSON can      *)
(* escape and UTF-8 cannot encode.                                          *)
(***************************************************************************)
EXTENDS EvidenceLedger

CONSTANT MaxPredicates      \* MAX_PREDICATES

ASSUME MaxPredicatesAssumption == MaxPredicates \in Nat \ {0}

BadEntry == [none |-> "predicate"]
NoEntry == [none |-> "entry"]
Rejected(code) == [rejected |-> code]

Verdicts == {"supported", "refuted", "unknown"}

-----------------------------------------------------------------------------
(* Hypotheses. *)

Distinct(seq, field) ==
  \A j, k \in DOMAIN seq : j # k => seq[j][field] # seq[k][field]

\* HypothesisDocument.__init__: at most one predicate per id and per signal.
ValidDocument(d) ==
  /\ Len(d.predicates) \in 1..MaxPredicates
  /\ Distinct(d.predicates, "pid") /\ Distinct(d.predicates, "key")

\* An integer literal longer than int() accepts raises a plain ValueError out
\* of json.loads, which is no JSONDecodeError and passes through.
parse_metric_hypothesis(raw, allowed) ==
  CASE raw.text = "too_large"    -> Rejected("proposal_too_large")
    [] raw.text = "blank"        -> Rejected("empty_proposal")
    [] raw.text = "not_json"     -> Rejected("malformed_proposal")
    [] raw.text = "long_integer" -> Rejected("ValueError")
    [] raw.text \in {"not_object", "no_list"} -> Rejected("proposal_schema_invalid")
    [] OTHER ->
       IF Len(raw.predicates) > MaxPredicates THEN Rejected("too_many_predicates")
       ELSE IF BadEntry \in ToSet(raw.predicates) \/ ~raw.header \/ ~ValidDocument(raw)
         THEN Rejected("proposal_schema_invalid")
       ELSE IF \E k \in DOMAIN raw.predicates : raw.predicates[k].key \notin allowed
         THEN Rejected("unauthorized_entity")
       ELSE raw

-----------------------------------------------------------------------------
(* Verification. *)

\* A verdict on one predicate; observed is "none" where no direction was.
Result(p, verdict, reason, observed, ids) ==
  [pid |-> p.pid, verdict |-> verdict, reason |-> reason, observed |-> observed,
   supporting |-> IF verdict = "supported" THEN ids ELSE <<>>,
   contradicting |-> IF verdict = "refuted" THEN ids ELSE <<>>]

Unknown(p, reason, observed) == Result(p, "unknown", reason, observed, <<>>)

Observed(candidate) == IF candidate.signed.n > 0 THEN "increase" ELSE "decrease"

Decided(p, entry) ==
  Result(p, IF Observed(entry.candidate) = p.direction THEN "supported" ELSE "refuted",
         "none", Observed(entry.candidate), <<entry.id>>)

\* Mutants: a weak shift decides like a strong one; a weak shift shows no direction.
WeakDecides(p, entry, minimum) ==
  IF entry = NoEntry THEN Unknown(p, "signal_not_found", "none")
  ELSE IF entry.candidate = NoCandidate THEN Unknown(p, "insufficient_evidence", "none")
  ELSE IF entry.candidate.signed.n = 0 THEN Unknown(p, "no_directional_shift", "none")
  ELSE Decided(p, entry)
WeakUnobserved(p, entry, minimum) ==
  IF entry = NoEntry THEN Unknown(p, "signal_not_found", "none")
  ELSE IF entry.candidate = NoCandidate THEN Unknown(p, "insufficient_evidence", "none")
  ELSE IF entry.candidate.signed.n = 0 THEN Unknown(p, "no_directional_shift", "none")
  ELSE IF Less(entry.candidate.suspicion, minimum) THEN Unknown(p, "weak_evidence", "none")
  ELSE Decided(p, entry)

evaluate_predicate(p, entry, minimum) ==
  IF entry = NoEntry THEN Unknown(p, "signal_not_found", "none")
  ELSE IF ~entry.eligible \/ entry.candidate = NoCandidate
    THEN Unknown(p, "insufficient_evidence", "none")
  ELSE IF entry.candidate.signed.n = 0 THEN Unknown(p, "no_directional_shift", "none")
  ELSE IF Less(entry.candidate.suspicion, minimum)
    THEN Unknown(p, "weak_evidence", Observed(entry.candidate))
  ELSE Decided(p, entry)

\* Mutant: one unknown predicate leaves a disjunction unknown.
AnyUnknown(composition, results) ==
  LET verdicts == {results[k].verdict : k \in DOMAIN results} IN
  IF composition = "all" /\ "refuted" \in verdicts THEN "refuted"
  ELSE IF "unknown" \in verdicts THEN "unknown"
  ELSE IF composition = "all" \/ "supported" \in verdicts THEN "supported" ELSE "refuted"

compose(composition, results) ==
  LET verdicts == {results[k].verdict : k \in DOMAIN results} IN
  IF composition = "all"
  THEN IF "refuted" \in verdicts THEN "refuted"
       ELSE IF "unknown" \in verdicts THEN "unknown" ELSE "supported"
  ELSE IF "supported" \in verdicts THEN "supported"
       ELSE IF "unknown" \in verdicts THEN "unknown" ELSE "refuted"

EntryFor(ledger, key) ==
  LET k == SelectInSeq(ledger.entries, LAMBDA e : e.key = key)
  IN IF k = 0 THEN NoEntry ELSE ledger.entries[k]

\* Mutant: the context of the document is not compared with the ledger's.
ContextIgnored(d, ledger) == IF d.semantics = "causal" THEN "causal_claim_not_verifiable" ELSE "none"

\* Why the whole document is unknown, "none" where its predicates decide.
DocumentReason(d, ledger) ==
  IF d.context # ledger.context THEN "context_mismatch"
  ELSE IF d.semantics = "causal" THEN "causal_claim_not_verifiable"
  ELSE "none"

Cited(results, field) == Joined([k \in DOMAIN results |-> results[k][field]])

\* Both arguments are valid here: verify_hypothesis validates them again and
\* raises otherwise.
verify_hypothesis(d, ledger) ==
  LET reason == DocumentReason(d, ledger)
      results == [k \in DOMAIN d.predicates |->
                    LET p == d.predicates[k] IN
                    IF reason # "none" THEN Unknown(p, reason, "none")
                    ELSE evaluate_predicate(p, EntryFor(ledger, p.key), ledger.policy.score)]
  IN [composition |-> d.composition, encodable |-> d.encodable,
      verdict |-> IF reason # "none" THEN "unknown" ELSE compose(d.composition, results),
      reason |-> reason, results |-> results,
      supporting |-> Cited(results, "supporting"),
      contradicting |-> Cited(results, "contradicting")]

=============================================================================
