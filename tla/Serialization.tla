---------------------------- MODULE Serialization ----------------------------
(***************************************************************************)
(* domain/serialization.py, metric artefacts: the JSON of a ledger, of one  *)
(* evidence entry, of a baseline result and of a verification.  Each        *)
(* serialiser checks once more, by rules of its own, what it writes.        *)
(*                                                                         *)
(* A payload is the record of the fields that are written.  Numbers are     *)
(* written with float.hex, exactly, so that a fraction stands for itself.   *)
(* _canonical_json ends in an encoding to UTF-8, which may fail.            *)
(***************************************************************************)
EXTENDS Verification

Unserialisable == [none |-> "json"]      \* CanonicalSerializationError
Null == [none |-> "null"]

Optional(score) == IF score \in {NoScore, Infinite} THEN Null ELSE score

-----------------------------------------------------------------------------
(* Evidence. *)

CandidateSerialises(c) ==
  /\ c.floor > 0 /\ c.scale > 0
  /\ c.pre_count >= 0 /\ c.post_count >= 0
  /\ c.pre_mad >= 0 /\ c.relative >= 0 /\ c.suspicion.n >= 0

EntrySerialises(e) ==
  /\ e.floor > 0 /\ e.relative >= 0 /\ e.pre_count >= 0 /\ e.post_count >= 0
  /\ e.eligible = (e.candidate # NoCandidate)
  /\ e.candidate # NoCandidate =>
       /\ CandidateSerialises(e.candidate)
       /\ \A f \in {"key", "pre_count", "post_count", "floor", "relative"} :
            e.candidate[f] = e[f]

EntryPayload(e) ==
  [e EXCEPT !.candidate = IF @ = NoCandidate THEN Null ELSE @]

metric_evidence_entry_json(e) ==
  IF EntrySerialises(e) /\ e.key \notin UnencodableKeys THEN EntryPayload(e) ELSE Unserialisable

DecisionSerialises(d) ==
  /\ (d.kind = "ranking") = (d.reason = "none")
  /\ IsInjective(d.keys) /\ d.count = Len(d.keys)
  /\ \A score \in {d.lead, d.second, d.top} \ {NoScore} : score.n >= 0

DecisionPayload(d) ==
  [d EXCEPT !.lead = Optional(@), !.second = Optional(@), !.top = Optional(@),
            !.reason = IF @ = "none" THEN Null ELSE @]

LedgerSerialises(ledger) ==
  /\ ValidLedger(ledger)
  /\ ValidPolicy(ledger.policy) /\ ValidWindow(ledger.window)
  /\ DecisionSerialises(ledger.decision)
  /\ \A k \in DOMAIN ledger.entries :
       /\ EntrySerialises(ledger.entries[k])
       /\ ledger.entries[k].relative = ledger.policy.relative
       /\ k > 1 => ledger.entries[k - 1].key < ledger.entries[k].key

ledger_json(ledger) ==
  IF LedgerSerialises(ledger) /\ Encodes(ledger.context, ToSet(KeysOf(ledger.entries)))
  THEN [ledger EXCEPT !.decision = DecisionPayload(@),
                      !.entries = [k \in DOMAIN @ |-> EntryPayload(@[k])]]
  ELSE Unserialisable

\* The evaluations are left out; the lead of a single candidate is written as
\* null, and so is every lead of an abstention.
baseline_ranking_json(result) ==
  IF /\ ValidPolicy(result.policy)
     /\ \A k \in DOMAIN result.candidates : CandidateSerialises(result.candidates[k])
     /\ result.result = "ranking" => result.candidates # <<>>
     /\ ToSet(KeysOf(result.candidates)) \cap UnencodableKeys = {}
  THEN [schema |-> "baseline-ranking.v1", kind |-> result.result, policy |-> result.policy,
        candidates |-> result.candidates,
        reason |-> IF result.result = "ranking" THEN Null ELSE result.reason,
        lead |-> IF result.result = "ranking" THEN Optional(result.lead) ELSE Null,
        top |-> Optional(IF result.result = "ranking" THEN TopScore(result.candidates)
                         ELSE result.top),
        second |-> Optional(IF result.result = "ranking" THEN SecondScore(result.candidates)
                            ELSE result.second)]
  ELSE Unserialisable

-----------------------------------------------------------------------------
(* Verifications. *)

GateReasons == {"context_mismatch", "causal_claim_not_verifiable"}
Directionless ==
  GateReasons \cup {"signal_not_found", "insufficient_evidence", "no_directional_shift"}

PredicateSerialises(r) ==
  /\ ToSet(r.supporting) \cap ToSet(r.contradicting) = {}
  /\ CASE r.verdict = "unknown" ->
            /\ r.reason # "none" /\ r.supporting = <<>> /\ r.contradicting = <<>>
            /\ r.reason \in Directionless => r.observed = "none"
            /\ r.reason = "weak_evidence" => r.observed # "none"
       [] r.verdict = "supported" ->
            /\ r.reason = "none" /\ r.observed # "none"
            /\ r.supporting # <<>> /\ r.contradicting = <<>>
       [] r.verdict = "refuted" ->
            /\ r.reason = "none" /\ r.observed # "none"
            /\ r.supporting = <<>> /\ r.contradicting # <<>>

\* The verdict the predicates compose to, in the serialiser's own words.
ExpectedVerdict(composition, results) ==
  LET verdicts == {results[k].verdict : k \in DOMAIN results}
      decisive == IF composition = "all" THEN "refuted" ELSE "supported"
  IN IF decisive \in verdicts THEN decisive
     ELSE IF "unknown" \in verdicts THEN "unknown"
     ELSE IF composition = "all" THEN "supported" ELSE "refuted"

VerificationSerialises(v) ==
  /\ v.results # <<>> /\ Distinct(v.results, "pid")
  /\ \A k \in DOMAIN v.results : PredicateSerialises(v.results[k])
  /\ v.supporting = Cited(v.results, "supporting")
  /\ v.contradicting = Cited(v.results, "contradicting")
  /\ v.verdict = ExpectedVerdict(v.composition, v.results)
  /\ IF v.reason # "none"
     THEN /\ v.reason \in GateReasons /\ v.verdict = "unknown"
          /\ v.supporting = <<>> /\ v.contradicting = <<>>
          /\ \A k \in DOMAIN v.results :
               /\ v.results[k].verdict = "unknown" /\ v.results[k].reason = v.reason
               /\ v.results[k].observed = "none"
     ELSE \A k \in DOMAIN v.results : v.results[k].reason \notin GateReasons

verification_json(v) ==
  IF VerificationSerialises(v) /\ v.encodable
  THEN [schema |-> "metric-hypothesis-verification.v1",
        composition |-> v.composition, verdict |-> v.verdict, reason |-> v.reason,
        results |-> v.results, supporting |-> v.supporting, contradicting |-> v.contradicting]
  ELSE Unserialisable

=============================================================================
