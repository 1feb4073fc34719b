------------------------------ MODULE Analysis ------------------------------
(***************************************************************************)
(* Worker._run_pipeline (application/worker.py) up to its first write: the  *)
(* telemetry of an investigation is ranked and compiled into a ledger, a    *)
(* model proposes a hypothesis, the hypothesis is parsed, verified against  *)
(* the ledger and serialised.  Module Worker takes all of this as one step; *)
(* here are the steps and the data they hand on.                            *)
(***************************************************************************)
EXTENDS Serialization

CONSTANTS
  Telemetries,   \* what the telemetry source may return
  Policies,      \* the policies a worker may be configured with
  Proposals(_),  \* what the provider may answer about some telemetry
  Window,        \* the window of the investigation
  Context        \* its tenant, incident and run

\* What the constructors of a window, a policy, a signal and a proposal let through.
ASSUME AnalysisAssumption ==
  /\ Window \in [start : Int, injection : Int, end : Int] /\ ValidWindow(Window)
  /\ \A p \in Policies :
       /\ p.points \in Nat \ {0} /\ p.relative \in Nat
       /\ p.score \in [n : Nat, d : Nat \ {0}] /\ p.margin \in [n : Nat, d : Nat \ {0}]
  /\ \A t \in Telemetries :
       /\ t \in Seq(ToSet(t))
       /\ \A i \in ToSet(t) :
            /\ {"key", "points", "floor"} \subseteq DOMAIN i
            /\ i.key \in Int /\ i.floor \in Nat \ {0}
            /\ IsFiniteSet(DOMAIN i.points)
            /\ \A x \in DOMAIN i.points : x \in Int /\ i.points[x] \in Int
       /\ \A r \in Proposals(t) :
            /\ {"composition", "predicates", "context", "semantics"} \subseteq DOMAIN r
            /\ r.composition \in {"all", "any"}
            /\ r.predicates \in Seq([pid : STRING, key : Int, direction : {"increase", "decrease"}]
                                    \cup {BadEntry})

VARIABLES
  pc,            \* the stage; "failed" and "requeued" after a failure
  failure,       \* its code
  policy, inputs, baseline, ledger, raw, document, verification,
  stored         \* the payloads handed to the unit of work

vars == <<pc, failure, policy, inputs, baseline, ledger, raw, document, verification, stored>>

None == [none |-> "value"]

\* _TerminalFailure and _RetryableFailure.
Fail(code) == pc' = "failed" /\ failure' = code
Requeue(code) == pc' = "requeued" /\ failure' = code
Goto(stage) == pc' = stage /\ UNCHANGED failure

ValidationCodes ==
  {"proposal_too_large", "empty_proposal", "malformed_proposal", "proposal_schema_invalid",
   "too_many_predicates", "unauthorized_entity"}

Init ==
  /\ pc = "load" /\ failure = "none"
  /\ policy \in Policies
  /\ inputs = <<>>
  /\ baseline = None /\ ledger = None /\ raw = None /\ document = None
  /\ verification = None /\ stored = None

-----------------------------------------------------------------------------

Load ==
  /\ pc = "load"
  /\ inputs' \in Telemetries
  /\ Goto("compile")
  /\ UNCHANGED <<policy, baseline, ledger, raw, document, verification, stored>>

LoadFails ==
  /\ pc = "load"
  /\ Fail("telemetry_unavailable")
  /\ UNCHANGED <<policy, inputs, baseline, ledger, raw, document, verification, stored>>

Compile ==
  /\ pc = "compile"
  /\ IF DuplicateKeys(inputs)
     THEN Fail("duplicate_signal") /\ UNCHANGED <<baseline, ledger>>
     ELSE /\ baseline' = rank_metric_shifts(Window, inputs, policy)
          /\ ledger' = compile_metric_shift_ledger(Context, Window, baseline')
          /\ IF ledger' = Invalid THEN Fail("invalid_evidence_ledger") ELSE Goto("propose")
  /\ UNCHANGED <<policy, inputs, raw, document, verification, stored>>

Propose ==
  /\ pc = "propose"
  /\ raw' \in Proposals(inputs)
  /\ Goto("parse")
  /\ UNCHANGED <<policy, inputs, baseline, ledger, document, verification, stored>>

ProposeFails ==
  /\ pc = "propose"
  /\ \/ Requeue("provider_timeout")
     \/ Requeue("provider_unavailable")
     \/ Fail("provider_response_invalid")
  /\ UNCHANGED <<policy, inputs, baseline, ledger, raw, document, verification, stored>>

\* LLMValidationError has a code of its own; anything else run_once files as
\* internal_error.
Parse ==
  /\ pc = "parse"
  /\ LET parsed == parse_metric_hypothesis(raw, ToSet(KeysOf(ledger.entries))) IN
       IF "rejected" \in DOMAIN parsed
       THEN /\ Fail(IF parsed.rejected \in ValidationCodes THEN parsed.rejected
                    ELSE "internal_error")
            /\ UNCHANGED document
       ELSE Goto("verify") /\ document' = parsed
  /\ UNCHANGED <<policy, inputs, baseline, ledger, raw, verification, stored>>

Payloads(v) ==
  [evidence |-> [k \in DOMAIN ledger.entries |->
                   metric_evidence_entry_json(ledger.entries[k])],
   report |-> verification_json(v),
   baseline |-> baseline_ranking_json(baseline)]

Verify ==
  /\ pc = "verify"
  /\ verification' = verify_hypothesis(document, ledger)
  /\ LET payloads == Payloads(verification') IN
       IF Unserialisable \in ToSet(payloads.evidence) \cup {payloads.report, payloads.baseline}
       THEN Fail("canonical_serialization_failed") /\ UNCHANGED stored
       ELSE Goto("persist") /\ stored' = payloads
  /\ UNCHANGED <<policy, inputs, baseline, ledger, raw, document>>

Next ==
  \/ Load \/ LoadFails
  \/ Compile
  \/ Propose \/ ProposeFails
  \/ Parse
  \/ Verify

Spec == Init /\ [][Next]_vars

-----------------------------------------------------------------------------
(* Properties. *)

Compiled == pc \in {"propose", "parse", "verify", "persist"}

\* What the ranking means, without sorting: the shift of a signal against its
\* own noise, for signals with enough points before and after the injection.
Points(item, a, b) == {t \in DOMAIN item.points : a <= t /\ t < b}
Scorable(item) ==
  /\ Cardinality(Points(item, Window.start, Window.injection)) >= policy.points
  /\ Cardinality(Points(item, Window.injection, Window.end)) >= policy.points

\* x is a median of the values at the given times, doubled: at most half of
\* them lie below it and at most half above.
IsMedian2(x, values, times) ==
  LET n == Cardinality(times) IN
  /\ 2 * Cardinality({t \in times : 2 * values[t] < x}) <= n
  /\ 2 * Cardinality({t \in times : 2 * values[t] > x}) <= n

\* Every signal is evaluated once; a candidate is exactly a signal with enough
\* points on both sides, its medians lie in the middle of those points, and no
\* candidate is placed before one that shifted more (rank_metric_shifts).
RankingSound ==
  Compiled =>
    /\ {e.key : e \in ToSet(baseline.evaluations)} = {i.key : i \in ToSet(inputs)}
    /\ {c.key : c \in ToSet(baseline.candidates)} = {i.key : i \in {j \in ToSet(inputs) : Scorable(j)}}
    /\ \A i \in ToSet(inputs) : \A c \in ToSet(baseline.candidates) :
         c.key = i.key =>
           /\ IsMedian2(c.pre_median, i.points, Points(i, Window.start, Window.injection))
           /\ IsMedian2(c.post_median, i.points, Points(i, Window.injection, Window.end))
           /\ (c.signed.n > 0) = (c.post_median > c.pre_median)
    /\ \A j, k \in DOMAIN baseline.candidates :
         j < k => ~Less(baseline.candidates[j].suspicion, baseline.candidates[k].suspicion)

\* One signal is named above the others only if every other one is behind by
\* the margin, and every abstention has the reason the policy gives it
\* (rank_metric_shifts, BaselinePolicy).
DecisionJustified ==
  Compiled =>
    LET scores == {c.suspicion : c \in ToSet(baseline.candidates)}
        top == baseline.candidates[1]
        strong == \E s \in scores : ~Less(s, policy.score)
        clear == \A c \in ToSet(baseline.candidates) :
                   c.key # top.key => ~Less(Minus(top.suspicion, c.suspicion), policy.margin)
    IN /\ baseline.result = "ranking" <=> (scores # {} /\ strong /\ clear)
       /\ baseline.result = "abstention" =>
            baseline.reason = IF scores = {} THEN "insufficient_evidence"
                              ELSE IF ~strong THEN "weak_evidence" ELSE "ambiguous_evidence"

\* The order in which a telemetry source lists its signals changes nothing of
\* the result (rank_metric_shifts and the ledger sort).
OrderIrrelevant ==
  Compiled =>
    \A turned \in {rank_metric_shifts(Window, Reverse(inputs), policy)} :
      /\ turned = baseline
      /\ compile_metric_shift_ledger(Context, Window, turned) = ledger

\* Candidates are the signals with enough points, with true medians and in order
\* of their scores, and a ranking or an abstention is what scores and margin
\* demand (rank_metric_shifts).
RankingJustified == RankingSound /\ DecisionJustified

SameScore(a, b) == ~Less(a, b) /\ ~Less(b, a)
Twice(values) == [t \in DOMAIN values |-> 2 * values[t]]
Doubled(item) == [item EXCEPT !.points = Twice(@), !.floor = 2 * @]

\* A signal reported in half the unit, its floor too, gets the same score: the
\* decision and the order do not depend on the unit (_score_candidate).
UnitFree ==
  Compiled =>
    \A other \in {rank_metric_shifts(
                     Window, [k \in DOMAIN inputs |-> Doubled(inputs[k])], policy)} :
      /\ other.result = baseline.result
      /\ KeysOf(other.candidates) = KeysOf(baseline.candidates)
      /\ \A k \in DOMAIN baseline.candidates :
           SameScore(other.candidates[k].suspicion, baseline.candidates[k].suspicion)

\* Neither the order in which signals are listed nor the unit one is measured in
\* changes the decision (rank_metric_shifts, _score_candidate).
RankingNeutral == OrderIrrelevant /\ UnitFree

\* The signals whose entries cannot be encoded.
Unwritable == {i \in ToSet(inputs) : ~Encodes(Context, {i.key})}

\* The compiler refuses a result of the ranking if and only if some signal cannot
\* be encoded: the three statements of the decision rule (baseline.py, _decision
\* and _ledger_decision) agree.  The ledger's own serialiser accepts what the
\* validator accepts, save that an empty ledger does not bind its context.
CompileAccepts ==
  /\ failure = "invalid_evidence_ledger" => Unwritable # {}
  /\ Compiled => Unwritable = {}
  /\ Compiled => (ledger_json(ledger) = Unserialisable <=> Context \in UnencodableContexts)

\* The ledger with another value in one field of one entry, or of its candidate.
WithField(k, f, x) ==
  LET entry == [ledger.entries[k] EXCEPT ![f] = x]
  IN [ledger EXCEPT !.entries = [ledger.entries EXCEPT ![k] = entry]]
WithCandidate(k, f, x) ==
  WithField(k, "candidate", [ledger.entries[k].candidate EXCEPT ![f] = x])

\* Ledgers that differ from the compiled one in one place: outside their entries,
\* in their order or number, in an id, in a field or in a candidate.
Reheaded ==
  {[ledger EXCEPT !.context = None], [ledger EXCEPT !.window.end = @ + 1],
   [ledger EXCEPT !.policy.score.n = @ + 1], [ledger EXCEPT !.policy.points = @ + 1],
   [ledger EXCEPT !.decision.keys = Reverse(@)],
   [ledger EXCEPT !.decision.reason = IF @ = "weak_evidence" THEN "ambiguous_evidence"
                                      ELSE "weak_evidence"]}
Reordered ==
  {[ledger EXCEPT !.entries = Reverse(ledger.entries)]}
  \cup {[ledger EXCEPT !.entries = RemoveAt(ledger.entries, k)] : k \in DOMAIN ledger.entries}
Renamed ==
  {WithField(p[1], "id", ledger.entries[p[2]].id) :
     p \in (DOMAIN ledger.entries) \X (DOMAIN ledger.entries)}
Recounted ==
  {WithField(k, "pre_count", ledger.entries[k].pre_count + 1) : k \in DOMAIN ledger.entries}
  \cup {WithField(k, "floor", ledger.entries[k].floor + 1) : k \in DOMAIN ledger.entries}
  \cup {WithField(k, "relative", ledger.entries[k].relative + 1) : k \in DOMAIN ledger.entries}
Rescored ==
  LET S == {k \in DOMAIN ledger.entries : ledger.entries[k].eligible} IN
  {WithCandidate(k, "signed", [ledger.entries[k].candidate.signed EXCEPT !.n = -@]) : k \in S}
  \cup {WithCandidate(k, "post_median", ledger.entries[k].candidate.post_median + 2) : k \in S}

Altered == Reheaded \cup Reordered \cup Renamed \cup Recounted \cup Rescored

\* A ledger altered in one place is no longer valid, with two exceptions that
\* the content ids cannot see: an empty ledger has no entry to bind its context
\* to, and an entry without a candidate may go missing
\* (validate_metric_evidence_ledger).
AlterationDetected ==
  pc = "propose" =>
    \A other \in Altered :
      (ValidLedger(other) /\ ledger.entries # <<>>) =>
        /\ [other EXCEPT !.entries = ledger.entries] = ledger
        /\ ToSet(other.entries) \subseteq ToSet(ledger.entries)
        /\ \A e \in ToSet(ledger.entries) \ ToSet(other.entries) : ~e.eligible

-----------------------------------------------------------------------------

\* The truth of a predicate in Kleene's logic: 1 true, -1 false, 0 unknown,
\* read from the ranking and not from the ledger.
Truth(p) ==
  LET sure == {c \in ToSet(baseline.candidates) :
                 c.key = p.key /\ c.signed.n # 0 /\ ~Less(c.suspicion, policy.score)}
  IN IF document.context # Context \/ document.semantics = "causal" \/ sure = {} THEN 0
     ELSE IF \E c \in sure : (c.post_median > c.pre_median) = (p.direction = "increase")
     THEN 1 ELSE -1

VerdictOf(truth) == IF truth = 1 THEN "supported" ELSE IF truth = 0 THEN "unknown" ELSE "refuted"

\* The verdict is Kleene's conjunction or disjunction of what the telemetry
\* says of each predicate, and nothing is concluded about another context or
\* about causes (verify_hypothesis).
VerdictSound ==
  verification # None =>
    LET truths == {Truth(p) : p \in ToSet(document.predicates)} IN
    /\ \A k \in DOMAIN document.predicates :
         verification.results[k].verdict = VerdictOf(Truth(document.predicates[k]))
    /\ verification.verdict =
         VerdictOf(IF document.composition = "all" THEN Min(truths) ELSE Max(truths))

Flipped(direction) == IF direction = "increase" THEN "decrease" ELSE "increase"
Opposite(p) == [p EXCEPT !.direction = Flipped(@)]
Denied(verdict) ==
  CASE verdict = "supported" -> "refuted"
    [] verdict = "refuted" -> "supported"
    [] verdict = "unknown" -> "unknown"

\* Denying every predicate and swapping all for any denies the verdict, and the
\* evidence changes sides (_evaluate_predicate, _compose).
DenialSymmetric ==
  verification # None =>
    LET denied == [document EXCEPT
                     !.composition = IF @ = "all" THEN "any" ELSE "all",
                     !.predicates = [k \in DOMAIN @ |-> Opposite(@[k])]]
        other == verify_hypothesis(denied, ledger)
    IN /\ other.verdict = Denied(verification.verdict)
       /\ other.supporting = verification.contradicting
       /\ other.contradicting = verification.supporting

\* A stored report cites only stored evidence, and each cited entry shows the
\* direction the report says was observed, at the strength the policy asks for:
\* verdict, ledger and payloads are about the same numbers.
CitationsJustify ==
  stored # None =>
    \A r \in ToSet(stored.report.results) :
      \A id \in ToSet(r.supporting \o r.contradicting) :
        \E e \in ToSet(stored.evidence) :
          /\ e.id = id
          /\ e.candidate # Null /\ e.candidate \in ToSet(stored.baseline.candidates)
          /\ ~Less(e.candidate.suspicion, stored.baseline.policy.score)
          /\ (e.candidate.signed.n > 0) = (r.observed = "increase")

\* A verdict follows from the observations by three-valued logic, is denied when
\* its predicates are, and the evidence a report cites bears it out
\* (verify_hypothesis).
VerdictJustified == VerdictSound /\ DenialSymmetric /\ CitationsJustify

\* The parser lets through only signals of the ledger, so that a report never
\* says signal_not_found, and the serialisers refuse what the verifier returns if
\* and only if an id in it cannot be encoded (parse_metric_hypothesis,
\* verification_json).
ArtefactsAgree ==
  /\ stored # None => \A r \in ToSet(stored.report.results) : r.reason # "signal_not_found"
  /\ stored # None => raw.encodable
  /\ failure = "canonical_serialization_failed" => ~raw.encodable

=============================================================================
