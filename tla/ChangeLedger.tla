---------------------------- MODULE ChangeLedger ----------------------------
(***************************************************************************)
(* The change-event counterpart of the metric ledger: domain/changes.py,    *)
(* change_evidence.py, change_hypotheses.py, change_verifier.py and the     *)
(* change half of serialization.py.                                         *)
(*                                                                         *)
(* Events arrive one by one; whenever the log has grown it can be compiled  *)
(* again and the hypothesis verified again.  An evidence id is the record   *)
(* of what is hashed, as in EvidenceLedger, and text may be as little fit   *)
(* for UTF-8 as there.  Kinds and keys are numbers in the order of their    *)
(* names.                                                                  *)
(***************************************************************************)
EXTENDS Serialization, Ordering

CONSTANTS
  ChangeEvents,     \* the events that may be observed: [key, kind, at]
  Hypotheses,       \* documents: [context, semantics, composition, predicates, encodable]
  Windows, Contexts,
  MaxChangeEvents   \* MAX_CHANGE_EVENTS

\* What the constructors of a change event, a window and a hypothesis let through.
ASSUME ChangeAssumption ==
  /\ MaxChangeEvents \in Nat
  /\ ChangeEvents \subseteq [key : Int, kind : Int, at : Int]
  /\ Windows \subseteq [start : Int, injection : Int, end : Int]
  /\ \A w \in Windows : ValidWindow(w)
  /\ \A d \in Hypotheses :
       /\ d.composition \in {"all", "any"} /\ d.encodable \in BOOLEAN
       /\ d.predicates \in
            Seq([pid : STRING, key : Int, kind : Int,
                 phase : {"within_window", "pre_injection", "post_injection"}])

VARIABLES
  context, window,
  hypothesis,       \* the document to verify
  events,           \* the events observed, in the order of their arrival
  changes,          \* the ledger of the log as it was when last compiled
  finding,          \* the verification of the ledger as it was when last verified
  compiled          \* history: the events of the log that was last compiled

changeVars == <<context, window, hypothesis, events, changes, finding, compiled>>

NoLedger == [none |-> "change ledger"]
NoResult == [none |-> "change verification"]

-----------------------------------------------------------------------------
(* The log and the ledger. *)

Identity(e) == [key |-> e.key, kind |-> e.kind, at |-> e.at]

Repeats(es) == \E j, k \in DOMAIN es : j # k /\ Identity(es[j]) = Identity(es[k])

\* Mutant: events at the same time keep the order of their arrival, in the log
\* and in the ledger.
ByTime(a, b) == a.at < b.at

ByOccurrence(a, b) ==
  \/ a.at < b.at
  \/ a.at = b.at /\ a.kind < b.kind
  \/ a.at = b.at /\ a.kind = b.kind /\ a.key < b.key

\* sorted by time, kind and key: once in ChangeEventLog, and again in the ledger.
Arranged(es) ==
  LET D == DOMAIN es IN Sorted(es, {p \in D \X D : ByOccurrence(es[p[1]], es[p[2]])})

\* ChangeEventLog.__init__ refuses its events, and _change_log does so again, or
\* arranges them.
LogAccepts(es) == Len(es) <= MaxChangeEvents /\ ~Repeats(es)
ChangeEventLog(es) == Arranged(es)

\* Mutant: an event at the time of the injection counts as before it.
PhaseClosed(at, w) ==
  IF at < w.start THEN "before_window"
  ELSE IF at <= w.injection THEN "pre_injection"
  ELSE IF at < w.end THEN "post_injection" ELSE "after_window"

phase(at, w) ==
  IF at < w.start THEN "before_window"
  ELSE IF at < w.injection THEN "pre_injection"
  ELSE IF at < w.end THEN "post_injection" ELSE "after_window"

ChangePayload(c, w, e) ==
  [context |-> c, window |-> w, event |-> Identity(e), phase |-> phase(e.at, w)]

change_evidence_id(payload) == Digest(payload, payload.context, {payload.event.key})

ChangeEntry(c, w, e) ==
  [id |-> change_evidence_id(ChangePayload(c, w, e)), phase |-> phase(e.at, w),
   key |-> e.key, kind |-> e.kind, at |-> e.at]

\* Mutant: events outside the window are left out.
BuildInside(c, w, es) ==
  LET ordered == SelectSeq(Arranged(es), LAMBDA e : w.start <= e.at /\ e.at < w.end)
  IN [k \in DOMAIN ordered |-> ChangeEntry(c, w, ordered[k])]

build_entries(c, w, es) ==
  LET ordered == Arranged(es) IN [k \in DOMAIN ordered |-> ChangeEntry(c, w, ordered[k])]

\* Mutant: the ids are not recomputed.
ChangeIdsTrusted(l) ==
  /\ ValidWindow(l.window)
  /\ \A k \in DOMAIN l.entries : l.entries[k].phase = phase(l.entries[k].at, l.window)
  /\ ~Repeats(l.entries)
  /\ \A k \in 2..Len(l.entries) : ~ByOccurrence(l.entries[k], l.entries[k - 1])

ValidChangeLedger(l) ==
  /\ ValidWindow(l.window)
  /\ \A k \in DOMAIN l.entries :
       l.entries[k].id # Invalid /\ l.entries[k].phase = phase(l.entries[k].at, l.window)
  /\ ~Repeats(l.entries)
  /\ \A k \in 2..Len(l.entries) : ~ByOccurrence(l.entries[k], l.entries[k - 1])
  /\ l.entries = build_entries(l.context, l.window, l.entries)

compile_change_event_ledger(c, w, log) ==
  LET l == [context |-> c, window |-> w, entries |-> build_entries(c, w, log)]
  IN IF ValidWindow(w) /\ LogAccepts(log) /\ ValidChangeLedger(l) THEN l ELSE NoLedger

-----------------------------------------------------------------------------
(* Verification. *)

ValidChangeDocument(d) ==
  Len(d.predicates) \in 1..MaxPredicates /\ Distinct(d.predicates, "pid")

phase_satisfies(ph, constraint) ==
  CASE constraint = "within_window" -> ph \in {"pre_injection", "post_injection"}
    [] constraint = "pre_injection" -> ph = "pre_injection"
    [] constraint = "post_injection" -> ph = "post_injection"

ChangeResult(p, verdict, reason, supporting, contradicting) ==
  [pid |-> p.pid, phase |-> p.phase, verdict |-> verdict, reason |-> reason,
   supporting |-> supporting, contradicting |-> contradicting]

ChangeUnknown(p, reason) == ChangeResult(p, "unknown", reason, <<>>, <<>>)

\* The records of the event a predicate names, and those at the time it claims.
Matching(p, entries) ==
  Kept(entries, {k \in DOMAIN entries : entries[k].key = p.key /\ entries[k].kind = p.kind})
Fitting(p, entries) ==
  LET matching == Matching(p, entries)
  IN Kept(matching, {k \in DOMAIN matching : phase_satisfies(matching[k].phase, p.phase)})

IdsOf(entries) == [k \in DOMAIN entries |-> entries[k].id]

\* Mutants: one record at another time outweighs those that fit; the records
\* that do not fit are cited too.
OneMissRefutes(p, entries) ==
  LET matching == Matching(p, entries)
      misses == SelectSeq(matching, LAMBDA e : ~phase_satisfies(e.phase, p.phase))
  IN IF matching = <<>> THEN ChangeUnknown(p, "change_not_observed")
     ELSE IF misses # <<>> THEN ChangeResult(p, "refuted", "none", <<>>, IdsOf(misses))
     ELSE ChangeResult(p, "supported", "none", IdsOf(matching), <<>>)
CitesMisses(p, entries) ==
  LET matching == Matching(p, entries)
      fits == Fitting(p, entries)
      misses == SelectSeq(matching, LAMBDA e : ~phase_satisfies(e.phase, p.phase))
  IN IF matching = <<>> THEN ChangeUnknown(p, "change_not_observed")
     ELSE ChangeResult(p, IF fits # <<>> THEN "supported" ELSE "refuted", "none",
                       IdsOf(fits), IdsOf(misses))

change_evaluate_predicate(p, entries) ==
  LET matching == Matching(p, entries)
      fits == Fitting(p, entries)
  IN IF matching = <<>> THEN ChangeUnknown(p, "change_not_observed")
     ELSE IF fits # <<>> THEN ChangeResult(p, "supported", "none", IdsOf(fits), <<>>)
     ELSE ChangeResult(p, "refuted", "none", <<>>, IdsOf(matching))

change_compose(composition, results) ==
  LET some(v) == \E k \in DOMAIN results : results[k].verdict = v IN
  CASE composition = "all" /\ some("refuted") -> "refuted"
    [] composition = "any" /\ some("supported") -> "supported"
    [] OTHER -> IF some("unknown") THEN "unknown"
                ELSE IF composition = "all" THEN "supported" ELSE "refuted"

verify_change_hypothesis(d, l) ==
  LET reason == DocumentReason(d, l)
      results == [k \in DOMAIN d.predicates |->
                    IF reason # "none" THEN ChangeUnknown(d.predicates[k], reason)
                    ELSE change_evaluate_predicate(d.predicates[k], l.entries)]
  IN [composition |-> d.composition, encodable |-> d.encodable,
      reason |-> reason, results |-> results,
      verdict |-> IF reason # "none" THEN "unknown" ELSE change_compose(d.composition, results),
      supporting |-> Cited(results, "supporting"),
      contradicting |-> Cited(results, "contradicting")]

-----------------------------------------------------------------------------
(* Serialisation. *)

\* Both end in _canonical_json, which encodes.
ChangeLedgerSerialises(l) ==
  /\ ValidChangeLedger(l) /\ Encodes(l.context, ToSet(KeysOf(l.entries)))
  /\ \A k \in 2..Len(l.entries) : ByOccurrence(l.entries[k - 1], l.entries[k])

ChangePredicateSerialises(r) ==
  /\ ToSet(r.supporting) \cap ToSet(r.contradicting) = {}
  /\ CASE r.verdict = "unknown" ->
            r.reason # "none" /\ r.supporting = <<>> /\ r.contradicting = <<>>
       [] r.verdict = "supported" ->
            r.reason = "none" /\ r.supporting # <<>> /\ r.contradicting = <<>>
       [] r.verdict = "refuted" ->
            r.reason = "none" /\ r.supporting = <<>> /\ r.contradicting # <<>>

ChangeVerificationSerialises(v) ==
  /\ v.encodable
  /\ v.results # <<>> /\ Distinct(v.results, "pid")
  /\ \A k \in DOMAIN v.results : ChangePredicateSerialises(v.results[k])
  /\ v.supporting = Cited(v.results, "supporting")
  /\ v.contradicting = Cited(v.results, "contradicting")
  /\ v.verdict = ExpectedVerdict(v.composition, v.results)
  /\ IF v.reason # "none"
     THEN /\ v.reason \in GateReasons /\ v.verdict = "unknown"
          /\ v.supporting = <<>> /\ v.contradicting = <<>>
          /\ \A k \in DOMAIN v.results :
               v.results[k].verdict = "unknown" /\ v.results[k].reason = v.reason
     ELSE \A k \in DOMAIN v.results : v.results[k].reason \notin GateReasons

-----------------------------------------------------------------------------
(* The log grows, and the ledger and the verdict follow. *)

ChangeInit ==
  /\ context \in Contexts /\ window \in Windows
  /\ hypothesis \in {d \in Hypotheses : ValidChangeDocument(d)}
  /\ events = <<>>
  /\ changes = NoLedger /\ finding = NoResult /\ compiled = {}

\* An event the log would refuse raises InvalidChangeEventError.
Observe ==
  /\ \E e \in ChangeEvents :
       /\ LogAccepts(Append(events, e))
       /\ events' = Append(events, e)
  /\ UNCHANGED <<context, window, hypothesis, changes, finding, compiled>>

\* InvalidChangeEventLedgerError leaves the caller without a ledger.
CompileChanges ==
  /\ changes' = compile_change_event_ledger(context, window, ChangeEventLog(events))
  /\ compiled' = ToSet(events)
  /\ UNCHANGED <<context, window, hypothesis, events, finding>>

VerifyChanges ==
  /\ changes # NoLedger
  /\ finding' = verify_change_hypothesis(hypothesis, changes)
  /\ UNCHANGED <<context, window, hypothesis, events, changes, compiled>>

ChangeNext == Observe \/ CompileChanges \/ VerifyChanges

ChangeSpec == ChangeInit /\ [][ChangeNext]_changeVars

-----------------------------------------------------------------------------
(* Properties. *)

\* The ledger is a function of the set of events: it holds every event that was
\* observed when it was compiled, those outside the window too, each once, and
\* would be the same had they arrived in any other order (ChangeEventLog,
\* _build_entries).
ArrivalIrrelevant ==
  changes # NoLedger =>
    /\ {Identity(e) : e \in ToSet(changes.entries)} = compiled
    /\ Len(changes.entries) = Cardinality(compiled)
    /\ \A es \in SetToSeqs(compiled) :
         compile_change_event_ledger(context, window, ChangeEventLog(es)) = changes

\* What the events that were compiled, not the ledger made of them, say of a
\* predicate: 1, -1 or 0 for unknown.
ObservedTruth(p) ==
  LET times == {e.at : e \in {x \in compiled : x.key = p.key /\ x.kind = p.kind}}
      from == IF p.phase = "post_injection" THEN window.injection ELSE window.start
      to == IF p.phase = "pre_injection" THEN window.injection ELSE window.end
  IN IF hypothesis.context # context \/ hypothesis.semantics = "causal" \/ times = {} THEN 0
     ELSE IF \E t \in times : from <= t /\ t < to THEN 1 ELSE -1

ChangeVerdictOf(truth) ==
  IF truth = 1 THEN "supported" ELSE IF truth = 0 THEN "unknown" ELSE "refuted"

\* A verification of the present ledger says of each predicate whether some
\* change observed when the ledger was compiled falls into the named part of the
\* window, and composes the answers as Kleene does: neither compiler nor verifier
\* overlooks one (_build_entries, _phase, verify_change_hypothesis).
ChangeVerdictSound ==
  (changes # NoLedger /\ finding = verify_change_hypothesis(hypothesis, changes)) =>
    LET truths == {ObservedTruth(p) : p \in ToSet(hypothesis.predicates)} IN
    /\ \A k \in DOMAIN hypothesis.predicates :
         finding.results[k].verdict = ChangeVerdictOf(ObservedTruth(hypothesis.predicates[k]))
    /\ finding.verdict =
         ChangeVerdictOf(IF hypothesis.composition = "all" THEN Min(truths) ELSE Max(truths))

\* Compiler and serialisers refuse a log, a ledger or a verification of their own
\* if and only if some text in it cannot be encoded: an empty log has no id to
\* compute, so that its context fails only where the ledger is serialised
\* (_change_log, _evidence_id, change_ledger_json, change_verification_json).
ChangeArtefactsAgree ==
  /\ compile_change_event_ledger(context, window, ChangeEventLog(events)) = NoLedger <=>
       \E e \in ToSet(events) : ~Encodes(context, {e.key})
  /\ changes # NoLedger => (ChangeLedgerSerialises(changes) <=> context \notin UnencodableContexts)
  /\ finding # NoResult => (ChangeVerificationSerialises(finding) <=> hypothesis.encodable)

\* The ledger with another value in one field of one entry.
WithValue(k, f, x) ==
  LET entry == [changes.entries[k] EXCEPT ![f] = x]
  IN [changes EXCEPT !.entries = [changes.entries EXCEPT ![k] = entry]]

\* Ledgers that differ from the compiled one in one place: in the window, alone or
\* with the phases that follow from it, in the context, in an id, in an event, and
\* in the order or number of the entries.
Shifted == [changes EXCEPT !.window.injection = @ + 1]
Rephased(k) == [changes.entries[k] EXCEPT !.phase = phase(changes.entries[k].at, Shifted.window)]
Misplaced ==
  {Shifted, [changes EXCEPT !.context = [none |-> "context"]],
   [Shifted EXCEPT !.entries = [k \in DOMAIN changes.entries |-> Rephased(k)]]}
Misnamed ==
  {WithValue(p[1], "id", changes.entries[p[2]].id) :
     p \in (DOMAIN changes.entries) \X (DOMAIN changes.entries)}
  \cup {WithValue(k, "key", changes.entries[k].key + 1) : k \in DOMAIN changes.entries}
Disarranged ==
  {[changes EXCEPT !.entries = Reverse(changes.entries)]}
  \cup {[changes EXCEPT !.entries = RemoveAt(changes.entries, k)] : k \in DOMAIN changes.entries}

ChangesAltered == Misplaced \cup Misnamed \cup Disarranged

\* A ledger altered in one place is refused, except that an event may go
\* missing: nothing binds the entries to one another
\* (validate_change_event_ledger).
ChangeAlterationDetected ==
  changes # NoLedger =>
    \A l \in ChangesAltered :
      (ValidChangeLedger(l) /\ changes.entries # <<>> /\ l.entries # <<>>) =>
        /\ l.context = changes.context /\ l.window = changes.window
        /\ ToSet(l.entries) \subseteq ToSet(changes.entries)

\* As events are added, support once found stays, and what was decided never
\* becomes unknown again: a refutation can only turn into support
\* (_evaluate_predicate, _compose).
EvidenceAccumulates ==
  [][finding # NoResult =>
       /\ finding.verdict = "supported" => finding'.verdict = "supported"
       /\ \A k \in DOMAIN finding.results :
            finding.results[k].verdict # "unknown" =>
              finding'.results[k].verdict \in
                {finding.results[k].verdict, "supported"}]_changeVars

=============================================================================
