------------------------------ MODULE Harness ------------------------------
(***************************************************************************)
(* evaluation/harness: evaluate_batch with the model arm (runner.py) and    *)
(* the scores it aggregates (scoring.py).  The tasks of all cases run at    *)
(* once, as many inside as the semaphore lets in; each asks the provider,   *)
(* waiting and asking again when it fails.                                  *)
(*                                                                         *)
(* A case is its true service and the signals of its ledger.  What the      *)
(* provider does for a case does not depend on when it is asked: it fails a *)
(* number of times, and then its answer is refused by the client or the     *)
(* parser, or the verifier supports a set of its signals.                   *)
(***************************************************************************)
EXTENDS Ordering, SequencesExt

CONSTANTS
  Batch,           \* the cases: [truth, signals], a signal [key, service, suspicion]
  Limit,           \* evaluate_batch(limit)
  Concurrency,
  MaxRetries,      \* _MAX_PROVIDER_RETRIES
  Behaviours       \* of the provider: [failures, refused, supported]

Signals == [key : Int, service : STRING, suspicion : Int]

\* A ledger has one entry per signal.
ASSUME HarnessAssumption ==
  /\ Limit \in 0..Len(Batch)
  /\ Concurrency \in Nat \ {0}        \* evaluate_batch refuses others
  /\ MaxRetries \in Nat
  /\ Batch \in Seq([truth : STRING, signals : Seq(Signals)])
  /\ \A c \in DOMAIN Batch : \A j, k \in DOMAIN Batch[c].signals :
       j # k => Batch[c].signals[j].key # Batch[c].signals[k].key
  /\ \A b \in Behaviours : b.failures \in Nat /\ b.refused \in BOOLEAN

Scored == 1..Limit

VARIABLES
  provider,     \* what it does for each case
  stage,        \* of every task: "waiting", "asking", "pausing", "predicted"
  attempt,      \* the failures a task has met
  prediction,   \* [services, abstained]
  summary

batchVars == <<provider, stage, attempt, prediction, summary>>

NoSummary == [cases |-> -1]
Abstention == [services |-> <<>>, abstained |-> TRUE]

BatchInit ==
  /\ provider \in [Scored -> Behaviours]
  /\ stage = [c \in Scored |-> "waiting"]
  /\ attempt = [c \in Scored |-> 0]
  /\ prediction = [c \in Scored |-> Abstention]
  /\ summary = NoSummary

-----------------------------------------------------------------------------
(* predict_services_with_llm, inside the semaphore. *)

\* Mutant: the semaphore is not released.
InsideForGood == {c \in Scored : stage[c] # "waiting"}

Inside == {c \in Scored : stage[c] \in {"asking", "pausing"}}

\* Mutant: a task that pauses leaves its place to another.
MayEnterPausing == Cardinality({c \in Scored : stage[c] = "asking"}) < Concurrency

MayEnter == Cardinality(Inside) < Concurrency

Enter(c) ==
  /\ stage[c] = "waiting" /\ MayEnter
  /\ stage' = [stage EXCEPT ![c] = "asking"]
  /\ UNCHANGED <<provider, attempt, prediction, summary>>

Predict(c, p) ==
  /\ prediction' = [prediction EXCEPT ![c] = p]
  /\ stage' = [stage EXCEPT ![c] = "predicted"]

\* By falling suspicion, then by key.
Before(a, b) == a.suspicion > b.suspicion \/ (a.suspicion = b.suspicion /\ a.key < b.key)

\* Mutant: the service of every signal is listed.
EachService(signals) == signals

\* _dedup: of the signals of each service the one that comes first.
FirstOfEach(signals) ==
  {s \in signals : \A o \in signals : o.service = s.service => ~Before(o, s)}

\* The services of the signals whose evidence is cited in support.
Ranked(signals, supported) ==
  LET firsts == FirstOfEach({s \in ToSet(signals) : s.key \in supported})
      order == Ordered(firsts, {p \in firsts \X firsts : Before(p[1], p[2])})
  IN [k \in DOMAIN order |-> order[k].service]

\* A refused answer is an abstention, and so is one that supports nothing.
Answers(c) ==
  /\ stage[c] = "asking" /\ attempt[c] = provider[c].failures
  /\ \E services \in {Ranked(Batch[c].signals, provider[c].supported)} :
       Predict(c, IF provider[c].refused THEN Abstention
                  ELSE [services |-> services, abstained |-> services = <<>>])
  /\ UNCHANGED <<provider, attempt, summary>>

\* Mutant: the last retry is not made.
ExhaustedEarly(n) == n >= MaxRetries

Exhausted(n) == n > MaxRetries

\* The provider fails: a pause, or an abstention after the last retry.
ProviderFails(c) ==
  /\ stage[c] = "asking" /\ attempt[c] < provider[c].failures
  /\ attempt' = [attempt EXCEPT ![c] = @ + 1]
  /\ IF Exhausted(attempt[c] + 1) THEN Predict(c, Abstention)
     ELSE stage' = [stage EXCEPT ![c] = "pausing"] /\ UNCHANGED prediction
  /\ UNCHANGED <<provider, summary>>

Resume(c) ==
  /\ stage[c] = "pausing"
  /\ stage' = [stage EXCEPT ![c] = "asking"]
  /\ UNCHANGED <<provider, attempt, prediction, summary>>

-----------------------------------------------------------------------------
(* score_case and aggregate *)

\* 0 where the true service is not among the predicted.
HitRank(services, truth) ==
  LET hits == {k \in DOMAIN services : services[k] = truth} IN IF hits = {} THEN 0 ELSE Min(hits)

score_case(c) ==
  [abstained |-> prediction[c].abstained,
   rank |-> IF prediction[c].abstained THEN 0 ELSE HitRank(prediction[c].services, Batch[c].truth)]

\* The numerators and denominators of the ratios; of the reciprocal ranks how
\* often each of them is added.
aggregate(score) ==
  LET answered == {c \in Scored : ~score[c].abstained}
      ranked(ranks) == {c \in Scored : score[c].rank \in ranks}
  IN [cases |-> Limit, answered |-> Cardinality(answered),
      top1 |-> Cardinality(ranked({1})), top3 |-> Cardinality(ranked(1..3)),
      mrr |-> [r \in {score[c].rank : c \in Scored} \ {0} |-> Cardinality(ranked({r}))]]

\* asyncio.gather has every task's prediction, in the order of the cases.
Aggregate ==
  /\ summary = NoSummary /\ \A c \in Scored : stage[c] = "predicted"
  /\ summary' = aggregate([c \in Scored |-> score_case(c)])
  /\ UNCHANGED <<provider, stage, attempt, prediction>>

Step(c) == Enter(c) \/ Answers(c) \/ ProviderFails(c) \/ Resume(c)

BatchNext == (\E c \in Scored : Step(c)) \/ Aggregate

BatchSpec == BatchInit /\ [][BatchNext]_batchVars

\* The event loop runs; a call to the provider returns and a pause ends.
FairBatchSpec == BatchSpec /\ WF_batchVars(BatchNext)

-----------------------------------------------------------------------------
(* Properties. *)

\* What the batch should score, without order: a case is answered when the
\* provider gives a usable answer within its retries, and its true service
\* ranks behind the services that have a supported signal before all of its own.
Usable(c) ==
  /\ provider[c].failures <= MaxRetries /\ ~provider[c].refused
  /\ \E s \in ToSet(Batch[c].signals) : s.key \in provider[c].supported
TrueRank(c) ==
  LET supported == {s \in ToSet(Batch[c].signals) : s.key \in provider[c].supported}
      own == {s \in supported : s.service = Batch[c].truth}
      ahead == {s \in supported : \A o \in own : Before(s, o)}
  IN IF own = {} THEN 0 ELSE 1 + Cardinality({s.service : s \in ahead})

\* The summary is a function of the batch and of what the provider does, however
\* the tasks interleave, fail and retry ("Scoring is order-independent, so
\* concurrency does not affect the aggregate result"); a case is an abstention
\* for the provider's failures only after all retries ("so infrastructure noise
\* does not masquerade as the model declining to support a claim").  Until then
\* no more tasks are inside than the semaphore admits.
ConcurrencyIrrelevant ==
  /\ Cardinality(Inside) <= Concurrency
  /\ summary # NoSummary =>
       LET answered == {c \in Scored : Usable(c)}
           ranked(ranks) == {c \in answered : TrueRank(c) \in ranks} IN
       /\ summary.answered = Cardinality(answered)
       /\ summary.top1 = Cardinality(ranked({1})) /\ summary.top3 = Cardinality(ranked(1..3))
       /\ summary.mrr = [r \in {TrueRank(c) : c \in answered} \ {0} |-> Cardinality(ranked({r}))]

\* The evaluation ends, with fewer places than cases and a provider that keeps
\* failing.
EvaluationEnds == <>(summary # NoSummary)

=============================================================================
