------------------------------ MODULE Baseline ------------------------------
(***************************************************************************)
(* domain/baseline.py: the deterministic ranking of metric shifts.          *)
(*                                                                         *)
(* Numbers are exact here where the code computes with floats.  Medians     *)
(* are kept in halves, the median absolute deviation in quarters and the    *)
(* scale in units of 1 / ScaleUnit, so that all of them are integers; a     *)
(* score is a fraction [n, d] with d > 0.  A window is a record of the      *)
(* times start <= injection < end, and a signal's points are a function     *)
(* from the times it was observed at (increasing, as MetricSignal demands)  *)
(* to values.                                                               *)
(***************************************************************************)
EXTENDS Ordering, SequencesExt

NoCandidate == [none |-> "candidate"]
NoScore == [none |-> "score"]
Infinite == [none |-> "infinite"]

ScaleUnit == 4000
RobustFactor == 1483      \* a quarter of 1.483 (1.4826 in the code), in units of 1 / ScaleUnit

-----------------------------------------------------------------------------
(* Arithmetic. *)

AbsOf(x) == IF x < 0 THEN -x ELSE x

Less(a, b) == a.n * b.d < b.n * a.d
Minus(a, b) == [n |-> a.n * b.d - b.n * a.d, d |-> a.d * b.d]

\* Mutant: the relative floor starts at 1 and not at the signal's own floor.
ScaleFromOne(preMedian, preMad, floor, relative) ==
  Max({RobustFactor * preMad,
       ScaleUnit * floor,
       (ScaleUnit \div 4) * relative * Max({AbsOf(preMedian), 2})})

\* max(robust_scale, absolute_scale_floor, relative_scale); relative_scale_floor
\* is given in halves.
ScaleOf(preMedian, preMad, floor, relative) ==
  Max({RobustFactor * preMad,
       ScaleUnit * floor,
       (ScaleUnit \div 4) * relative * Max({AbsOf(preMedian), 2 * floor})})

SignedScore(preMedian, postMedian, scale) ==
  [n |-> (ScaleUnit \div 2) * (postMedian - preMedian), d |-> scale]

AbsScore(score) == [score EXCEPT !.n = AbsOf(@)]

-----------------------------------------------------------------------------

\* The values observed from a up to but not including b, in the order of time.
ValuesIn(points, a, b) == Kept(points, {t \in DOMAIN points : a <= t /\ t < b})

score_candidate(item, policy, pre, post) ==
  LET preMedian == Median2(pre)
      postMedian == Median2(post)
      preMad == Median2([k \in DOMAIN pre |-> AbsOf(2 * pre[k] - preMedian)])
      scale == ScaleOf(preMedian, preMad, item.floor, policy.relative)
      signed == SignedScore(preMedian, postMedian, scale)
  IN [key |-> item.key, pre_count |-> Len(pre), post_count |-> Len(post),
      pre_median |-> preMedian, post_median |-> postMedian, pre_mad |-> preMad,
      floor |-> item.floor, relative |-> policy.relative,
      scale |-> scale, signed |-> signed, suspicion |-> AbsScore(signed)]

\* Mutant: a point at the time of the injection counts on both sides.
PreClosed(window, item) == ValuesIn(item.points, window.start, window.injection + 1)

PreValues(window, item) == ValuesIn(item.points, window.start, window.injection)
PostValues(window, item) == ValuesIn(item.points, window.injection, window.end)

Enough(preCount, postCount, policy) ==
  preCount >= policy.points /\ postCount >= policy.points

evaluate_signal(window, item, policy) ==
  LET pre == PreValues(window, item)
      post == PostValues(window, item)
      eligible == Enough(Len(pre), Len(post), policy)
  IN [key |-> item.key, floor |-> item.floor,
      pre_count |-> Len(pre), post_count |-> Len(post), eligible |-> eligible,
      candidate |-> IF eligible THEN score_candidate(item, policy, pre, post)
                    ELSE NoCandidate]

\* Mutant: the evaluations stay in the order of the inputs.
EvaluationsAsGiven(window, inputs, policy) ==
  [k \in DOMAIN inputs |-> evaluate_signal(window, inputs[k], policy)]

SortedByKey(seq) ==
  LET D == DOMAIN seq IN Sorted(seq, {p \in D \X D : seq[p[1]].key < seq[p[2]].key})

EvaluationsOf(window, inputs, policy) ==
  SortedByKey([k \in DOMAIN inputs |-> evaluate_signal(window, inputs[k], policy)])

BySuspicion(a, b) ==
  \/ Less(b.suspicion, a.suspicion)
  \/ ~Less(a.suspicion, b.suspicion) /\ a.key < b.key

CandidatesOf(evaluations) ==
  LET some == Kept(evaluations, {k \in DOMAIN evaluations : evaluations[k].candidate # NoCandidate})
      D == DOMAIN some
      candidates == [k \in D |-> some[k].candidate]
  IN Sorted(candidates, {p \in D \X D : BySuspicion(candidates[p[1]], candidates[p[2]])})

TopScore(candidates) ==
  IF candidates = <<>> THEN NoScore ELSE candidates[1].suspicion
SecondScore(candidates) ==
  IF Len(candidates) < 2 THEN NoScore ELSE candidates[2].suspicion
LeadOf(candidates) == Minus(candidates[1].suspicion, candidates[2].suspicion)

\* Mutant: a lead that only reaches the margin is taken for ambiguous.
AmbiguousAtMargin(policy, candidates) ==
  Len(candidates) > 1 /\ ~Less(policy.margin, LeadOf(candidates))

Ambiguous(policy, candidates) ==
  Len(candidates) > 1 /\ Less(LeadOf(candidates), policy.margin)

\* A duplicate key raises DuplicateSignalError before anything is computed.
DuplicateKeys(inputs) == \E j, k \in DOMAIN inputs : j # k /\ inputs[j].key = inputs[k].key

rank_metric_shifts(window, inputs, policy) ==
  LET evaluations == EvaluationsOf(window, inputs, policy)
      candidates == CandidatesOf(evaluations)
      Abstain(reason) ==
        [result |-> "abstention", reason |-> reason, count |-> Len(candidates),
         top |-> TopScore(candidates), second |-> SecondScore(candidates),
         policy |-> policy, evaluations |-> evaluations, candidates |-> candidates]
  IN IF candidates = <<>> THEN Abstain("insufficient_evidence")
     ELSE IF Less(TopScore(candidates), policy.score) THEN Abstain("weak_evidence")
     ELSE IF Ambiguous(policy, candidates) THEN Abstain("ambiguous_evidence")
     ELSE [result |-> "ranking",
           lead |-> IF Len(candidates) = 1 THEN Infinite ELSE LeadOf(candidates),
           policy |-> policy, evaluations |-> evaluations, candidates |-> candidates]

=============================================================================
