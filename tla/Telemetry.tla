----------------------------- MODULE Telemetry -----------------------------
(***************************************************************************)
(* PrometheusTelemetrySource.load (runtime/prometheus.py): one range query  *)
(* for each configured selector, in turn, over a transport that blocks; all *)
(* series together are mapped to the inputs of the ranking.                 *)
(*                                                                         *)
(* A body is a record: what is wrong with it, if anything, and its series,  *)
(* each a name and a sequence of samples [at, value].  Not a number and the *)
(* infinities are the value Gap.  Floors are in units of 1 / FloorUnit.     *)
(***************************************************************************)
EXTENDS Ordering, SequencesExt

CONSTANTS
  Bodies,                  \* what the server may answer
  Queries,                 \* the number of selectors
  Timeout,                 \* the deadline handed to the transport
  MaxReads,                \* the reads after which a body has its full size
  MaxSeries, MaxPoints,    \* PrometheusLimits
  Gap

ASSUME TelemetryAssumption ==
  /\ Queries \in Nat \ {0} /\ Timeout \in Nat \ {0}    \* __init__ refuses others
  /\ MaxReads \in Nat
  /\ MaxSeries \in Nat \ {0} /\ MaxPoints \in Nat \ {0}
  /\ \A body \in Bodies :
       body.series \in Seq([name : STRING, points : Seq([at : Int, value : {Gap} \cup Int])])

VARIABLES
  pc,          \* "ask", "receive", "map", "loaded", "unavailable", "escaped"
  idle,        \* time since the transport last received something
  reads,
  answers,     \* history: the bodies accepted so far
  collected,
  inputs

vars == <<pc, idle, reads, answers, collected, inputs>>

Init ==
  /\ pc = "ask" /\ idle = 0 /\ reads = 0
  /\ answers = <<>> /\ collected = <<>> /\ inputs = <<>>

-----------------------------------------------------------------------------
(* The transport: urlopen(timeout) bounds the wait for each read. *)

Ask ==
  /\ pc = "ask"
  /\ pc' = "receive" /\ idle' = 0 /\ reads' = 0
  /\ UNCHANGED <<answers, collected, inputs>>

\* Mutant: the body is read to its end.
ReadToEnd ==
  /\ pc = "receive"
  /\ idle' = 0
  /\ UNCHANGED <<pc, reads, answers, collected, inputs>>

Read ==
  /\ pc = "receive" /\ reads < MaxReads
  /\ reads' = reads + 1 /\ idle' = 0
  /\ UNCHANGED <<pc, answers, collected, inputs>>

Wait ==
  /\ pc = "receive" /\ idle < Timeout
  /\ idle' = idle + 1
  /\ UNCHANGED <<pc, reads, answers, collected, inputs>>

\* PrometheusError, which load turns into TelemetryUnavailableError.
Unavailable == pc' = "unavailable" /\ UNCHANGED <<idle, reads, answers, collected, inputs>>

\* Refused, reset or timed out.
TransportFails == pc = "receive" /\ Unavailable

-----------------------------------------------------------------------------
(* query_range and _parse_range_response *)

WithinLimits(series) ==
  /\ Len(series) <= MaxSeries
  /\ \A k \in DOMAIN series : Len(series[k].points) <= MaxPoints

Accept(body) ==
  /\ answers' = Append(answers, body)
  /\ collected' = collected \o body.series
  /\ pc' = IF Len(answers') = Queries THEN "map" ELSE "ask"
  /\ idle' = 0 /\ reads' = 0 /\ UNCHANGED inputs

\* A body that is nested too deeply raises RecursionError, which nobody turns
\* into a PrometheusError.
Respond ==
  /\ pc = "receive"
  /\ \E body \in Bodies :
       \/ body.wrong = "nothing" /\ WithinLimits(body.series) /\ Accept(body)
       \/ body.wrong = "nothing" /\ ~WithinLimits(body.series) /\ Unavailable
       \/ body.wrong \in {"status", "size", "json", "shape", "sample"} /\ Unavailable
       \/ /\ body.wrong = "nested" /\ pc' = "escaped"
          /\ UNCHANGED <<idle, reads, answers, collected, inputs>>

-----------------------------------------------------------------------------
(* series_to_signals and to_baseline_inputs *)

\* Mutant: a gap becomes a zero.
GapsAsZeros(points) ==
  [k \in DOMAIN points |->
     IF points[k].value = Gap THEN [points[k] EXCEPT !.value = 0] ELSE points[k]]

Finite(points) == Kept(points, {k \in DOMAIN points : points[k].value # Gap})

\* A series without a finite sample reserves no name.
Emitted(series) ==
  LET finite == [k \in DOMAIN series |-> [series[k] EXCEPT !.points = Finite(@)]]
  IN Kept(finite, {k \in DOMAIN finite : finite[k].points # <<>>})

\* Mutant: the last of the series with a name is used.
RepresentableEach(signals) ==
  \A k \in DOMAIN signals :
    /\ signals[k].name # "blank"
    /\ \A i \in 2..Len(signals[k].points) : signals[k].points[i - 1].at < signals[k].points[i].at

\* What MetricSignal and SignalKey accept, and no name twice.
Representable(signals) ==
  /\ \A j, k \in DOMAIN signals : j # k => signals[j].name # signals[k].name
  /\ \A k \in DOMAIN signals :
       /\ signals[k].name # "blank"
       /\ \A i \in 2..Len(signals[k].points) :
            signals[k].points[i - 1].at < signals[k].points[i].at

Magnitude(v) == IF v < 0 THEN -v ELSE v

FloorUnit == 40      \* two times the 20 of relative_floor_fraction = 1/20

\* Mutant: without the epsilon.
floor_relative(points) == Median2([k \in DOMAIN points |-> Magnitude(points[k].value)])

\* max(absolute_epsilon, relative_floor_fraction * median(|value|)), the
\* epsilon being as good as one unit.
floor_for(points) == Max({1, Median2([k \in DOMAIN points |-> Magnitude(points[k].value)])})

to_baseline_inputs(signals) ==
  [k \in DOMAIN signals |->
     [key |-> signals[k].name, points |-> signals[k].points,
      floor |-> floor_for(signals[k].points)]]

Map ==
  /\ pc = "map"
  /\ \E signals \in {Emitted(collected)} :
       IF Representable(signals)
       THEN /\ inputs' = to_baseline_inputs(signals) /\ pc' = "loaded"
            /\ UNCHANGED <<idle, reads, answers, collected>>
       ELSE Unavailable

Next == Ask \/ Read \/ Wait \/ TransportFails \/ Respond \/ Map

Spec == Init /\ [][Next]_vars

\* The thread goes on, and a read that is due to time out does.
FairSpec == Spec /\ WF_vars(Next)

-----------------------------------------------------------------------------
(* Properties. *)

\* The samples of all accepted bodies that are numbers, by the name they have.
Observations ==
  UNION {UNION {{<<s.name, s.points[i].at, s.points[i].value>> :
                   i \in {j \in DOMAIN s.points : s.points[j].value # Gap}} :
                s \in ToSet(answers[k].series)} : k \in DOMAIN answers}

\* Telemetry is all or nothing: what is loaded is what every selector returned,
\* number for number, no gap filled and none invented; a selector that fails
\* leaves nothing.  The ranking accepts it: each key once, its times ascending
\* and its floor positive, even where selectors overlap or all values are zero
\* (_load_blocking, series_to_signals).
AllOrNothing ==
  /\ pc = "loaded" =>
       /\ Len(answers) = Queries
       /\ UNION {{<<inputs[k].key, inputs[k].points[i].at, inputs[k].points[i].value>> :
                    i \in DOMAIN inputs[k].points} : k \in DOMAIN inputs} = Observations
  /\ pc # "loaded" => inputs = <<>>
  /\ \A j, k \in DOMAIN inputs : j # k => inputs[j].key # inputs[k].key
  /\ \A k \in DOMAIN inputs :
       /\ inputs[k].floor > 0
       /\ \A i \in 2..Len(inputs[k].points) :
            inputs[k].points[i - 1].at < inputs[k].points[i].at

\* A load ends: a server that sends a little at a time is cut off by the limit on
\* the size of a body.
LoadEnds == pc = "receive" ~> pc \in {"loaded", "unavailable", "escaped"}

=============================================================================
