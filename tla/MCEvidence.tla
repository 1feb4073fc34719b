----------------------------- MODULE MCEvidence -----------------------------
(***************************************************************************)
(* Instances for TLC of the two halves of the evidence domain, which share  *)
(* parser, serialiser and verdicts but no state: Analysis for metrics and   *)
(* ChangeLedger for change events.  A behaviour is one of either; the half  *)
(* that does not take part stays in an initial state.                       *)
(***************************************************************************)
EXTENDS Evidence

CONSTANTS a1, a2, a3      \* contexts; a3 cannot be encoded

-----------------------------------------------------------------------------
(* Metrics. *)

\* Three points before the injection and two after; 0 and 6 lie outside.
TheWindow == [start |-> 1, injection |-> 4, end |-> 6]

Half == [n |-> 1, d |-> 2]
Whole(n) == [n |-> n, d |-> 1]

\* The worker's default; one with a margin and a relative floor; one that takes
\* a single point and any score.
DefaultPolicy == [points |-> 2, score |-> Whole(1), margin |-> Whole(0), relative |-> 0]
StrictPolicy == [points |-> 2, score |-> Whole(1), margin |-> Half, relative |-> 3]
LaxPolicy == [points |-> 1, score |-> Whole(0), margin |-> Whole(1), relative |-> 0]
ThePolicies == {DefaultPolicy, StrictPolicy, LaxPolicy}

Values == {0, 1, 3}
Signal(key, floor, points) == [key |-> key, floor |-> floor, points |-> points]

\* All courses of one signal, one of them with points outside the window and
\* one without enough points, beside a few courses of a second one.
Courses == [1..5 -> Values] \cup [{0, 2, 3, 4, 6} -> {0, 1}] \cup [{2, 4} -> Values]
Others ==
  {[t \in 1..5 |-> 0], [t \in 1..5 |-> IF t < 4 THEN 0 ELSE 1],
   [t \in 1..5 |-> IF t < 4 THEN 3 ELSE 1], [t \in 1..3 |-> 1]}

WideTelemetries ==
  {<<Signal(1, 1, c), Signal(2, f, d)>> : c \in Courses, d \in Others, f \in {1, 2}}
  \cup {<<Signal(2, 1, c)>> : c \in Others}
  \cup {<<>>, <<Signal(1, 1, <<0>>), Signal(1, 1, <<1>>)>>}
  \cup {<<Signal(9, 1, c), Signal(2, 1, d)>> : c, d \in Others}

NoProposals ==
  {[text |-> "blank", header |-> TRUE, encodable |-> TRUE, predicates |-> <<>>,
    context |-> a1, semantics |-> "descriptive", composition |-> "all"]}

\* Up, down, flat, weak and missing signals, listed out of order.
Up == [t \in 1..5 |-> IF t < 4 THEN 0 ELSE 3]
Down == [t \in 1..5 |-> IF t < 4 THEN 3 ELSE 1]
Flat == [t \in 1..5 |-> 1]
Noisy == <<0, 1, 3, 1, 3>>
Short == [t \in 1..3 |-> 1]
FewTelemetries ==
  {<<Signal(2, 1, Down), Signal(1, 1, Up)>>, <<Signal(2, 1, Flat), Signal(1, 1, Down)>>,
   <<Signal(1, 1, Noisy), Signal(2, 1, Up)>>, <<Signal(1, 1, Short), Signal(2, 1, Up)>>,
   <<Signal(1, 1, Up)>>}

Predicates ==
  [pid : {"p", "q"}, key : {1, 2}, direction : {"increase", "decrease"}]
Stranger == [pid |-> "p", key |-> 3, direction |-> "increase"]

Answer(predicates, ctx, semantics, composition) ==
  [text |-> "object", header |-> TRUE, encodable |-> TRUE, predicates |-> predicates,
   context |-> ctx, semantics |-> semantics, composition |-> composition]

Accepted == {Answer(s, a1, "descriptive", c) :
               s \in {<<>>} \cup {<<p>> : p \in Predicates} \cup (Predicates \X Predicates),
               c \in {"all", "any"}}
Broken ==
  {[Answer(<<p>>, a1, "descriptive", "all") EXCEPT !.text = t] :
     p \in {Stranger}, t \in {"too_large", "blank", "not_json", "long_integer", "not_object", "no_list"}}
Gated == {Answer(s, c, m, "any") :
            s \in {<<p>> : p \in Predicates}, c \in {a1, a2}, m \in {"causal", "descriptive"}}
Odd ==
  {Answer(<<Stranger>>, a1, "descriptive", "all"), Answer(<<BadEntry>>, a1, "descriptive", "all"),
   Answer(<<Stranger, Stranger, Stranger>>, a1, "descriptive", "all")}
  \cup {[Answer(<<p>>, a1, "descriptive", "all") EXCEPT !.encodable = FALSE] : p \in Predicates}
  \cup {[Answer(<<p>>, a1, "descriptive", "all") EXCEPT !.header = FALSE] : p \in Predicates}
ManyProposals == Accepted \cup Broken \cup Gated \cup Odd

TheTelemetries == WideTelemetries \cup FewTelemetries
TheProposals(telemetry) == IF telemetry \in FewTelemetries THEN ManyProposals ELSE NoProposals

-----------------------------------------------------------------------------
(* Change events. *)

\* Every phase and both of its ends: before, at the start, at the injection,
\* just before the end and at the end.
TheWindows == {[start |-> 1, injection |-> 2, end |-> 4]}
TheEvents ==
  [key : {1}, kind : {1}, at : {0, 1, 2, 3, 4}]
  \cup {[key |-> 2, kind |-> 1, at |-> 1], [key |-> 2, kind |-> 1, at |-> 4],
        [key |-> 1, kind |-> 2, at |-> 2], [key |-> 9, kind |-> 1, at |-> 2]}

Claim(pid, key, ph) == [pid |-> pid, key |-> key, kind |-> 1, phase |-> ph]
Phases == {"within_window", "pre_injection", "post_injection"}
Lists ==
  {<<Claim("p", 1, ph)>> : ph \in Phases}
  \cup {<<Claim("p", 1, "post_injection"), Claim("q", 2, "pre_injection")>>,
        <<Claim("p", 1, "pre_injection"), Claim("q", 1, "post_injection")>>,
        <<Claim("p", 1, "within_window"), Claim("p", 2, "within_window")>>}

Document(c, semantics, composition, predicates) ==
  [context |-> c, semantics |-> semantics, composition |-> composition,
   predicates |-> predicates, encodable |-> TRUE]
TheHypotheses ==
  {Document(a1, "descriptive", c, s) : c \in {"all", "any"}, s \in Lists}
  \cup {Document(a2, "descriptive", "all", <<Claim("p", 1, "within_window")>>),
        Document(a1, "causal", "any", <<Claim("p", 1, "within_window")>>),
        [Document(a1, "descriptive", "all", <<Claim("p", 1, "pre_injection")>>)
           EXCEPT !.encodable = FALSE]}

-----------------------------------------------------------------------------
(* Both. *)

VARIABLE half

EvidenceInit ==
  /\ Init /\ ChangeInit
  /\ \/ /\ half = "metric"
        /\ <<context, window>> = CHOOSE x \in Contexts \X Windows : TRUE
        /\ hypothesis = CHOOSE d \in Hypotheses : ValidChangeDocument(d)
     \/ half = "change" /\ policy = DefaultPolicy

EvidenceNext ==
  \/ half = "metric" /\ Next /\ UNCHANGED <<half, changeVars>>
  \/ half = "change" /\ ChangeNext /\ UNCHANGED <<half, vars>>

EvidenceSpec == EvidenceInit /\ [][EvidenceNext]_<<half, vars, changeVars>>

=============================================================================
