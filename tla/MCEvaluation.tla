---------------------------- MODULE MCEvaluation ----------------------------
(***************************************************************************)
(* Instances for TLC of the two halves of evaluation/, which share no state *)
(* and run one after the other: Rcaeval loads the cases, Harness scores     *)
(* them.  A behaviour is one of either; the half that does not take part    *)
(* stays in an initial state.                                               *)
(***************************************************************************)
EXTENDS Harness, Rcaeval

-----------------------------------------------------------------------------
(* The batch. *)

Signal(key, service, suspicion) == [key |-> key, service |-> service, suspicion |-> suspicion]

\* Two signals of one service, of the true one or of another, and ties.
First == [truth |-> "cart",
          signals |-> <<Signal(1, "cart", 2), Signal(2, "pay", 3), Signal(3, "pay", 5),
                        Signal(4, "web", 3)>>]
Second == [truth |-> "web", signals |-> <<Signal(1, "pay", 3), Signal(2, "web", 3), Signal(3, "web", 5)>>]
TheBatch == <<First, Second, First, Second>>

TheBehaviours ==
  [failures : {0}, refused : {FALSE}, supported : SUBSET (1..3) \cup {{1, 4}, 1..4}]
  \cup [failures : 1..3, refused : {FALSE}, supported : {{1, 2}}]
  \cup [failures : {1}, refused : {TRUE}, supported : {{1, 2}}]

-----------------------------------------------------------------------------
(* The split. *)

Row(at, cells) == [at |-> at, cells |-> cells]
File(rows, inject) == [text |-> "readable", width |-> 2, rows |-> rows, inject |-> inject]

\* Two rows with gaps, and an injection before, between, at and after them.
GoodRows == {<<Row(2, <<1, 1>>)>>, <<Row(2, <<Gap, 1>>), Row(4, <<3, Gap>>)>>,
             <<Row(2, <<1, 1>>), Row(4, <<Gap, Gap>>)>>}
BadRows == {<<>>, <<Row(2, <<1>>)>>, <<Row(Bad, <<1, 1>>), Row(4, <<1, 1>>)>>,
            <<Row(2, <<1, 1>>), Row(2, <<1, 1>>)>>, <<Row(2, <<1, Bad>>)>>,
            <<Row(2, <<1, 1>>), Row(3, <<1, 1>>), Row(4, <<1, 1>>)>>}
Files ==
  {File(rows, t) : rows \in GoodRows, t \in {1, 2, 3, 4, 5}}
  \cup {File(rows, 2) : rows \in BadRows}
  \cup {File(<<Row(2, <<1, 1>>)>>, Bad), [File(<<>>, 2) EXCEPT !.text = "unreadable"]}
Simple == File(<<Row(2, <<1, Gap>>), Row(3, <<1, 1>>)>>, 3)
Broken == File(<<>>, 2)

Dir(metrics, file) ==
  [directory |-> TRUE, metrics |-> metrics, injection |-> metrics, labelled |-> TRUE,
   file |-> file]
Plain == Dir(FALSE, Broken)
Case(file) == Dir(TRUE, file)

Tree(first, second, inner) ==
  (<<>> :> Plain) @@ (<<1>> :> Plain) @@ (<<1, 1>> :> first) @@ (<<1, 1, 1>> :> inner)
  @@ (<<1, 2>> :> second) @@ (<<2>> :> Case(Simple))

\* Cases beside and inside one another, of which the second varies; a root that
\* is a case or no directory; a case without its injection file or label.
TheTrees ==
  {Tree(Case(Simple), Case(f), Case(Simple)) : f \in Files}
  \cup {Tree(Plain, Case(f), Case(g)) : f, g \in {Simple, Broken}}
  \cup {<<>> :> [Plain EXCEPT !.directory = FALSE], <<>> :> Plain, <<>> :> Case(Simple)}
  \cup {(<<>> :> Plain) @@ (<<1>> :> [Case(Simple) EXCEPT !.injection = FALSE]),
        (<<>> :> Plain) @@ (<<1>> :> [Case(Simple) EXCEPT !.labelled = FALSE])}
  \cup {(<<>> :> Plain) @@ [d \in {<<k>> : k \in 1..4} |-> Case(Simple)],
        (<<>> :> Plain) @@ [d \in {<<k>> : k \in 1..9} |-> IF d[1] < 3 THEN Case(Simple) ELSE Plain]}

TheRequests ==
  [split : {"OB"}, permit : {FALSE}, skip : BOOLEAN, persist : BOOLEAN]
  \cup [split : {"SS", "TT"}, permit : BOOLEAN, skip : {FALSE}, persist : {FALSE}]

-----------------------------------------------------------------------------
(* Both. *)

VARIABLE half

EvaluationInit ==
  /\ BatchInit /\ Init
  /\ \/ /\ half = "batch"
        /\ request = [split |-> "OB", permit |-> FALSE, skip |-> FALSE, persist |-> FALSE]
        /\ tree = (<<>> :> Plain) /\ destination = Absent
     \/ /\ half = "split"
        /\ provider = [c \in Scored |-> [failures |-> 0, refused |-> FALSE, supported |-> {}]]

EvaluationNext ==
  \/ half = "batch" /\ BatchNext /\ UNCHANGED <<half, vars>>
  \/ half = "split" /\ Next /\ UNCHANGED <<half, batchVars>>

allVars == <<half, batchVars, vars>>

\* Fair as FairBatchSpec of Harness; nothing is assumed of the adapter.
EvaluationSpec ==
  /\ EvaluationInit /\ [][EvaluationNext]_allVars
  /\ WF_allVars(half = "batch" /\ BatchNext /\ UNCHANGED <<half, vars>>)

\* The evaluation of a batch ends, with fewer places than cases and a provider
\* that keeps failing (EvaluationEnds of Harness).
BatchEnds == half = "batch" => EvaluationEnds

=============================================================================
