---------------------------- MODULE MCTelemetry ----------------------------
(* Instances of Telemetry for TLC. *)
EXTENDS Telemetry

Sample(at, value) == [at |-> at, value |-> value]
Series(name, points) == [name |-> name, points |-> points]

\* Up to two samples with gaps, in either order; a third is beyond the limit.
Timelines ==
  {<<>>} \cup {<<Sample(1, v)>> : v \in {Gap, 0}}
  \cup {<<Sample(a, v), Sample(b, w)>> : a, b \in {1, 2}, v, w \in {Gap, 0, -3}}
  \cup {<<Sample(1, 0), Sample(2, 0), Sample(3, 0)>>}

Good(series) == [wrong |-> "nothing", series |-> series]
Bad(w) == [wrong |-> w, series |-> <<>>]

TheBodies ==
  {Good(<<>>), Good(<<Series("blank", <<Sample(1, 0)>>)>>)}
  \cup {Good(<<Series(n, t)>>) : n \in {"a", "b"}, t \in Timelines}
  \cup {Good(<<Series("a", <<Sample(1, v)>>), Series(n, <<Sample(2, 3)>>)>>) :
          n \in {"a", "b"}, v \in {Gap, 3}}
  \cup {Good(<<Series("a", <<>>), Series("b", <<>>), Series("c", <<>>)>>)}
  \cup {Bad(w) : w \in {"status", "size", "json", "shape", "sample"}}

NestedBodies == TheBodies \cup {Bad("nested")}

=============================================================================
