------------------------------ MODULE Ordering ------------------------------
(***************************************************************************)
(* What the comprehensions, sorted() and statistics.median of Python        *)
(* return, stated by counting: the element in place k is the one with k - 1 *)
(* others before it.  An order is a set of pairs.                           *)
(***************************************************************************)
EXTENDS Integers, Sequences, FiniteSets

\* The elements of a finite set in a strict total order on them.
Ordered(S, order) ==
  [k \in 1..Cardinality(S) |->
     CHOOSE x \in S : Cardinality({y \in S : <<y, x>> \in order}) = k - 1]

\* The numbers of a set, from the least.
Ascending(S) == Ordered(S, {p \in S \X S : p[1] < p[2]})

\* The elements of a sequence at the given positions, in its own order.
Kept(s, positions) ==
  LET at == Ascending(positions) IN [k \in DOMAIN at |-> s[at[k]]]

\* sorted(s): before has the pairs of positions of which the first has the
\* smaller key, and elements with the same key keep their order.
Sorted(s, before) ==
  LET D == DOMAIN s
      order == {p \in D \X D : p \in before \/ (p[1] < p[2] /\ <<p[2], p[1]>> \notin before)}
      at == Ordered(D, order)
  IN [k \in DOMAIN at |-> s[at[k]]]

\* x for s in sequences for x in s
Joined(sequences) ==
  LET places == UNION {{j} \X DOMAIN sequences[j] : j \in DOMAIN sequences}
      order == {p \in places \X places :
                  p[1][1] < p[2][1] \/ (p[1][1] = p[2][1] /\ p[1][2] < p[2][2])}
      at == Ordered(places, order)
  IN [k \in DOMAIN at |-> sequences[at[k][1]][at[k][2]]]

\* statistics.median, doubled.
Median2(values) ==
  LET D == DOMAIN values
      s == Sorted(values, {p \in D \X D : values[p[1]] < values[p[2]]})
  IN s[(Len(s) + 1) \div 2] + s[Len(s) \div 2 + 1]

=============================================================================
