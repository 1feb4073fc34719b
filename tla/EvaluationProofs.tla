-------------------------- MODULE EvaluationProofs --------------------------
(***************************************************************************)
(* For every split, request and limits: the sidecar is whole, and the cases *)
(* of a load are faithful to the split.  For every batch, provider, number  *)
(* of places and retries: the summary does not depend on the interleaving.  *)
(***************************************************************************)
EXTENDS Harness, Rcaeval, OrderingProofs

-----------------------------------------------------------------------------
(* persist_sidecar *)

\* Before the destination is replaced it is what it was, and what replaces it is
\* complete, after which there is no temporary file.  On every way out but a kill
\* and an unlink that fails, what is not complete is removed.
SidecarInv ==
  /\ pc \in {"guard", "scan", "case", "temp", "write", "replace", "replaced", "unlink",
             "loaded", "failed", "unremoved", "dead"}
  /\ pc = "replaced" \/ (pc = "loaded" /\ request.persist) => destination = entries
  /\ pc \in {"unremoved", "dead"} => destination \in {Absent, Old, entries}
  /\ pc \notin {"replaced", "loaded", "unremoved", "dead"} => destination \in {Absent, Old}
  /\ pc = "loaded" /\ ~request.persist => destination \in {Absent, Old}
  /\ temporary # Absent => destination \in {Absent, Old}
  /\ pc \in {"temp", "write", "replace", "replaced", "unlink"} => request.persist
  /\ pc = "replace" => temporary = entries
  /\ pc \notin {"write", "replace", "unlink", "unremoved", "dead"} => temporary = Absent

\* The invariant holds in every step of the load.
LEMMA SidecarInductive == Spec => []SidecarInv
<1>1. Init => SidecarInv
  BY DEF Init, SidecarInv
<1>2. SidecarInv /\ [Next]_vars => SidecarInv'
  <2> SUFFICES ASSUME SidecarInv, [Next]_vars PROVE SidecarInv'
    OBVIOUS
  <2> USE DEF SidecarInv
  <2>1. CASE Guard
    BY <2>1 DEF Guard, files, batch
  <2>2. CASE Scan
    BY <2>2 DEF Scan, files, batch
  <2>3. CASE ScanEnds
    BY <2>3 DEF ScanEnds, files, batch
  <2>4. CASE NoFreshId
    BY <2>4 DEF NoFreshId, files, batch
  <2>5. CASE LoadCase
    BY <2>5 DEF LoadCase, TakeCase, files
  <2>6. CASE CasesEnd
    BY <2>6 DEF CasesEnd, files, batch
  <2>7. CASE CreateTemporary
    BY <2>7 DEF CreateTemporary, batch
  <2>8. CASE TemporaryFails
    BY <2>8 DEF TemporaryFails, files, batch
  <2>9. CASE WriteTemporary
    BY <2>9 DEF WriteTemporary, batch
  <2>10. CASE Replace
    BY <2>10 DEF Replace, files, batch
  <2>11. CASE Unlink
    BY <2>11 DEF Unlink, batch
  <2>12. CASE UnlinkFails
    BY <2>12 DEF UnlinkFails, files, batch
  <2>13. CASE Crash
    BY <2>13 DEF Crash, batch
  <2>14. CASE UNCHANGED vars
    BY <2>14 DEF vars, files, batch
  <2>15. QED
    BY <2>1, <2>2, <2>3, <2>4, <2>5, <2>6, <2>7, <2>8, <2>9, <2>10, <2>11, <2>12, <2>13, <2>14
       DEF Next
<1>3. QED
  BY <1>1, <1>2, PTL DEF Spec

\* The sidecar is the old one or the complete new one, in whatever step the
\* process fails or dies; a temporary file is left only by a kill or an unlink
\* that fails, and never beside a destination that was replaced
\* (persist_sidecar).
THEOREM SidecarIsWhole == Spec => []SidecarWhole
<1>1. SidecarInv => SidecarWhole
  BY DEF SidecarInv, SidecarWhole
<1>2. QED
  BY <1>1, SidecarInductive, PTL

-----------------------------------------------------------------------------
(* Paths. *)

Prefix(a, b) == Len(a) <= Len(b) /\ \A i \in 1..Len(a) : a[i] = b[i]

\* a and all below it come before b and all below that.
Left(a, b) ==
  \E k \in 1..Len(a) :
    k <= Len(b) /\ a[k] < b[k] /\ \A i \in 1..(k - 1) : a[i] = b[i]

\* What it is to be a prefix.
LEMMA PrefixIs ==
  ASSUME NEW a \in Seq(Nat), NEW b \in Seq(Nat)
  PROVE  IsPrefix(a, b) <=> Prefix(a, b)
<1>1. ASSUME Len(a) <= Len(b)
      PROVE  (SubSeq(a, 1, Len(a)) = SubSeq(b, 1, Len(a))) <=> \A i \in 1..Len(a) : a[i] = b[i]
  <2>1. SubSeq(a, 1, Len(a)) = [i \in 1..Len(a) |-> a[i]]
    OBVIOUS
  <2>2. SubSeq(b, 1, Len(a)) = [i \in 1..Len(a) |-> b[i]]
    BY <1>1
  <2>3. QED
    BY <2>1, <2>2
<1>2. QED
  BY <1>1 DEF IsPrefix, Prefix

\* A prefix as long as the path is the path.
LEMMA PrefixSame ==
  ASSUME NEW a \in Seq(Nat), NEW b \in Seq(Nat), Prefix(a, b), Len(a) = Len(b)
  PROVE  a = b
BY SMTT(40) DEF Prefix

\* A path to the left of another is earlier than it.
LEMMA LeftEarlier ==
  ASSUME NEW a \in Seq(Nat), NEW b \in Seq(Nat), Left(a, b)
  PROVE  Earlier(a, b)
<1>1. PICK k \in 1..Len(a) : k <= Len(b) /\ a[k] < b[k] /\ \A i \in 1..(k - 1) : a[i] = b[i]
  BY DEF Left
<1>2. SubSeq(a, 1, k - 1) = [i \in 1..(k - 1) |-> a[i]] /\ SubSeq(b, 1, k - 1) = [i \in 1..(k - 1) |-> b[i]]
  BY <1>1
<1>3. SubSeq(a, 1, k - 1) = SubSeq(b, 1, k - 1)
  BY <1>1, <1>2
<1>4. k \in DOMAIN a \cap DOMAIN b
  BY <1>1
<1>5. QED
  BY <1>1, <1>3, <1>4 DEF Earlier

\* What a path is to the left of, so are the paths it is a prefix of.
LEMMA LeftExtends ==
  ASSUME NEW a \in Seq(Nat), NEW b \in Seq(Nat), NEW c \in Seq(Nat), Prefix(a, c)
  PROVE  /\ Left(a, b) => Left(c, b)
         /\ Left(b, a) => Left(b, c)
<1>1. ASSUME Left(a, b) PROVE Left(c, b)
  <2>1. PICK k \in 1..Len(a) : k <= Len(b) /\ a[k] < b[k] /\ \A i \in 1..(k - 1) : a[i] = b[i]
    BY <1>1 DEF Left
  <2>2. k \in 1..Len(c) /\ c[k] < b[k] /\ \A i \in 1..(k - 1) : c[i] = b[i]
    BY <2>1 DEF Prefix
  <2>3. QED
    BY <2>1, <2>2 DEF Left
<1>2. ASSUME Left(b, a) PROVE Left(b, c)
  <2>1. PICK k \in 1..Len(b) : k <= Len(a) /\ b[k] < a[k] /\ \A i \in 1..(k - 1) : b[i] = a[i]
    BY <1>2 DEF Left
  <2>2. k <= Len(c) /\ b[k] < c[k] /\ \A i \in 1..(k - 1) : b[i] = c[i]
    BY <2>1 DEF Prefix
  <2>3. QED
    BY <2>1, <2>2 DEF Left
<1>3. QED
  BY <1>1, <1>2

\* A sequence without its last element.
LEMMA FrontIs ==
  ASSUME NEW A, NEW s \in Seq(A), s # <<>>
  PROVE  /\ Len(s) \in Nat \ {0} /\ Last(s) = s[Len(s)] /\ Last(s) \in A
         /\ Front(s) \in Seq(A) /\ Len(Front(s)) = Len(s) - 1
         /\ \A k \in 1..(Len(s) - 1) : Front(s)[k] = s[k]
<1>1. Len(s) \in Nat \ {0} /\ s[Len(s)] \in A
  OBVIOUS
<1>2. Front(s) = [k \in 1..(Len(s) - 1) |-> s[k]]
  BY <1>1 DEF Front
<1>3. QED
  BY <1>1, <1>2 DEF Last

\* A sequence and then another.
LEMMA JoinIs ==
  ASSUME NEW A, NEW s \in Seq(A), NEW u \in Seq(A)
  PROVE  /\ s \o u \in Seq(A) /\ Len(s \o u) = Len(s) + Len(u)
         /\ \A k \in 1..Len(s) : (s \o u)[k] = s[k]
         /\ \A k \in 1..Len(u) : (s \o u)[Len(s) + k] = u[k]
OBVIOUS

\* A sequence and one more element.
LEMMA AppendIs ==
  ASSUME NEW A, NEW s \in Seq(A), NEW x \in A
  PROVE  /\ Append(s, x) \in Seq(A) /\ Len(Append(s, x)) = Len(s) + 1
         /\ \A k \in 1..Len(s) : Append(s, x)[k] = s[k]
         /\ Append(s, x)[Len(s) + 1] = x
OBVIOUS

-----------------------------------------------------------------------------
(* discover_cases *)

\* A directory with metrics that is not inside another one.
Outermost(t, d) ==
  /\ d \in DOMAIN t /\ t[d].metrics
  /\ \A e \in DOMAIN t : IsStrictPrefix(e, d) => ~t[e].metrics

\* What is on the stack and what was found hold all cases between them; the stack
\* has the earliest directories on top, and all it holds comes after the cases
\* found.
WalkFacts(t, stack, found) ==
  /\ stack \in Seq(DOMAIN t) /\ found \in Seq(DOMAIN t)
  /\ \A k \in DOMAIN stack : \A e \in DOMAIN t : IsStrictPrefix(e, stack[k]) => ~t[e].metrics
  /\ \A k \in DOMAIN found : Outermost(t, found[k])
  /\ \A d \in DOMAIN t : Outermost(t, d) =>
       \/ \E k \in DOMAIN found : found[k] = d
       \/ \E k \in DOMAIN stack : IsPrefix(stack[k], d)
  /\ \A j, k \in DOMAIN found : j < k => Left(found[j], found[k])
  /\ \A j \in DOMAIN found : \A k \in DOMAIN stack : Left(found[j], stack[k])
  /\ \A j, k \in DOMAIN stack : j < k => Left(stack[k], stack[j])

IsTree(t) ==
  /\ DOMAIN t \subseteq Seq(Nat)
  /\ \A d \in DOMAIN t : \A k \in 0..Len(d) : SubSeq(d, 1, k) \in DOMAIN t

\* A case on top of the stack.
LEMMA WalkCollects ==
  ASSUME NEW t, IsTree(t), NEW stack, NEW found, WalkFacts(t, stack, found),
         stack # <<>>, t[Last(stack)].metrics
  PROVE  WalkFacts(t, Front(stack), Append(found, Last(stack)))
<1> DEFINE n == Len(stack)
           d == stack[n]
           m == Len(found)
<1>1. PICK f : f = Front(stack)
  OBVIOUS
<1>2. PICK g : g = Append(found, Last(stack))
  OBVIOUS
<1>3. /\ n \in Nat \ {0} /\ d \in DOMAIN t /\ Last(stack) = d /\ n \in DOMAIN stack
      /\ f \in Seq(DOMAIN t) /\ DOMAIN f = 1..(n - 1) /\ \A k \in 1..(n - 1) : f[k] = stack[k] /\ k \in DOMAIN stack
  BY <1>1 DEF WalkFacts, Front, Last
<1>4. /\ m \in Nat /\ g \in Seq(DOMAIN t) /\ DOMAIN g = 1..(m + 1) /\ g[m + 1] = d /\ DOMAIN found = 1..m
      /\ \A k \in 1..m : g[k] = found[k]
  BY <1>2, <1>3 DEF WalkFacts
<1>5. t[d].metrics
  BY <1>3
<1> HIDE DEF n, d, m
<1>6. Outermost(t, d)
  BY <1>3, <1>5 DEF WalkFacts, Outermost, d
<1>7. \A k \in DOMAIN g : Outermost(t, g[k])
  BY <1>4, <1>6 DEF WalkFacts
<1>8. ASSUME NEW e \in DOMAIN t, Outermost(t, e)
      PROVE  (\E k \in DOMAIN g : g[k] = e) \/ \E k \in DOMAIN f : IsPrefix(f[k], e)
  <2>1. CASE \E k \in DOMAIN found : found[k] = e
    BY <2>1, <1>4
  <2>2. CASE \E k \in DOMAIN stack : IsPrefix(stack[k], e)
    <3>1. PICK k \in DOMAIN stack : IsPrefix(stack[k], e)
      BY <2>2
    <3>2. CASE k = n
      <4>1. IsPrefix(d, e)
        BY <3>1, <3>2 DEF d
      <4>2. d = e
        BY <4>1, <1>3, <1>5, <1>8 DEF Outermost, IsStrictPrefix
      <4>3. QED
        BY <4>2, <1>4
    <3>3. CASE k # n
      <4>1. k \in 1..(n - 1)
        BY <3>3, <1>3 DEF n, WalkFacts
      <4>2. QED
        BY <4>1, <3>1, <1>3
    <3>4. QED
      BY <3>2, <3>3
  <2>3. QED
    BY <2>1, <2>2, <1>8 DEF WalkFacts
<1>9. \A j, k \in DOMAIN g : j < k => Left(g[j], g[k])
  <2> SUFFICES ASSUME NEW j \in DOMAIN g, NEW k \in DOMAIN g, j < k PROVE Left(g[j], g[k])
    OBVIOUS
  <2>1. j \in 1..m /\ g[j] = found[j]
    BY <1>4
  <2>2. CASE k \in 1..m
    BY <2>1, <2>2, <1>4 DEF WalkFacts
  <2>3. CASE k = m + 1
    BY <2>1, <2>3, <1>3, <1>4 DEF WalkFacts, d
  <2>4. QED
    BY <2>2, <2>3, <1>4
<1>10. \A j \in DOMAIN g : \A k \in DOMAIN f : Left(g[j], f[k])
  <2> SUFFICES ASSUME NEW j \in DOMAIN g, NEW k \in DOMAIN f PROVE Left(g[j], f[k])
    OBVIOUS
  <2>1. k \in DOMAIN stack /\ k < n /\ f[k] = stack[k]
    BY <1>3
  <2>2. CASE j \in 1..m
    BY <2>1, <2>2, <1>4 DEF WalkFacts
  <2>3. CASE j = m + 1
    BY <2>1, <2>3, <1>3, <1>4 DEF WalkFacts, d
  <2>4. QED
    BY <2>2, <2>3, <1>4
<1>11. \A j, k \in DOMAIN f : j < k => Left(f[k], f[j])
  BY <1>3 DEF WalkFacts
<1>12. \A k \in DOMAIN f : \A e \in DOMAIN t : IsStrictPrefix(e, f[k]) => ~t[e].metrics
  BY <1>3 DEF WalkFacts
<1>13. WalkFacts(t, f, g)
  BY <1>3, <1>4, <1>7, <1>8, <1>9, <1>10, <1>11, <1>12 DEF WalkFacts
<1>14. QED
  BY <1>1, <1>2, <1>13

\* A directory that is no case is replaced by what it contains.
LEMMA WalkDescends ==
  ASSUME NEW t, IsTree(t), NEW stack, NEW found, WalkFacts(t, stack, found),
         stack # <<>>, ~t[Last(stack)].metrics,
         NEW r \in Seq(DOMAIN t),
         \A k \in DOMAIN r : \E i \in Nat : r[k] = Append(Last(stack), i),
         \A j, k \in DOMAIN r : j < k => Left(r[k], r[j]),
         \A i \in Nat : Append(Last(stack), i) \in DOMAIN t =>
           \E k \in DOMAIN r : r[k] = Append(Last(stack), i)
  PROVE  WalkFacts(t, Front(stack) \o r, found)
<1> DEFINE n == Len(stack)
           d == stack[n]
           m == Len(r)
<1>1. PICK f : f = Front(stack) \o r
  OBVIOUS
<1>2. /\ n \in Nat \ {0} /\ m \in Nat /\ d \in DOMAIN t /\ d \in Seq(Nat)
      /\ Last(stack) = d /\ n \in DOMAIN stack
      /\ DOMAIN stack = 1..n /\ DOMAIN r = 1..m
  BY DEF WalkFacts, Last, IsTree
<1>3. Front(stack) \in Seq(DOMAIN t) /\ Len(Front(stack)) = n - 1
      /\ \A k \in 1..(n - 1) : Front(stack)[k] = stack[k]
  BY FrontIs DEF WalkFacts
<1>4. /\ f \in Seq(DOMAIN t) /\ Len(f) = n - 1 + m
      /\ \A k \in 1..(n - 1) : f[k] = stack[k]
      /\ \A k \in 1..m : f[n - 1 + k] = r[k]
  <2> DEFINE s == Front(stack)
  <2>1. /\ f \in Seq(DOMAIN t) /\ Len(f) = Len(s) + Len(r)
        /\ \A k \in 1..Len(s) : f[k] = s[k]
        /\ \A k \in 1..Len(r) : f[Len(s) + k] = r[k]
    <3> HIDE DEF s
    <3>1. QED
      BY <1>1, <1>3, JoinIs DEF s
  <2> HIDE DEF n, m
  <2>2. QED
    BY <2>1, <1>3 DEF m
<1>5. DOMAIN f = 1..(n - 1 + m)
  BY <1>4
<1>6. ~t[d].metrics
  BY <1>2
<1>7. /\ \A k \in 1..m : \E i \in Nat : r[k] = Append(d, i)
      /\ \A j, k \in 1..m : j < k => Left(r[k], r[j])
      /\ \A i \in Nat : Append(d, i) \in DOMAIN t => \E k \in 1..m : r[k] = Append(d, i)
      /\ \A k \in 1..m : r[k] \in DOMAIN t /\ r[k] \in Seq(Nat)
  <2>1. \A k \in 1..m : r[k] \in DOMAIN t /\ r[k] \in Seq(Nat)
    BY <1>2 DEF IsTree
  <2>2. Last(stack) = d /\ DOMAIN r = 1..m
    BY <1>2
  <2> HIDE DEF d, m
  <2>3. /\ \A k \in 1..m : \E i \in Nat : r[k] = Append(d, i)
        /\ \A j, k \in 1..m : j < k => Left(r[k], r[j])
        /\ \A i \in Nat : Append(d, i) \in DOMAIN t => \E k \in 1..m : r[k] = Append(d, i)
    BY <2>2
  <2>4. QED
    BY <2>1, <2>3
<1> HIDE DEF n, d, m
<1>8. \A k \in DOMAIN f : k \in 1..(n - 1) \/ \E i \in 1..m : k = n - 1 + i
  <2> SUFFICES ASSUME NEW k \in DOMAIN f, k \notin 1..(n - 1) PROVE \E i \in 1..m : k = n - 1 + i
    OBVIOUS
  <2>1. k - (n - 1) \in 1..m /\ k = n - 1 + (k - (n - 1))
    BY <1>2, <1>5
  <2>2. QED
    BY <2>1
<1>9. \A k \in 1..m : Prefix(d, r[k]) /\ Len(r[k]) = Len(d) + 1
  <2> SUFFICES ASSUME NEW k \in 1..m PROVE Prefix(d, r[k]) /\ Len(r[k]) = Len(d) + 1
    OBVIOUS
  <2>1. PICK i \in Nat : r[k] = Append(d, i)
    BY <1>7
  <2>2. /\ Len(r[k]) = Len(d) + 1
        /\ \A h \in 1..Len(d) : r[k][h] = d[h]
    BY <2>1, <1>2, AppendIs
  <2>3. Len(d) \in Nat
    BY <1>2
  <2>4. QED
    BY <2>2, <2>3 DEF Prefix
<1>10. \A k \in DOMAIN stack : stack[k] \in Seq(Nat)
  BY DEF WalkFacts, IsTree
<1>11. \A k \in DOMAIN f : \A e \in DOMAIN t : IsStrictPrefix(e, f[k]) => ~t[e].metrics
  <2> SUFFICES ASSUME NEW k \in DOMAIN f, NEW e \in DOMAIN t, IsStrictPrefix(e, f[k])
               PROVE  ~t[e].metrics
    OBVIOUS
  <2>1. CASE k \in 1..(n - 1)
    <3>1. f[k] = stack[k] /\ k \in DOMAIN stack
      BY <2>1, <1>2, <1>4
    <3>2. QED
      BY <3>1 DEF WalkFacts
  <2>2. ASSUME NEW i \in 1..m, k = n - 1 + i PROVE ~t[e].metrics
    <3>1. f[k] = r[i] /\ r[i] \in Seq(Nat) /\ e \in Seq(Nat)
      BY <2>2, <1>4, <1>7 DEF IsTree
    <3>2. Prefix(e, r[i]) /\ e # r[i]
      BY <3>1, PrefixIs DEF IsStrictPrefix
    <3>3. Len(e) # Len(r[i])
      BY <3>1, <3>2, PrefixSame
    <3>4. Prefix(e, d)
      <4>1. Prefix(d, r[i]) /\ Len(r[i]) = Len(d) + 1
        BY <1>9
      <4>2. Len(e) \in Nat /\ Len(d) \in Nat
        BY <3>1, <1>2
      <4>3. Len(e) <= Len(d)
        BY <4>1, <4>2, <3>2, <3>3 DEF Prefix
      <4>4. QED
        BY <4>1, <4>2, <4>3, <3>2 DEF Prefix
    <3>5. CASE e = d
      BY <3>5, <1>6
    <3>6. CASE e # d
      BY <3>1, <3>4, <3>6, <1>2, PrefixIs DEF WalkFacts, IsStrictPrefix, d
    <3>7. QED
      BY <3>5, <3>6
  <2>3. QED
    BY <2>1, <2>2, <1>8
<1>12. ASSUME NEW e \in DOMAIN t, Outermost(t, e)
       PROVE  (\E k \in DOMAIN found : found[k] = e) \/ \E k \in DOMAIN f : IsPrefix(f[k], e)
  <2>1. CASE \E k \in DOMAIN found : found[k] = e
    BY <2>1
  <2>2. CASE \E k \in DOMAIN stack : IsPrefix(stack[k], e)
    <3>1. PICK k \in DOMAIN stack : IsPrefix(stack[k], e)
      BY <2>2
    <3>2. CASE k = n
      <4>1. e \in Seq(Nat) /\ Prefix(d, e)
        BY <3>1, <3>2, <1>2, PrefixIs DEF IsTree, d
      <4>2. d # e
        BY <1>6, <1>12 DEF Outermost
      <4>3. Len(d) < Len(e)
        BY <4>1, <4>2, <1>2, PrefixSame DEF Prefix
      <4>4. SubSeq(e, 1, Len(d) + 1) \in DOMAIN t
        BY <4>1, <4>3, <1>2 DEF IsTree
      <4>5. SubSeq(e, 1, Len(d) + 1) = Append(d, e[Len(d) + 1])
        <5>1. SubSeq(e, 1, Len(d) + 1) = [i \in 1..(Len(d) + 1) |-> e[i]]
          BY <4>1, <4>3, <1>2
        <5>2. Append(d, e[Len(d) + 1]) = [i \in 1..(Len(d) + 1) |-> e[i]]
          BY <4>1, <4>3, <1>2 DEF Prefix
        <5>3. QED
          BY <5>1, <5>2
      <4>6. e[Len(d) + 1] \in Nat
        BY <4>1, <4>3, <1>2
      <4>7. PICK i \in 1..m : r[i] = SubSeq(e, 1, Len(d) + 1)
        BY <4>4, <4>5, <4>6, <1>7
      <4>8. r[i] = [j \in 1..(Len(d) + 1) |-> e[j]]
        BY <4>1, <4>3, <4>7, <1>2
      <4>9. Prefix(r[i], e)
        BY <4>1, <4>3, <4>8, <1>2, <1>9 DEF Prefix
      <4>10. IsPrefix(r[i], e)
        BY <4>1, <4>9, <1>7, PrefixIs
      <4>11. n - 1 + i \in DOMAIN f /\ f[n - 1 + i] = r[i]
        BY <1>2, <1>4, <1>5
      <4>12. QED
        BY <4>10, <4>11
    <3>3. CASE k # n
      <4>1. k \in 1..(n - 1) /\ k \in DOMAIN f
        BY <3>3, <1>2, <1>5
      <4>2. QED
        BY <4>1, <3>1, <1>4
    <3>4. QED
      BY <3>2, <3>3
  <2>3. QED
    BY <2>1, <2>2, <1>12 DEF WalkFacts
<1>13. \A j \in DOMAIN found : \A k \in DOMAIN f : Left(found[j], f[k])
  <2> SUFFICES ASSUME NEW j \in DOMAIN found, NEW k \in DOMAIN f PROVE Left(found[j], f[k])
    OBVIOUS
  <2>1. CASE k \in 1..(n - 1)
    <3>1. f[k] = stack[k] /\ k \in DOMAIN stack
      BY <2>1, <1>2, <1>4
    <3>2. QED
      BY <3>1 DEF WalkFacts
  <2>2. ASSUME NEW i \in 1..m, k = n - 1 + i PROVE Left(found[j], f[k])
    <3>0. found[j] \in DOMAIN t
      BY DEF WalkFacts
    <3>1. Left(found[j], d) /\ found[j] \in Seq(Nat)
      BY <3>0, <1>2 DEF WalkFacts, IsTree, d
    <3>2. Left(found[j], r[i])
      BY <3>1, <1>2, <1>7, <1>9, LeftExtends
    <3>3. QED
      BY <3>2, <2>2, <1>4
  <2>3. QED
    BY <2>1, <2>2, <1>8
<1>14. \A j, k \in DOMAIN f : j < k => Left(f[k], f[j])
  <2> SUFFICES ASSUME NEW j \in DOMAIN f, NEW k \in DOMAIN f, j < k PROVE Left(f[k], f[j])
    OBVIOUS
  <2>1. CASE k \in 1..(n - 1)
    <3>1. j \in 1..(n - 1)
      BY <2>1, <1>2, <1>5
    <3>2. f[k] = stack[k] /\ f[j] = stack[j] /\ j \in DOMAIN stack /\ k \in DOMAIN stack
      BY <2>1, <3>1, <1>2, <1>4
    <3>3. QED
      BY <3>2 DEF WalkFacts
  <2>2. ASSUME NEW i \in 1..m, k = n - 1 + i PROVE Left(f[k], f[j])
    <3>1. CASE j \in 1..(n - 1)
      <4>1. j \in DOMAIN stack /\ j < n
        BY <3>1, <1>2
      <4>2. \A x, y \in DOMAIN stack : x < y => Left(stack[y], stack[x])
        BY DEF WalkFacts
      <4>3. Left(d, stack[j]) /\ stack[j] \in Seq(Nat)
        BY <4>1, <4>2, <1>2, <1>10 DEF d
      <4>4. Left(r[i], stack[j])
        BY <4>3, <1>2, <1>7, <1>9, LeftExtends
      <4>5. QED
        BY <4>4, <3>1, <2>2, <1>4
    <3>2. ASSUME NEW h \in 1..m, j = n - 1 + h PROVE Left(f[k], f[j])
      <4>1. h < i
        BY <3>2, <2>2, <1>2
      <4>2. QED
        BY <4>1, <3>2, <2>2, <1>4, <1>7
    <3>3. QED
      BY <3>1, <3>2, <1>8
  <2>3. QED
    BY <2>1, <2>2, <1>8
<1>15. WalkFacts(t, f, found)
  BY <1>4, <1>11, <1>12, <1>13, <1>14 DEF WalkFacts
<1>16. QED
  BY <1>1, <1>15

\* A sequence turned around.
LEMMA ReverseIs ==
  ASSUME NEW A, NEW s \in Seq(A)
  PROVE  /\ Reverse(s) \in Seq(A) /\ Len(Reverse(s)) = Len(s)
         /\ \A k \in 1..Len(s) : Reverse(s)[k] = s[Len(s) - k + 1] /\ Len(s) - k + 1 \in 1..Len(s)
BY DEF Reverse

\* The subdirectories as they are put on the stack: the last one first.
LEMMA PushedLists ==
  ASSUME tree \in Trees, NEW d \in DOMAIN tree
  PROVE  /\ Children(d) \in Seq(DOMAIN tree) /\ Pushed(d) \in Seq(DOMAIN tree)
         /\ \A k \in DOMAIN Pushed(d) : \E i \in Nat : Pushed(d)[k] = Append(d, i)
         /\ \A j, k \in DOMAIN Pushed(d) : j < k => Left(Pushed(d)[k], Pushed(d)[j])
         /\ \A i \in Nat : Append(d, i) \in DOMAIN tree =>
              \E k \in DOMAIN Pushed(d) : Pushed(d)[k] = Append(d, i)
<1> DEFINE K == {n \in 1..MaxName : Append(d, n) \in DOMAIN tree}
           m == Cardinality(K)
           each == [n \in 1..MaxName |-> Append(d, n)]
<1>1. MaxName \in Nat /\ DOMAIN tree \subseteq Seq(1..MaxName) /\ d \in Seq(1..MaxName) /\ d \in Seq(Nat)
  BY RcaevalAssumption
<1>2. IsFiniteSet(K) /\ K \in SUBSET Int
  <2>1. IsFiniteSet(1..MaxName)
    BY <1>1, FS_Interval
  <2>2. QED
    BY <1>1, <2>1, FS_Subset
<1>3. PICK at : at = Ascending(K)
  OBVIOUS
<1>4. /\ at \in [1..m -> K]
      /\ \A j, k \in 1..m : j < k => at[j] < at[k]
      /\ \A i \in K : \E k \in 1..m : at[k] = i
      /\ Children(d) = [k \in 1..m |-> each[at[k]]]
  <2> HIDE DEF K, each
  <2>1. /\ at \in [1..m -> K]
        /\ \A j, k \in 1..m : j < k => at[j] < at[k]
        /\ \A i \in K : \E k \in 1..m : at[k] = i
    BY <1>2, <1>3, AscendingLists
  <2>2. Kept(each, K) = [k \in 1..m |-> each[at[k]]]
    BY <1>2, <1>3, KeptLists
  <2>3. QED
    BY <2>1, <2>2 DEF Children, K, each
<1>0. m \in Nat
  BY <1>2, FS_CardinalityType
<1> HIDE DEF m
<1>5. \A k \in 1..m : at[k] \in 1..MaxName /\ at[k] \in Nat /\ Children(d)[k] = Append(d, at[k]) /\ Children(d)[k] \in DOMAIN tree
  BY <1>4
<1>6. Children(d) \in Seq(DOMAIN tree) /\ Len(Children(d)) = m
  BY <1>0, <1>4, <1>5
<1>7. PICK p : p = Pushed(d)
  OBVIOUS
<1>8. /\ p \in Seq(DOMAIN tree) /\ DOMAIN p = 1..m
      /\ \A k \in 1..m : m - k + 1 \in 1..m /\ p[k] = Append(d, at[m - k + 1])
  <2>1. p \in Seq(DOMAIN tree) /\ Len(p) = m
        /\ \A k \in 1..m : p[k] = Children(d)[m - k + 1] /\ m - k + 1 \in 1..m
    BY <1>6, <1>7, ReverseIs DEF Pushed
  <2> HIDE DEF each
  <2>2. DOMAIN p = 1..m
    BY <1>0, <2>1
  <2>3. ASSUME NEW k \in 1..m PROVE m - k + 1 \in 1..m /\ p[k] = Append(d, at[m - k + 1])
    <3>1. m - k + 1 \in 1..m /\ p[k] = Children(d)[m - k + 1]
      BY <2>1
    <3>2. QED
      BY <1>5, <3>1
  <2>4. QED
    BY <2>1, <2>2, <2>3
<1> HIDE DEF each
<1>9. \A k \in DOMAIN p : \E i \in Nat : p[k] = Append(d, i)
  BY <1>5, <1>8
<1>10. ASSUME NEW j \in DOMAIN p, NEW k \in DOMAIN p, j < k PROVE Left(p[k], p[j])
  <2>1. PICK u \in Nat, v \in Nat : u = at[m - k + 1] /\ v = at[m - j + 1] /\ p[k] = Append(d, u) /\ p[j] = Append(d, v)
    <3>1. j \in 1..m /\ k \in 1..m
      BY <1>8
    <3>2. m - k + 1 \in 1..m /\ m - j + 1 \in 1..m
      BY <3>1, <1>8
    <3>3. QED
      BY <3>1, <3>2, <1>5, <1>8
  <2>2. u < v
    <3>1. m - k + 1 \in 1..m /\ m - j + 1 \in 1..m /\ m - k + 1 < m - j + 1
      BY <1>0, <1>8, <1>10
    <3>2. QED
      BY <2>1, <3>1, <1>4
  <2>3. /\ Len(p[k]) = Len(d) + 1 /\ p[k][Len(d) + 1] = u /\ \A h \in 1..Len(d) : p[k][h] = d[h]
        /\ Len(p[j]) = Len(d) + 1 /\ p[j][Len(d) + 1] = v /\ \A h \in 1..Len(d) : p[j][h] = d[h]
    BY <2>1, <1>1, AppendIs
  <2>4. Len(d) \in Nat
    BY <1>1
  <2>5. PICK h \in 1..Len(p[k]) : h = Len(d) + 1
    BY <2>3, <2>4
  <2>6. h <= Len(p[j]) /\ p[k][h] < p[j][h] /\ \A i \in 1..(h - 1) : p[k][i] = p[j][i]
    BY <2>2, <2>3, <2>4, <2>5
  <2>7. QED
    BY <2>6 DEF Left
<1>11. ASSUME NEW i \in Nat, Append(d, i) \in DOMAIN tree PROVE \E k \in DOMAIN p : p[k] = Append(d, i)
  <2>1. i \in 1..MaxName
    <3>1. PICK c \in Seq(1..MaxName) : c = Append(d, i)
      BY <1>1, <1>11
    <3>2. Len(c) = Len(d) + 1 /\ c[Len(d) + 1] = i /\ Len(d) \in Nat
      BY <3>1, <1>1, AppendIs
    <3>3. QED
      BY <3>1, <3>2
  <2>2. PICK k \in 1..m : at[k] = i
    BY <1>4, <1>11, <2>1
  <2>3. m - k + 1 \in 1..m /\ m - (m - k + 1) + 1 = k
    BY <1>0
  <2>4. QED
    BY <2>2, <2>3, <1>8
<1>12. QED
  BY <1>6, <1>7, <1>8, <1>9, <1>10, <1>11

\* Of the walk: within the limits, and what is still to be found is on the stack.
WalkInv ==
  /\ tree \in Trees
  /\ scanned \in Int /\ scanned <= MaxScanned /\ Len(discovered) <= MaxCases
  /\ WalkFacts(tree, pending, discovered)
  /\ pc \in {"case", "temp", "write", "replace", "replaced", "unlink", "loaded"} => pending = <<>>

\* It holds before the walk.
LEMMA WalkStarts == Init => WalkInv
<1> SUFFICES ASSUME Init PROVE WalkInv
  OBVIOUS
<1>1. /\ tree \in Trees /\ pending = << <<>> >> /\ discovered = <<>> /\ pc = "guard"
      /\ scanned \in Int /\ scanned <= MaxScanned /\ Len(discovered) <= MaxCases
  BY RcaevalAssumption DEF Init
<1>2. <<>> \in DOMAIN tree /\ DOMAIN tree \subseteq Seq(Nat)
  BY <1>1, RcaevalAssumption
<1>3. \A e \in DOMAIN tree : ~IsStrictPrefix(e, <<>>)
  <2> SUFFICES ASSUME NEW e \in DOMAIN tree, IsStrictPrefix(e, <<>>) PROVE FALSE
    OBVIOUS
  <2>1. e \in Seq(Nat) /\ <<>> \in Seq(Nat) /\ e # <<>> /\ Prefix(e, <<>>)
    BY <1>2, PrefixIs DEF IsStrictPrefix
  <2>2. QED
    BY <2>1 DEF Prefix
<1>4. \A e \in DOMAIN tree : IsPrefix(<<>>, e)
  <2> SUFFICES ASSUME NEW e \in DOMAIN tree PROVE IsPrefix(<<>>, e)
    OBVIOUS
  <2>1. e \in Seq(Nat) /\ <<>> \in Seq(Nat) /\ Prefix(<<>>, e)
    BY <1>2 DEF Prefix
  <2>2. QED
    BY <2>1, PrefixIs
<1>5. pending \in Seq(DOMAIN tree) /\ discovered \in Seq(DOMAIN tree)
      /\ DOMAIN pending = {1} /\ pending[1] = <<>> /\ DOMAIN discovered = {}
  BY <1>1, <1>2
<1>6. WalkFacts(tree, pending, discovered)
  BY <1>3, <1>4, <1>5 DEF WalkFacts
<1>7. QED
  BY <1>1, <1>6 DEF WalkInv

\* Every step of the walk and the load keeps it.
LEMMA WalkKept == WalkInv /\ [Next]_vars => WalkInv'
<1> SUFFICES ASSUME WalkInv, [Next]_vars PROVE WalkInv'
  OBVIOUS
<1>1. ASSUME UNCHANGED <<tree, walk>>,
             pc' \in {"case", "temp", "write", "replace", "replaced", "unlink", "loaded"} => pending = <<>>
      PROVE  WalkInv'
  BY <1>1 DEF WalkInv, walk, WalkFacts, Outermost
<1>2. CASE Scan
  <2> DEFINE d == Last(pending)
             node == tree[d]
             fails ==
               \/ scanned + Size(d) > MaxScanned
               \/ node.metrics /\ (~node.injection \/ ~node.labelled)
               \/ node.metrics /\ Full
  <2>1. pending # <<>> /\ pc = "scan" /\ UNCHANGED tree
    BY <1>2 DEF Scan
  <2>2. CASE fails
    <3>1. pc' = "failed" /\ UNCHANGED walk
      BY <1>2, <2>2 DEF Scan
    <3>2. QED
      BY <1>1, <2>1, <3>1
  <2>3. CASE ~fails
    <3>1. /\ scanned' = scanned + Size(d)
          /\ discovered' = IF node.metrics THEN Append(discovered, d) ELSE discovered
          /\ pending' = Front(pending) \o (IF node.metrics THEN <<>> ELSE Pushed(d))
          /\ pc' = pc
      BY <1>2, <2>3 DEF Scan
    <3>2. d \in DOMAIN tree /\ IsTree(tree)
      <4>1. d \in DOMAIN tree
        BY <2>1, FrontIs DEF WalkInv, WalkFacts
      <4>2. tree \in Trees
        BY DEF WalkInv
      <4>3. IsTree(tree)
        BY <4>2, RcaevalAssumption DEF IsTree
      <4>4. QED
        BY <4>1, <4>3
    <3>3. scanned' \in Int /\ scanned' <= MaxScanned
      <4>1. Len(Children(d)) \in Nat
        BY <3>2, PushedLists DEF WalkInv
      <4>2. Size(d) \in Int
        BY <4>1 DEF Size
      <4>3. ~(scanned + Size(d) > MaxScanned)
        BY <2>3
      <4> HIDE DEF d
      <4>4. QED
        BY <3>1, <4>2, <4>3, RcaevalAssumption DEF WalkInv
    <3>4. CASE node.metrics
      <4>1. discovered' = Append(discovered, d) /\ pending' = Front(pending)
        <5>1. Front(pending) \o <<>> = Front(pending)
          BY <2>1, FrontIs DEF WalkInv, WalkFacts
        <5>2. QED
          BY <3>1, <3>4, <5>1
      <4>2. WalkFacts(tree, pending', discovered')
        BY <2>1, <3>2, <3>4, <4>1, WalkCollects DEF WalkInv
      <4>3. Len(discovered) # MaxCases
        BY <2>3, <3>4 DEF Full
      <4>4. Len(discovered') <= MaxCases
        <5>1. Len(discovered) \in Nat /\ Len(discovered') = Len(discovered) + 1
          BY <3>2, <4>1, AppendIs DEF WalkInv, WalkFacts
        <5>2. QED
          BY <4>3, <5>1, RcaevalAssumption DEF WalkInv
      <4>5. QED
        BY <2>1, <3>1, <3>3, <4>2, <4>4 DEF WalkInv, WalkFacts, Outermost
    <3>5. CASE ~node.metrics
      <4>1. discovered' = discovered /\ pending' = Front(pending) \o Pushed(d)
        BY <3>1, <3>5
      <4>2. /\ Pushed(d) \in Seq(DOMAIN tree)
            /\ \A k \in DOMAIN Pushed(d) : \E i \in Nat : Pushed(d)[k] = Append(d, i)
            /\ \A j, k \in DOMAIN Pushed(d) : j < k => Left(Pushed(d)[k], Pushed(d)[j])
            /\ \A i \in Nat : Append(d, i) \in DOMAIN tree =>
                 \E k \in DOMAIN Pushed(d) : Pushed(d)[k] = Append(d, i)
        BY <3>2, PushedLists DEF WalkInv
      <4>3. PICK r \in Seq(DOMAIN tree) : r = Pushed(d)
        BY <4>2
      <4>4. WalkFacts(tree, Front(pending) \o r, discovered)
        BY <2>1, <3>2, <3>5, <4>2, <4>3, WalkDescends DEF WalkInv
      <4>5. WalkFacts(tree, pending', discovered')
        BY <4>1, <4>3, <4>4
      <4>6. QED
        BY <2>1, <3>1, <3>3, <4>1, <4>5 DEF WalkInv, WalkFacts, Outermost
    <3>6. QED
      BY <3>4, <3>5
  <2>4. QED
    BY <2>2, <2>3
<1>3. CASE Guard \/ ScanEnds \/ NoFreshId \/ LoadCase \/ CasesEnd
  <2>1. UNCHANGED <<tree, walk>>
    BY <1>3 DEF Guard, ScanEnds, NoFreshId, LoadCase, CasesEnd
  <2>2. pc' \in {"case", "temp", "write", "replace", "replaced", "unlink", "loaded"} => pending = <<>>
    BY <1>3 DEF Guard, ScanEnds, NoFreshId, LoadCase, TakeCase, CasesEnd, WalkInv
  <2>3. QED
    BY <1>1, <2>1, <2>2
<1>4. CASE \/ CreateTemporary \/ TemporaryFails \/ WriteTemporary \/ Replace
         \/ Unlink \/ UnlinkFails \/ Crash
  <2>1. UNCHANGED <<tree, walk>>
    BY <1>4 DEF CreateTemporary, TemporaryFails, WriteTemporary, Replace, Unlink,
                UnlinkFails, Crash
  <2>2. pc \in {"temp", "write", "replace", "replaced", "unlink"}
    BY <1>4 DEF CreateTemporary, TemporaryFails, WriteTemporary, Replace, Unlink,
                UnlinkFails, Crash
  <2>3. QED
    BY <1>1, <2>1, <2>2 DEF WalkInv
<1>5. CASE UNCHANGED vars
  BY <1>1, <1>5 DEF vars, WalkInv
<1>6. QED
  BY <1>2, <1>3, <1>4, <1>5 DEF Next

\* The limits hold throughout, and a walk that ends has found every outermost case
\* once, in the order of the paths.
LEMMA WalkJustified == WalkInv => WalkComplete
<1> SUFFICES ASSUME WalkInv PROVE WalkComplete
  OBVIOUS
<1>1. DOMAIN tree \subseteq Seq(Nat) /\ discovered \in Seq(DOMAIN tree) /\ WalkFacts(tree, pending, discovered)
  BY RcaevalAssumption DEF WalkInv, WalkFacts
<1>2. ASSUME pending = <<>>
      PROVE  ToSet(discovered) =
               {d \in DOMAIN tree :
                  tree[d].metrics /\ \A e \in DOMAIN tree : IsStrictPrefix(e, d) => ~tree[e].metrics}
  <2>1. \A d \in DOMAIN tree : Outermost(tree, d) <=> \E k \in DOMAIN discovered : discovered[k] = d
    BY <1>1, <1>2 DEF WalkFacts
  <2>2. ToSet(discovered) = {d \in DOMAIN tree : Outermost(tree, d)}
    BY <1>1, <2>1 DEF ToSet
  <2>3. QED
    BY <2>2 DEF Outermost
<1>3. ASSUME NEW j \in DOMAIN discovered, NEW k \in DOMAIN discovered, j < k
      PROVE  Earlier(discovered[j], discovered[k])
  <2>1. discovered[j] \in Seq(Nat) /\ discovered[k] \in Seq(Nat)
    BY <1>1
  <2>2. Left(discovered[j], discovered[k])
    BY <1>1, <1>3 DEF WalkFacts
  <2>3. QED
    BY <2>1, <2>2, LeftEarlier
<1>4. QED
  BY <1>2, <1>3 DEF WalkInv, WalkComplete

-----------------------------------------------------------------------------
(* _load *)

\* The cases a tree can give.
Loadable(t) ==
  UNION {{Parsed(id, d, t[d].file) : id \in Ids} : d \in {x \in DOMAIN t : Parses(t[x].file)}}

\* Of the load: the labels are those of the cases, under ids of their own, and
\* every case found so far is loaded or skipped.
BatchInv ==
  /\ cases \in Seq(Loadable(tree)) /\ skipped \in Nat /\ next \in Nat
  /\ entries = [k \in DOMAIN cases |-> [id |-> cases[k].id, dir |-> cases[k].dir]]
  /\ \A k \in DOMAIN cases : cases[k].id \in assigned
  /\ \A j, k \in DOMAIN cases : j # k => cases[j].id # cases[k].id
  /\ skipped = 0 \/ request.skip
  /\ pc \in {"guard", "scan"} => cases = <<>> /\ skipped = 0 /\ next = 1
  /\ pc = "case" => next - 1 = Len(cases) + skipped /\ next <= Len(discovered) + 1
  /\ pc \in {"temp", "write", "replace", "replaced", "unlink", "loaded"} =>
       Len(cases) + skipped = Len(discovered)

\* Every step of the load keeps it.
LEMMA BatchKept == WalkInv /\ BatchInv /\ [Next]_vars => BatchInv'
<1> SUFFICES ASSUME WalkInv, BatchInv, [Next]_vars PROVE BatchInv'
  OBVIOUS
<1>0. discovered \in Seq(DOMAIN tree) /\ Len(discovered) \in Nat
  BY DEF WalkInv, WalkFacts
<1>1. ASSUME UNCHANGED <<request, tree, batch>>,
             pc' \in {"guard", "scan"} => pc \in {"guard", "scan"},
             pc' = "case" => next - 1 = Len(cases) + skipped /\ next <= Len(discovered') + 1,
             pc' \in {"temp", "write", "replace", "replaced", "unlink", "loaded"} =>
               Len(cases) + skipped = Len(discovered')
      PROVE  BatchInv'
  BY <1>1 DEF BatchInv, batch
<1>2. CASE Guard
  BY <1>1, <1>2 DEF Guard, BatchInv
<1>3. CASE Scan
  <2>1. UNCHANGED <<request, tree, batch>> /\ pc = "scan" /\ pc' \in {"scan", "failed"}
    BY <1>3 DEF Scan
  <2>2. QED
    BY <1>1, <2>1
<1>4. CASE ScanEnds
  <2>1. Len(<<>>) = 0
    OBVIOUS
  <2>2. UNCHANGED <<request, tree, walk, batch>> /\ pc = "scan" /\ pc' = "case"
    BY <1>4 DEF ScanEnds
  <2>3. next - 1 = Len(cases) + skipped /\ next <= Len(discovered') + 1
    BY <1>0, <2>1, <2>2 DEF BatchInv, walk
  <2>4. QED
    BY <1>1, <2>2, <2>3
<1>5. CASE NoFreshId
  BY <1>1, <1>5 DEF NoFreshId
<1>6. CASE LoadCase
  <2>1. PICK id \in Ids \ assigned : assigned' = assigned \cup {id} /\ TakeCase(id, discovered[next])
    BY <1>6 DEF LoadCase
  <2>2. pc = "case" /\ next <= Len(discovered) /\ next' = next + 1 /\ UNCHANGED <<request, tree, walk>>
    BY <1>6 DEF LoadCase
  <2>3. PICK d \in DOMAIN tree : d = discovered[next]
    <3>1. next \in 1..Len(discovered)
      BY <2>2, <1>0 DEF BatchInv
    <3>2. QED
      BY <3>1, <1>0
  <2>4. next' - 1 = Len(cases) + skipped + 1 /\ next' <= Len(discovered') + 1 /\ next' \in Nat /\ Len(cases) \in Nat
    BY <1>0, <2>2 DEF BatchInv, walk
  <2>5. CASE Parses(tree[d].file)
    <3>1. PICK one \in Loadable(tree) : one = Parsed(id, d, tree[d].file)
      BY <2>1, <2>3, <2>5 DEF Loadable
    <3>2. one.id = id /\ one.dir = d
      BY <3>1 DEF Parsed
    <3>3. cases' = Append(cases, one) /\ entries' = Append(entries, [id |-> id, dir |-> d])
          /\ UNCHANGED <<pc, skipped>>
      BY <2>1, <2>3, <2>5, <3>1 DEF TakeCase
    <3>4. /\ cases' \in Seq(Loadable(tree)) /\ Len(cases') = Len(cases) + 1
          /\ DOMAIN cases = 1..Len(cases) /\ DOMAIN cases' = 1..(Len(cases) + 1)
          /\ \A k \in 1..Len(cases) : cases'[k] = cases[k]
          /\ cases'[Len(cases) + 1] = one
      BY <3>1, <3>3, AppendIs DEF BatchInv
    <3>5. entries' = [k \in DOMAIN cases' |-> [id |-> cases'[k].id, dir |-> cases'[k].dir]]
      <4> DEFINE label(k) == [id |-> cases[k].id, dir |-> cases[k].dir]
                 joined == [k \in 1..(Len(cases) + 1) |-> IF k <= Len(cases) THEN label(k) ELSE [id |-> id, dir |-> d]]
      <4>1. entries = [k \in 1..Len(cases) |-> label(k)]
        BY <3>4 DEF BatchInv
      <4> HIDE DEF label
      <4>2. entries' = joined
        BY <3>3, <2>4, <4>1
      <4>3. ASSUME NEW k \in 1..(Len(cases) + 1)
            PROVE  joined[k] = [id |-> cases'[k].id, dir |-> cases'[k].dir]
        <5>1. CASE k <= Len(cases)
          BY <5>1, <3>4, <2>4 DEF label
        <5>2. CASE ~(k <= Len(cases))
          BY <5>2, <3>2, <3>4, <2>4
        <5>3. QED
          BY <5>1, <5>2
      <4>4. joined = [k \in 1..(Len(cases) + 1) |-> [id |-> cases'[k].id, dir |-> cases'[k].dir]]
        BY <4>3
      <4>5. QED
        BY <4>2, <4>4, <3>4
    <3>6. \A k \in DOMAIN cases' : cases'[k].id \in assigned'
      <4> SUFFICES ASSUME NEW k \in DOMAIN cases' PROVE cases'[k].id \in assigned'
        OBVIOUS
      <4>1. CASE k \in 1..Len(cases)
        BY <4>1, <2>1, <3>4 DEF BatchInv
      <4>2. CASE k = Len(cases) + 1
        BY <4>2, <2>1, <3>2, <3>4
      <4>3. QED
        BY <4>1, <4>2, <3>4, <2>4
    <3>7. \A j, k \in DOMAIN cases' : j # k => cases'[j].id # cases'[k].id
      <4> SUFFICES ASSUME NEW j \in DOMAIN cases', NEW k \in DOMAIN cases', j # k
                   PROVE  cases'[j].id # cases'[k].id
        OBVIOUS
      <4>1. \A i \in 1..Len(cases) : cases'[i].id # id /\ cases'[i] = cases[i]
        BY <2>1, <3>4 DEF BatchInv
      <4>2. cases'[Len(cases) + 1].id = id
        BY <3>2, <3>4
      <4>3. (j \in 1..Len(cases) \/ j = Len(cases) + 1) /\ (k \in 1..Len(cases) \/ k = Len(cases) + 1)
        BY <2>4, <3>4
      <4>4. CASE j \in 1..Len(cases) /\ k \in 1..Len(cases)
        BY <4>1, <4>4, <3>4 DEF BatchInv
      <4>5. QED
        BY <4>1, <4>2, <4>3, <4>4
    <3>8. QED
      BY <2>2, <2>4, <3>3, <3>4, <3>5, <3>6, <3>7 DEF BatchInv
  <2>6. CASE ~Parses(tree[d].file)
    <3>1. UNCHANGED <<cases, entries>>
          /\ IF request.skip THEN skipped' = skipped + 1 /\ pc' = pc
             ELSE pc' = "failed" /\ skipped' = skipped
      BY <2>1, <2>3, <2>6 DEF TakeCase
    <3>2. \A k \in DOMAIN cases' : cases'[k].id \in assigned'
      BY <2>1, <3>1 DEF BatchInv
    <3>3. CASE request.skip
      BY <2>2, <2>4, <3>1, <3>2, <3>3 DEF BatchInv
    <3>4. CASE ~request.skip
      BY <2>2, <2>4, <3>1, <3>2, <3>4 DEF BatchInv
    <3>5. QED
      BY <3>3, <3>4
  <2>7. QED
    BY <2>5, <2>6
<1>7. CASE CasesEnd
  <2>1. UNCHANGED <<request, tree, walk, batch>> /\ pc = "case" /\ pc' \in {"temp", "loaded"} /\ next > Len(discovered)
    BY <1>7 DEF CasesEnd
  <2>2. Len(cases) + skipped = Len(discovered')
    <3>1. Len(cases) \in Nat
      BY DEF BatchInv
    <3>2. QED
      BY <1>0, <2>1, <3>1 DEF BatchInv, walk
  <2>3. QED
    BY <1>1, <2>1, <2>2
<1>8. CASE \/ CreateTemporary \/ TemporaryFails \/ WriteTemporary \/ Replace
         \/ Unlink \/ UnlinkFails \/ Crash
  <2>1. UNCHANGED <<request, tree, walk, batch>> /\ pc' \notin {"guard", "scan", "case"}
    BY <1>8 DEF CreateTemporary, TemporaryFails, WriteTemporary, Replace, Unlink,
                UnlinkFails, Crash
  <2>2. pc \in {"temp", "write", "replace", "replaced", "unlink"}
    BY <1>8 DEF CreateTemporary, TemporaryFails, WriteTemporary, Replace, Unlink,
                UnlinkFails, Crash
  <2>3. QED
    BY <1>1, <2>1, <2>2 DEF BatchInv, walk
<1>9. CASE UNCHANGED vars
  BY <1>1, <1>9 DEF vars, BatchInv, walk, batch
<1>10. QED
  BY <1>2, <1>3, <1>4, <1>5, <1>6, <1>7, <1>8, <1>9 DEF Next

-----------------------------------------------------------------------------
(* parse_case *)

\* The rows of a file that parses are in the order of their times, all of them in
\* the window.
LEMMA RowsInWindow ==
  ASSUME NEW file, file.rows \in Seq([at : {Bad} \cup Int, cells : Seq({Gap, Bad} \cup Int)]),
         Parses(file)
  PROVE  \A k \in DOMAIN file.rows :
           /\ file.rows[k].at \in Int
           /\ WindowOf(file).start <= file.rows[k].at
           /\ file.rows[k].at < WindowOf(file).end
<1> DEFINE rows == file.rows
           n == Len(rows)
<1>1. n \in Nat \ {0} /\ DOMAIN rows = 1..n
  BY DEF Parses
<1>2. PICK f : f = [k \in 1..n |-> rows[k].at]
  OBVIOUS
<1>3. \A k \in 1..n : rows[k].at \in {Bad} \cup Int /\ rows[k].at # Bad
  <2> SUFFICES ASSUME NEW k \in 1..n PROVE rows[k].at \in {Bad} \cup Int /\ rows[k].at # Bad
    OBVIOUS
  <2>1. rows[k] \in [at : {Bad} \cup Int, cells : Seq({Gap, Bad} \cup Int)]
    <3>1. ASSUME NEW A, NEW s \in Seq(A), NEW i \in 1..Len(s) PROVE s[i] \in A
      OBVIOUS
    <3> DEFINE A == [at : {Bad} \cup Int, cells : Seq({Gap, Bad} \cup Int)]
    <3>2. rows \in Seq(A)
      OBVIOUS
    <3> HIDE DEF A, rows
    <3>3. rows[k] \in A
      BY <3>1, <3>2
    <3>4. QED
      BY <3>3 DEF A
  <2>2. RowAccepted(file, k)
    BY <1>1 DEF Parses
  <2> HIDE DEF n
  <2>3. QED
    BY <2>1, <2>2 DEF RowAccepted
<1>4. f \in [1..n -> Int]
  BY <1>2, <1>3
<1>5. ASSUME NEW k \in 2..n PROVE f[k - 1] < f[k]
  <2>1. k \in 1..n /\ k - 1 \in 1..n /\ k > 1
    BY <1>1
  <2>2. RowAccepted(file, k)
    BY <1>1, <2>1 DEF Parses
  <2>3. rows[k - 1].at < rows[k].at
    BY <1>3, <2>1, <2>2 DEF RowAccepted
  <2> HIDE DEF rows, n
  <2>4. QED
    BY <1>2, <2>1, <2>3
<1>6. WindowOf(file).start = rows[1].at /\ WindowOf(file).end = rows[n].at + 1
  BY DEF WindowOf, Last
<1> HIDE DEF rows, n
<1>7. \A j, k \in 1..n : j < k => f[j] < f[k]
  BY <1>1, <1>4, <1>5, ChainAscends
<1>8. ASSUME NEW k \in 1..n
      PROVE  /\ rows[k].at \in Int /\ WindowOf(file).start <= rows[k].at
             /\ rows[k].at < WindowOf(file).end
  <2>1. f[1] = rows[1].at /\ f[k] = rows[k].at /\ f[n] = rows[n].at
    BY <1>1, <1>2
  <2>2. f[1] \in Int /\ f[k] \in Int /\ f[n] \in Int
    BY <1>1, <1>4
  <2>3. f[1] <= f[k] /\ f[k] <= f[n]
    <3>1. k = 1 \/ f[1] < f[k]
      BY <1>1, <1>7
    <3>2. k = n \/ f[k] < f[n]
      BY <1>1, <1>7
    <3>3. QED
      BY <2>2, <3>1, <3>2
  <2>4. QED
    BY <1>6, <2>1, <2>2, <2>3
<1>9. QED
  BY <1>1, <1>8 DEF rows

PointsCover(rows, window, c, points) ==
  /\ \A i \in DOMAIN points :
       /\ window.start <= points[i].at /\ points[i].at < window.end
       /\ \E row \in ToSet(rows) : row.at = points[i].at /\ row.cells[c] = points[i].value
  /\ Len(points) = Cardinality({i \in DOMAIN rows : rows[i].cells[c] # Gap})

\* The points of a signal are the numbers of its column.
LEMMA ColumnCovers ==
  ASSUME NEW file, file.rows \in Seq([at : {Bad} \cup Int, cells : Seq({Gap, Bad} \cup Int)]),
         Parses(file), NEW c
  PROVE  PointsCover(file.rows, WindowOf(file), c, Column(file.rows, c))
<1>0. PICK rows : rows = file.rows
  OBVIOUS
<1> DEFINE K == {k \in DOMAIN rows : rows[k].cells[c] # Gap}
           m == Cardinality(K)
           points == Column(rows, c)
<1>1. IsFiniteSet(K) /\ K \in SUBSET Int
  <2>1. PICK n \in Nat : n = Len(rows) /\ DOMAIN rows = 1..n
    BY <1>0
  <2>2. IsFiniteSet(1..n)
    BY <2>1, FS_Interval
  <2>3. K \subseteq 1..n
    BY <2>1
  <2> HIDE DEF K
  <2>4. IsFiniteSet(K)
    BY <2>2, <2>3, FS_Subset
  <2>5. QED
    BY <2>3, <2>4
<1>2. PICK at : at = Ascending(K)
  OBVIOUS
<1>3. m \in Nat /\ at \in [1..m -> K]
  <2> HIDE DEF K
  <2>1. QED
    BY <1>1, <1>2, AscendingLists
<1>4. PICK kept : kept = Kept(rows, K)
  OBVIOUS
<1>5. kept = [k \in 1..m |-> rows[at[k]]]
  <2> HIDE DEF K
  <2>1. QED
    BY <1>1, <1>2, <1>4, KeptLists
<1>6. points = [k \in DOMAIN kept |-> [at |-> kept[k].at, value |-> kept[k].cells[c]]]
  BY <1>4 DEF Column
<1> HIDE DEF m, points
<1>7. points = [k \in 1..m |-> [at |-> rows[at[k]].at, value |-> rows[at[k]].cells[c]]]
  BY <1>5, <1>6
<1>8. ASSUME NEW i \in DOMAIN points
      PROVE  /\ WindowOf(file).start <= points[i].at /\ points[i].at < WindowOf(file).end
             /\ \E row \in ToSet(rows) : row.at = points[i].at /\ row.cells[c] = points[i].value
  <2>1. PICK k \in DOMAIN rows : k = at[i]
    BY <1>3, <1>7
  <2>2. points[i].at = rows[k].at /\ points[i].value = rows[k].cells[c]
    BY <1>7, <2>1
  <2>3. rows[k] \in ToSet(rows)
    BY DEF ToSet
  <2>4. WindowOf(file).start <= rows[k].at /\ rows[k].at < WindowOf(file).end
    BY <1>0, RowsInWindow
  <2>5. QED
    BY <2>2, <2>3, <2>4
<1>9. Len(points) = m
  BY <1>3, <1>7
<1>10. QED
  BY <1>0, <1>8, <1>9 DEF m, points, PointsCover

\* The windows of a load cover the points of its files.
LEMMA WindowsCover == WalkInv /\ BatchInv => WindowCovers
<1> SUFFICES ASSUME WalkInv, BatchInv, NEW k \in DOMAIN cases,
                    NEW c \in DOMAIN cases[k].signals
             PROVE  PointsCover(tree[cases[k].dir].file.rows, cases[k].window, c, cases[k].signals[c])
  BY DEF WindowCovers, PointsCover
<1>1. PICK one \in Loadable(tree) : one = cases[k]
  BY DEF BatchInv
<1>2. PICK id \in Ids, d \in DOMAIN tree : Parses(tree[d].file) /\ one = Parsed(id, d, tree[d].file)
  BY <1>1 DEF Loadable
<1>3. PICK file : file = tree[d].file
  OBVIOUS
<1>4. /\ file.rows \in Seq([at : {Bad} \cup Int, cells : Seq({Gap, Bad} \cup Int)])
      /\ Parses(file)
  BY <1>2, <1>3, RcaevalAssumption DEF WalkInv
<1>5. one.dir = d /\ one.window = WindowOf(file) /\ one.signals[c] = Column(file.rows, c)
  BY <1>1, <1>2, <1>3 DEF Parsed
<1>6. PointsCover(file.rows, WindowOf(file), c, Column(file.rows, c))
  BY <1>4, ColumnCovers
<1>7. QED
  BY <1>1, <1>3, <1>5, <1>6

-----------------------------------------------------------------------------
(* The whole load. *)

\* A load has every outermost case of the split once, in the order of the paths,
\* with its own labels under an id of its own and with all the points of its file
\* inside its window, whatever the tree and the limits (discover_cases, _load,
\* parse_case).
THEOREM LoadIsFaithful == Spec => []CasesFaithful
<1>1. Init => WalkInv /\ BatchInv
  <2>1. Init => BatchInv
    BY DEF Init, BatchInv
  <2>2. QED
    BY <2>1, WalkStarts
<1>2. WalkInv /\ BatchInv /\ [Next]_vars => WalkInv' /\ BatchInv'
  BY WalkKept, BatchKept
<1>3. WalkInv /\ BatchInv => CasesFaithful
  <2> SUFFICES ASSUME WalkInv, BatchInv PROVE CasesFaithful
    OBVIOUS
  <2>1. LabelsJoin
    <3>1. Len(cases) \in Nat
      BY DEF BatchInv
    <3>2. QED
      BY <3>1 DEF BatchInv, LabelsJoin
  <2>2. QED
    BY <2>1, WalkJustified, WindowsCover DEF CasesFaithful
<1>4. QED
  BY <1>1, <1>2, <1>3, PTL DEF Spec

-----------------------------------------------------------------------------
(* predict_services_with_llm: the ranking of services. *)

\* Signals of one case: finitely many, with different keys.
Distinguished(S) ==
  /\ S \subseteq Signals /\ IsFiniteSet(S)
  /\ \A x, y \in S : x # y => x.key # y.key

Precedes(S) == {p \in S \X S : Before(p[1], p[2])}

\* Falling suspicion, then the key, is a strict total order of such signals.
LEMMA BeforeIsStrict ==
  ASSUME NEW S, Distinguished(S)
  PROVE  /\ \A x \in S : ~Before(x, x)
         /\ \A x, y \in S : x # y => Before(x, y) \/ Before(y, x)
         /\ \A x, y, z \in S : Before(x, y) /\ Before(y, z) => Before(x, z)
         /\ StrictOrder(S, Precedes(S))
<1>1. \A x \in S : x.suspicion \in Int /\ x.key \in Int
  BY DEF Distinguished, Signals
<1>2. \A x \in S : ~Before(x, x)
  BY <1>1 DEF Before
<1>3. ASSUME NEW x \in S, NEW y \in S, x # y PROVE Before(x, y) \/ Before(y, x)
  <2>1. x.key # y.key
    BY <1>3 DEF Distinguished
  <2>2. QED
    BY <1>1, <2>1 DEF Before
<1>4. ASSUME NEW x \in S, NEW y \in S, NEW z \in S, Before(x, y), Before(y, z)
      PROVE  Before(x, z)
  BY <1>1, <1>4 DEF Before
<1>5. \A x, y \in S : <<x, y>> \in Precedes(S) <=> Before(x, y)
  BY DEF Precedes
<1>6. StrictOrder(S, Precedes(S))
  BY <1>2, <1>3, <1>4, <1>5 DEF StrictOrder
<1>7. QED
  BY <1>2, <1>3, <1>4, <1>6

\* Of any of them there is one that comes before all others.
LEMMA SomeIsFirst ==
  ASSUME NEW S, Distinguished(S), S # {}
  PROVE  \E f \in S : \A x \in S : x # f => Before(f, x)
<1>1. PICK o : o = Ordered(S, Precedes(S))
  OBVIOUS
<1>2. PICK n : n = Cardinality(S)
  OBVIOUS
<1>3. IsFiniteSet(S) /\ StrictOrder(S, Precedes(S))
  BY BeforeIsStrict DEF Distinguished
<1>4. /\ n \in Nat /\ o \in [1..n -> S]
      /\ \A j, k \in 1..n : j < k => <<o[j], o[k]>> \in Precedes(S)
      /\ \A x \in S : \E k \in 1..n : o[k] = x
  BY <1>1, <1>2, <1>3, OrderedLists
<1>5. 1 \in 1..n
  BY <1>4
<1>6. ASSUME NEW x \in S, x # o[1] PROVE Before(o[1], x)
  <2>1. PICK k \in 1..n : o[k] = x
    BY <1>4
  <2>2. 1 < k
    BY <1>4, <1>6, <2>1
  <2>3. <<o[1], x>> \in Precedes(S)
    BY <1>4, <1>5, <2>1, <2>2
  <2>4. QED
    BY <2>3 DEF Precedes
<1>7. o[1] \in S
  BY <1>4, <1>5
<1>8. QED
  BY <1>6, <1>7

\* A part of such signals are such signals.
LEMMA PartDistinguished ==
  ASSUME NEW S, Distinguished(S), NEW T \in SUBSET S
  PROVE  Distinguished(T)
BY FS_Subset DEF Distinguished

\* One signal of each service is the first.
LEMMA FirstsOfServices ==
  ASSUME NEW S, Distinguished(S)
  PROVE  /\ FirstOfEach(S) \subseteq S
         /\ \A x, y \in FirstOfEach(S) : x.service = y.service => x = y
         /\ \A x \in S : \E f \in FirstOfEach(S) :
              f.service = x.service /\ (f = x \/ Before(f, x))
<1>1. FirstOfEach(S) \subseteq S
  BY DEF FirstOfEach
<1>2. ASSUME NEW x \in FirstOfEach(S), NEW y \in FirstOfEach(S), x.service = y.service
      PROVE  x = y
  <2>1. x \in S /\ y \in S /\ ~Before(x, y) /\ ~Before(y, x)
    BY <1>2 DEF FirstOfEach
  <2>2. QED
    BY <2>1, BeforeIsStrict
<1>3. ASSUME NEW x \in S
      PROVE  \E f \in FirstOfEach(S) : f.service = x.service /\ (f = x \/ Before(f, x))
  <2> DEFINE T == {s \in S : s.service = x.service}
  <2>1. T # {} /\ T \in SUBSET S /\ Distinguished(T)
    BY PartDistinguished
  <2>2. PICK f \in T : \A y \in T : y # f => Before(f, y)
    BY <2>1, SomeIsFirst
  <2>3. ASSUME NEW y \in S, y.service = f.service PROVE ~Before(y, f)
    <3>1. y \in T
      BY <2>3
    <3>2. ~(Before(f, y) /\ Before(y, f)) /\ ~Before(f, f)
      BY <2>1, BeforeIsStrict
    <3>3. QED
      BY <2>2, <3>1, <3>2
  <2>4. f \in FirstOfEach(S)
    BY <2>1, <2>3 DEF FirstOfEach
  <2>5. QED
    BY <2>2, <2>4
<1>4. QED
  BY <1>1, <1>2, <1>3

\* The services of some signals in the order of the signals.
ServicesOf(services, F) ==
  \E n \in Nat : \E o \in [1..n -> F] :
    /\ services = [k \in 1..n |-> o[k].service]
    /\ \A j, k \in 1..n : j < k => Before(o[j], o[k])
    /\ \A f \in F : \E k \in 1..n : o[k] = f

\* The signals of which Ranked lists the services.
Supporting(signals, supported) == {s \in ToSet(signals) : s.key \in supported}

\* The list of services: each service of a supported signal once, the earlier
\* the earlier its first signal.
LEMMA ServicesRanked ==
  ASSUME NEW signals, NEW supported, Distinguished(Supporting(signals, supported))
  PROVE  ServicesOf(Ranked(signals, supported), FirstOfEach(Supporting(signals, supported)))
<1> DEFINE S == Supporting(signals, supported)
<1>1. PICK F : F = FirstOfEach(S)
  OBVIOUS
<1>2. PICK o : o = Ordered(F, Precedes(F))
  OBVIOUS
<1>3. PICK n : n = Cardinality(F)
  OBVIOUS
<1>4. Distinguished(F)
  <2>1. F \in SUBSET S
    BY <1>1 DEF FirstOfEach
  <2>2. QED
    BY <2>1, PartDistinguished
<1>5. IsFiniteSet(F) /\ StrictOrder(F, Precedes(F))
  BY <1>4, BeforeIsStrict DEF Distinguished
<1>6. /\ n \in Nat /\ o \in [1..n -> F]
      /\ \A j, k \in 1..n : j < k => <<o[j], o[k]>> \in Precedes(F)
      /\ \A x \in F : \E k \in 1..n : o[k] = x
  BY <1>2, <1>3, <1>5, OrderedLists
<1>7. Ranked(signals, supported) = [k \in DOMAIN o |-> o[k].service]
  BY <1>1, <1>2 DEF Ranked, Precedes, Supporting
<1>8. Ranked(signals, supported) = [k \in 1..n |-> o[k].service]
  BY <1>6, <1>7
<1>9. \A j, k \in 1..n : j < k => Before(o[j], o[k])
  BY <1>6 DEF Precedes
<1>10. QED
  BY <1>1, <1>6, <1>8, <1>9 DEF ServicesOf

\* Where TrueRank sees a service.
Place(S, truth) ==
  LET own == {s \in S : s.service = truth}
      ahead == {s \in S : \A x \in own : Before(s, x)}
  IN IF own = {} THEN 0 ELSE 1 + Cardinality({s.service : s \in ahead})

\* The place of a service in the list is one more than the number of services
\* with a signal before all of its own.
LEMMA PlaceOfService ==
  ASSUME NEW S, Distinguished(S), NEW truth,
         NEW services, ServicesOf(services, FirstOfEach(S))
  PROVE  /\ services = <<>> <=> S = {}
         /\ HitRank(services, truth) = Place(S, truth)
<1> DEFINE own == {s \in S : s.service = truth}
           ahead == {s \in S : \A x \in own : Before(s, x)}
<1>1. PICK F : F = FirstOfEach(S)
  OBVIOUS
<1>2. PICK n \in Nat : \E o \in [1..n -> F] :
         /\ services = [k \in 1..n |-> o[k].service]
         /\ \A j, k \in 1..n : j < k => Before(o[j], o[k])
         /\ \A f \in F : \E k \in 1..n : o[k] = f
  <2>1. ServicesOf(services, F)
    BY <1>1
  <2>2. QED
    BY <2>1 DEF ServicesOf
<1>3. PICK o \in [1..n -> F] :
         /\ services = [k \in 1..n |-> o[k].service]
         /\ \A j, k \in 1..n : j < k => Before(o[j], o[k])
         /\ \A f \in F : \E k \in 1..n : o[k] = f
  BY <1>2
<1>4. /\ F \subseteq S
      /\ \A x, y \in F : x.service = y.service => x = y
      /\ \A x \in S : \E f \in F : f.service = x.service /\ (f = x \/ Before(f, x))
  BY <1>1, FirstsOfServices
<1>5. /\ \A x \in S : ~Before(x, x)
      /\ \A x, y \in S : x # y => Before(x, y) \/ Before(y, x)
      /\ \A x, y, z \in S : Before(x, y) /\ Before(y, z) => Before(x, z)
  BY BeforeIsStrict
<1>6. services = <<>> <=> S = {}
  <2>1. ASSUME S = {} PROVE services = <<>>
    <3>1. 1..n = {}
      BY <1>3, <1>4, <2>1
    <3>2. QED
      BY <1>3, <3>1
  <2>2. ASSUME NEW x \in S PROVE services # <<>>
    <3>1. PICK k \in 1..n : TRUE
      BY <1>3, <1>4
    <3>2. k \in DOMAIN services
      BY <1>3
    <3>3. QED
      BY <3>2
  <2>3. QED
    BY <2>1, <2>2
<1>7. DOMAIN services = 1..n /\ \A k \in 1..n : services[k] = o[k].service /\ o[k] \in F /\ o[k] \in S
  BY <1>3, <1>4
<1>8. CASE own = {}
  <2>1. {k \in DOMAIN services : services[k] = truth} = {}
    BY <1>7, <1>8
  <2>2. QED
    BY <1>6, <1>8, <2>1 DEF HitRank, Place
<1>9. CASE own # {}
  <2>1. PICK t \in own : TRUE
    BY <1>9
  <2>2. PICK f \in F : f.service = truth
    BY <1>4, <2>1
  <2>3. PICK h \in 1..n : o[h] = f
    BY <1>3
  <2>4. \A k \in 1..n : services[k] = truth <=> k = h
    <3>1. ASSUME NEW k \in 1..n, services[k] = truth PROVE k = h
      <4>1. o[k] = o[h]
        BY <1>4, <1>7, <2>2, <2>3, <3>1
      <4>2. ~(k < h) /\ ~(h < k)
        BY <1>3, <1>5, <1>7, <4>1
      <4>3. QED
        BY <4>2
    <3>2. services[h] = truth
      BY <1>7, <2>2, <2>3
    <3>3. QED
      BY <3>1, <3>2
  <2>5. {k \in DOMAIN services : services[k] = truth} = {h}
    BY <1>7, <2>4
  <2>6. Min({h}) = h
    BY DEF Min
  <2>7. HitRank(services, truth) = h
    BY <2>5, <2>6 DEF HitRank
  <2>8. f \in own /\ \A x \in own : x = f \/ Before(f, x)
    <3>1. f \in own
      BY <1>4, <2>2
    <3>2. ASSUME NEW x \in own PROVE x = f \/ Before(f, x)
      <4>1. PICK g \in F : g.service = x.service /\ (g = x \/ Before(g, x))
        BY <1>4
      <4>2. g = f
        BY <1>4, <2>2, <4>1
      <4>3. QED
        BY <4>1, <4>2
    <3>3. QED
      BY <3>1, <3>2
  <2>9. \A s \in S : s \in ahead <=> Before(s, f)
    BY <1>4, <1>5, <2>8
  <2>10. PICK A : A = {s.service : s \in ahead}
    OBVIOUS
  <2>11. PICK g : g = [k \in 1..(h - 1) |-> services[k]]
    OBVIOUS
  <2>12. ASSUME NEW k \in 1..(h - 1) PROVE k \in 1..n /\ g[k] = o[k].service /\ g[k] \in A
    <3>1. k \in 1..n /\ k < h
      BY <2>3
    <3>2. o[k] \in ahead
      BY <1>3, <1>7, <2>3, <2>9, <3>1
    <3>3. QED
      BY <1>7, <2>10, <2>11, <3>1, <3>2
  <2>13. ASSUME NEW j \in 1..(h - 1), NEW k \in 1..(h - 1), g[j] = g[k] PROVE j = k
    <3>1. j \in 1..n /\ k \in 1..n /\ o[j] = o[k]
      BY <1>4, <1>7, <2>12, <2>13
    <3>2. ~(j < k) /\ ~(k < j)
      BY <1>3, <1>5, <1>7, <3>1
    <3>3. QED
      BY <3>2
  <2>14. ASSUME NEW a \in A PROVE \E k \in 1..(h - 1) : g[k] = a
    <3>1. PICK s \in ahead : a = s.service
      BY <2>10
    <3>2. PICK x \in F : x.service = a /\ (x = s \/ Before(x, s))
      BY <1>4, <3>1
    <3>3. Before(x, f)
      BY <1>4, <1>5, <2>9, <3>1, <3>2
    <3>4. PICK k \in 1..n : o[k] = x
      BY <1>3
    <3>5. ~(k = h) /\ ~(h < k)
      <4>1. ~Before(f, x) /\ x # f
        BY <1>4, <1>5, <3>3
      <4>2. QED
        BY <1>3, <2>3, <3>4, <4>1
    <3>6. k \in 1..(h - 1)
      BY <3>5, <2>3
    <3>7. QED
      BY <2>12, <3>2, <3>4, <3>6
  <2>15. g \in Bijection(1..(h - 1), A)
    <3>1. g \in [1..(h - 1) -> A]
      BY <2>11, <2>12
    <3>2. g \in Injection(1..(h - 1), A)
      BY <2>13, <3>1 DEF Injection, IsInjective
    <3>3. g \in Surjection(1..(h - 1), A)
      BY <2>14, <3>1 DEF Surjection
    <3>4. QED
      BY <3>2, <3>3 DEF Bijection
  <2>16. IsFiniteSet(1..(h - 1)) /\ Cardinality(1..(h - 1)) = h - 1
    BY <2>3, FiniteInterval
  <2>17. Cardinality(A) = h - 1
    <3>1. ExistsBijection(1..(h - 1), A)
      BY <2>15 DEF ExistsBijection
    <3>2. QED
      BY <2>16, <3>1, FS_Bijection
  <2>18. h = 1 + Cardinality(A)
    BY <2>3, <2>17
  <2>19. QED
    BY <1>6, <1>9, <2>7, <2>10, <2>18 DEF Place
<1>10. QED
  BY <1>8, <1>9

-----------------------------------------------------------------------------
(* The batch. *)

\* What the verifier supports of a case.
SupportedSignals(c) == Supporting(Batch[c].signals, provider[c].supported)

\* What is predicted for a case in the end.
Outcome(c) ==
  IF provider[c].failures > MaxRetries \/ provider[c].refused THEN Abstention
  ELSE LET services == Ranked(Batch[c].signals, provider[c].supported)
       IN [services |-> services, abstained |-> services = <<>>]

\* A task stays within its retries and predicts what the provider's behaviour
\* alone determines; no more tasks are inside than the semaphore admits.
Predicting ==
  /\ provider \in [Scored -> Behaviours]
  /\ stage \in [Scored -> {"waiting", "asking", "pausing", "predicted"}]
  /\ attempt \in [Scored -> Nat] /\ prediction = [c \in Scored |-> prediction[c]]
  /\ Cardinality(Inside) <= Concurrency
  /\ \A c \in Scored : stage[c] # "predicted" =>
       attempt[c] <= provider[c].failures /\ attempt[c] <= MaxRetries
  /\ \A c \in Scored : stage[c] = "predicted" => prediction[c] = Outcome(c)
  /\ summary # NoSummary =>
       /\ \A c \in Scored : stage[c] = "predicted"
       /\ summary = aggregate([c \in Scored |-> score_case(c)])

\* The signals of a case have different keys.
LEMMA SignalsDistinguished ==
  ASSUME NEW c \in Scored
  PROVE  Distinguished(SupportedSignals(c))
<1>1. c \in DOMAIN Batch /\ Batch \in Seq([truth : STRING, signals : Seq(Signals)])
  BY HarnessAssumption DEF Scored
<1>2. PICK q \in Seq(Signals) : q = Batch[c].signals
  <2>1. PICK T : T = [truth : STRING, signals : Seq(Signals)]
    OBVIOUS
  <2>2. Batch \in Seq(T) /\ Batch \in [1..Len(Batch) -> T] /\ c \in 1..Len(Batch)
    <3>1. Batch \in Seq(T)
      BY <1>1, <2>1
    <3>2. QED
      BY <1>1, <3>1
  <2>3. Batch[c] \in T
    BY <2>2
  <2>4. QED
    BY <2>1, <2>3
<1>3. \A j, k \in DOMAIN q : j # k => q[j].key # q[k].key
  BY <1>1, <1>2, HarnessAssumption
<1>4. PICK n \in Nat : DOMAIN q = 1..n
  BY <1>2
<1>5. Distinguished(ToSet(q))
  <2>1. ToSet(q) \subseteq Signals
    BY <1>2 DEF ToSet
  <2>2. IsFiniteSet(ToSet(q))
    <3>1. IsFiniteSet(1..n)
      BY FiniteInterval
    <3>2. [k \in 1..n |-> q[k]] \in Surjection(1..n, ToSet(q))
      BY <1>4 DEF Surjection, ToSet
    <3>3. QED
      BY <3>1, <3>2, FS_Surjection
  <2>3. ASSUME NEW x \in ToSet(q), NEW y \in ToSet(q), x # y PROVE x.key # y.key
    <3>1. PICK j, k \in DOMAIN q : x = q[j] /\ y = q[k]
      BY DEF ToSet
    <3>2. QED
      BY <1>3, <2>3, <3>1
  <2>4. QED
    BY <2>1, <2>2, <2>3 DEF Distinguished
<1>6. SupportedSignals(c) \in SUBSET ToSet(q)
  BY <1>2 DEF SupportedSignals, Supporting
<1>7. QED
  BY <1>5, <1>6, PartDistinguished

\* The tasks inside are finitely many.
LEMMA InsideFinite ==
  IsFiniteSet(Scored) /\ IsFiniteSet(Inside) /\ Cardinality(Inside) \in Nat
<1>1. Limit \in Nat
  BY HarnessAssumption
<1>2. IsFiniteSet(Scored)
  BY <1>1, FiniteInterval DEF Scored
<1>3. Inside \in SUBSET Scored
  BY DEF Inside
<1>4. QED
  BY <1>2, <1>3, FS_Subset, FS_CardinalityType

\* It holds before the first task enters.
LEMMA PredictingInit == BatchInit => Predicting
<1> SUFFICES ASSUME BatchInit PROVE Predicting
  OBVIOUS
<1>1. \A c \in Scored : provider[c].failures \in Nat
  BY HarnessAssumption DEF BatchInit
<1>2. Inside = {}
  BY DEF BatchInit, Inside
<1>3. Cardinality(Inside) <= Concurrency
  <2>1. Cardinality({}) = 0
    BY FS_EmptySet
  <2>2. QED
    BY <1>2, <2>1, HarnessAssumption
<1>4. /\ provider \in [Scored -> Behaviours]
      /\ stage \in [Scored -> {"waiting", "asking", "pausing", "predicted"}]
      /\ attempt \in [Scored -> Nat] /\ prediction = [c \in Scored |-> prediction[c]]
      /\ \A c \in Scored : stage[c] = "waiting" /\ attempt[c] = 0
      /\ summary = NoSummary
  BY DEF BatchInit
<1>5. QED
  BY <1>1, <1>3, <1>4, HarnessAssumption DEF Predicting

\* A step of a task that has not predicted yet keeps it.
LEMMA TaskKeeps ==
  ASSUME Predicting, NEW c \in Scored, stage[c] # "predicted",
         NEW t \in {"asking", "pausing", "predicted"}, stage' = [stage EXCEPT ![c] = t],
         NEW m \in Nat, attempt' = [attempt EXCEPT ![c] = m],
         NEW p, prediction' = [prediction EXCEPT ![c] = p],
         UNCHANGED <<provider, summary>>,
         t # "predicted" => m <= provider[c].failures /\ m <= MaxRetries,
         t = "predicted" => p = Outcome(c),
         Cardinality(Inside') <= Concurrency
  PROVE  Predicting'
<1>1. summary' = NoSummary
  BY DEF Predicting
<1>2. /\ provider' \in [Scored -> Behaviours]
      /\ stage' \in [Scored -> {"waiting", "asking", "pausing", "predicted"}]
      /\ attempt' \in [Scored -> Nat] /\ prediction' = [d \in Scored |-> prediction'[d]]
  BY DEF Predicting
<1>3. ASSUME NEW d \in Scored
      PROVE  /\ stage'[d] = IF d = c THEN t ELSE stage[d]
             /\ attempt'[d] = IF d = c THEN m ELSE attempt[d]
             /\ prediction'[d] = IF d = c THEN p ELSE prediction[d]
  BY DEF Predicting
<1>4. ASSUME NEW d \in Scored, stage'[d] # "predicted"
      PROVE  attempt'[d] <= provider'[d].failures /\ attempt'[d] <= MaxRetries
  BY <1>3, <1>4 DEF Predicting
<1>5. ASSUME NEW d \in Scored, stage'[d] = "predicted"
      PROVE  prediction'[d] = Outcome(d)'
  <2>1. Outcome(d)' = Outcome(d)
    BY DEF Outcome
  <2>2. QED
    BY <1>3, <1>5, <2>1 DEF Predicting
<1>6. QED
  BY <1>1, <1>2, <1>4, <1>5 DEF Predicting

\* Every step of the batch keeps it.
LEMMA PredictingStep == Predicting /\ [BatchNext]_batchVars => Predicting'
<1> SUFFICES ASSUME Predicting, [BatchNext]_batchVars PROVE Predicting'
  OBVIOUS
<1>1. /\ Concurrency \in Nat \ {0} /\ MaxRetries \in Nat
      /\ \A c \in Scored : provider[c].failures \in Nat /\ provider[c].refused \in BOOLEAN
  BY HarnessAssumption DEF Predicting
<1>2. ASSUME NEW c \in Scored, NEW t \in {"pausing", "asking", "predicted"},
             stage[c] \in {"asking", "pausing"}, stage' = [stage EXCEPT ![c] = t]
      PROVE  Cardinality(Inside') <= Concurrency
  <2>1. Inside' \in SUBSET Inside
    BY <1>2 DEF Inside, Predicting
  <2>2. Cardinality(Inside') <= Cardinality(Inside) /\ Cardinality(Inside') \in Nat
    BY <2>1, InsideFinite, FS_Subset, FS_CardinalityType
  <2>3. QED
    BY <1>1, <2>2, InsideFinite DEF Predicting
<1>3. ASSUME NEW c \in Scored, Enter(c) PROVE Predicting'
  <2>1. Inside' = Inside \cup {c} /\ c \notin Inside
    BY <1>3 DEF Enter, Inside, Predicting
  <2>2. Cardinality(Inside') = Cardinality(Inside) + 1
    BY <2>1, InsideFinite, FS_AddElement
  <2>3. Cardinality(Inside') <= Concurrency
    BY <1>1, <1>3, <2>2, InsideFinite DEF Enter, MayEnter
  <2>4. /\ stage[c] # "predicted" /\ stage' = [stage EXCEPT ![c] = "asking"]
        /\ attempt' = [attempt EXCEPT ![c] = attempt[c]]
        /\ prediction' = [prediction EXCEPT ![c] = prediction[c]]
        /\ UNCHANGED <<provider, summary>>
    BY <1>3 DEF Enter, Predicting
  <2>5. attempt[c] \in Nat /\ attempt[c] <= provider[c].failures /\ attempt[c] <= MaxRetries
    BY <2>4 DEF Predicting
  <2>6. QED
    BY <2>3, <2>4, <2>5, TaskKeeps
<1>4. ASSUME NEW c \in Scored, Answers(c) PROVE Predicting'
  <2>1. /\ stage[c] = "asking" /\ stage' = [stage EXCEPT ![c] = "predicted"]
        /\ attempt[c] = provider[c].failures
        /\ attempt' = [attempt EXCEPT ![c] = attempt[c]]
        /\ UNCHANGED <<provider, summary>>
    BY <1>4 DEF Answers, Predict, Predicting
  <2>2. attempt[c] \in Nat /\ attempt[c] <= MaxRetries
    BY <2>1 DEF Predicting
  <2>3. ~(provider[c].failures > MaxRetries)
    BY <1>1, <2>1, <2>2
  <2>4. prediction' = [prediction EXCEPT ![c] = Outcome(c)]
    BY <1>4, <2>3 DEF Answers, Predict, Outcome
  <2>5. Cardinality(Inside') <= Concurrency
    BY <1>2, <2>1
  <2>6. QED
    BY <2>1, <2>2, <2>4, <2>5, TaskKeeps
<1>5. ASSUME NEW c \in Scored, ProviderFails(c) PROVE Predicting'
  <2>1. /\ stage[c] = "asking" /\ attempt[c] < provider[c].failures
        /\ attempt' = [attempt EXCEPT ![c] = attempt[c] + 1]
        /\ UNCHANGED <<provider, summary>>
    BY <1>5 DEF ProviderFails
  <2>2. attempt[c] \in Nat /\ attempt[c] + 1 \in Nat
    BY DEF Predicting
  <2>3. CASE attempt[c] + 1 > MaxRetries
    <3>1. /\ stage' = [stage EXCEPT ![c] = "predicted"]
          /\ prediction' = [prediction EXCEPT ![c] = Abstention]
      BY <1>5, <2>3 DEF ProviderFails, Exhausted, Predict
    <3>2. provider[c].failures > MaxRetries
      BY <1>1, <2>1, <2>2, <2>3
    <3>3. Outcome(c) = Abstention
      BY <3>2 DEF Outcome
    <3>4. Cardinality(Inside') <= Concurrency
      BY <1>2, <2>1, <3>1
    <3>5. QED
      BY <2>1, <2>2, <3>1, <3>3, <3>4, TaskKeeps
  <2>4. CASE ~(attempt[c] + 1 > MaxRetries)
    <3>1. /\ stage' = [stage EXCEPT ![c] = "pausing"]
          /\ prediction' = [prediction EXCEPT ![c] = prediction[c]]
      BY <1>5, <2>4 DEF ProviderFails, Exhausted, Predicting
    <3>2. attempt[c] + 1 <= provider[c].failures /\ attempt[c] + 1 <= MaxRetries
      BY <1>1, <2>1, <2>2, <2>4
    <3>3. Cardinality(Inside') <= Concurrency
      BY <1>2, <2>1, <3>1
    <3>4. QED
      BY <2>1, <2>2, <3>1, <3>2, <3>3, TaskKeeps
  <2>5. QED
    BY <2>3, <2>4
<1>6. ASSUME NEW c \in Scored, Resume(c) PROVE Predicting'
  <2>1. /\ stage[c] = "pausing" /\ stage' = [stage EXCEPT ![c] = "asking"]
        /\ attempt' = [attempt EXCEPT ![c] = attempt[c]]
        /\ prediction' = [prediction EXCEPT ![c] = prediction[c]]
        /\ UNCHANGED <<provider, summary>>
    BY <1>6 DEF Resume, Predicting
  <2>2. attempt[c] \in Nat /\ attempt[c] <= provider[c].failures /\ attempt[c] <= MaxRetries
    BY <2>1 DEF Predicting
  <2>3. Cardinality(Inside') <= Concurrency
    BY <1>2, <2>1
  <2>4. QED
    BY <2>1, <2>2, <2>3, TaskKeeps
<1>7. ASSUME UNCHANGED <<provider, stage, attempt, prediction>>
      PROVE  /\ Inside' = Inside /\ \A c : Outcome(c)' = Outcome(c)
             /\ \A s : aggregate(s)' = aggregate(s)
             /\ [c \in Scored |-> score_case(c)]' = [c \in Scored |-> score_case(c)]
  BY <1>7 DEF Inside, Outcome, aggregate, score_case, Scored
<1>8. CASE Aggregate
  <2>1. UNCHANGED <<provider, stage, attempt, prediction>>
    BY <1>8 DEF Aggregate
  <2>2. summary' = aggregate([c \in Scored |-> score_case(c)])'
    BY <1>7, <1>8, <2>1 DEF Aggregate
  <2>3. \A c \in Scored : stage[c] = "predicted"
    BY <1>8 DEF Aggregate
  <2>4. QED
    BY <1>7, <2>1, <2>2, <2>3 DEF Predicting
<1>9. CASE UNCHANGED batchVars
  <2>1. UNCHANGED <<provider, stage, attempt, prediction, summary>>
    BY <1>9 DEF batchVars
  <2>2. aggregate([c \in Scored |-> score_case(c)])' = aggregate([c \in Scored |-> score_case(c)])
    BY <1>7, <2>1
  <2>3. QED
    BY <1>7, <2>1, <2>2 DEF Predicting
<1>10. QED
  BY <1>3, <1>4, <1>5, <1>6, <1>8, <1>9 DEF BatchNext, Step

\* A prediction as it is scored: an abstention unless the provider answers
\* usably in time, and otherwise the rank the true service should have.
LEMMA ScoredTruly ==
  ASSUME Predicting, NEW c \in Scored, stage[c] = "predicted"
  PROVE  /\ score_case(c).abstained = ~Usable(c)
         /\ score_case(c).rank = IF Usable(c) THEN TrueRank(c) ELSE 0
<1>1. prediction[c] = Outcome(c)
  BY DEF Predicting
<1>2. provider[c].failures \in Nat /\ provider[c].refused \in BOOLEAN /\ MaxRetries \in Nat
  BY HarnessAssumption DEF Predicting
<1>3. PICK S : S = SupportedSignals(c)
  OBVIOUS
<1>4. PICK services : services = Ranked(Batch[c].signals, provider[c].supported)
  OBVIOUS
<1>5. PICK truth : truth = Batch[c].truth
  OBVIOUS
<1>6. Distinguished(S)
  BY <1>3, SignalsDistinguished
<1>7. ServicesOf(services, FirstOfEach(S))
  BY <1>3, <1>4, <1>6, ServicesRanked DEF SupportedSignals
<1>8. /\ services = <<>> <=> S = {}
      /\ HitRank(services, truth) = Place(S, truth)
  BY <1>6, <1>7, PlaceOfService
<1>9. S = {s \in ToSet(Batch[c].signals) : s.key \in provider[c].supported}
  BY <1>3 DEF SupportedSignals, Supporting
<1>10. TrueRank(c) = Place(S, truth)
  BY <1>5, <1>9, Zenon DEF TrueRank, Place
<1>11. Usable(c) <=> provider[c].failures <= MaxRetries /\ ~provider[c].refused /\ S # {}
  BY <1>9, Zenon DEF Usable
<1>12. CASE provider[c].failures > MaxRetries \/ provider[c].refused
  <2>1. prediction[c] = Abstention
    BY <1>1, <1>12 DEF Outcome
  <2>2. ~Usable(c)
    BY <1>2, <1>11, <1>12
  <2>3. score_case(c).abstained = TRUE /\ score_case(c).rank = 0
    BY <2>1 DEF score_case, Abstention
  <2>4. QED
    BY <2>2, <2>3
<1>13. CASE ~(provider[c].failures > MaxRetries \/ provider[c].refused)
  <2>1. prediction[c] = [services |-> services, abstained |-> services = <<>>]
    BY <1>1, <1>4, <1>13 DEF Outcome
  <2>2. Usable(c) <=> S # {}
    BY <1>2, <1>11, <1>13
  <2>3. /\ score_case(c).abstained = (services = <<>>)
        /\ score_case(c).rank = IF services = <<>> THEN 0 ELSE HitRank(services, truth)
    <3>1. CASE services = <<>>
      <4>1. prediction[c].abstained = TRUE
        <5>1. (services = <<>>) = TRUE
          BY <3>1
        <5>2. prediction[c] = [services |-> services, abstained |-> TRUE]
          BY <2>1, <5>1, Zenon
        <5>3. QED
          BY <5>2
      <4>2. QED
        BY <3>1, <4>1 DEF score_case
    <3>2. CASE services # <<>>
      <4>1. prediction[c].abstained = FALSE /\ prediction[c].services = services
        <5>1. (services = <<>>) = FALSE
          BY <3>2
        <5>2. prediction[c] = [services |-> services, abstained |-> FALSE]
          BY <2>1, <5>1, Zenon
        <5>3. QED
          BY <5>2
      <4>2. QED
        BY <1>5, <3>2, <4>1 DEF score_case
    <3>3. QED
      BY <3>1, <3>2
  <2>4. score_case(c).abstained = ~Usable(c)
    BY <1>8, <2>2, <2>3
  <2>5. score_case(c).rank = IF Usable(c) THEN TrueRank(c) ELSE 0
    BY <1>8, <1>10, <2>2, <2>3
  <2>6. QED
    BY <2>4, <2>5
<1>14. QED
  BY <1>12, <1>13

\* The summary counts what it should.
LEMMA SummaryTrue == Predicting => ConcurrencyIrrelevant
<1> SUFFICES ASSUME Predicting, summary # NoSummary
             PROVE  LET answered == {c \in Scored : Usable(c)}
                        ranked(ranks) == {c \in answered : TrueRank(c) \in ranks} IN
                    /\ summary.answered = Cardinality(answered)
                    /\ summary.top1 = Cardinality(ranked({1}))
                    /\ summary.top3 = Cardinality(ranked(1..3))
                    /\ summary.mrr = [r \in {TrueRank(c) : c \in answered} \ {0} |-> Cardinality(ranked({r}))]
  BY DEF Predicting, ConcurrencyIrrelevant
<1> DEFINE score == [c \in Scored |-> score_case(c)]
           answered == {c \in Scored : Usable(c)}
           ranked(ranks) == {c \in answered : TrueRank(c) \in ranks}
           given(ranks) == {c \in Scored : score[c].rank \in ranks}
<1>1. summary = aggregate(score) /\ \A c \in Scored : stage[c] = "predicted"
  BY DEF Predicting
<1>2. \A c \in Scored : /\ score[c].abstained = ~Usable(c)
                        /\ score[c].rank = IF Usable(c) THEN TrueRank(c) ELSE 0
  BY <1>1, ScoredTruly
<1>3. /\ summary.answered = Cardinality({c \in Scored : ~score[c].abstained})
      /\ summary.top1 = Cardinality(given({1})) /\ summary.top3 = Cardinality(given(1..3))
      /\ summary.mrr = [r \in {score[c].rank : c \in Scored} \ {0} |-> Cardinality(given({r}))]
  BY <1>1 DEF aggregate
<1> HIDE DEF score
<1>4. {c \in Scored : ~score[c].abstained} = answered
  BY <1>2
<1>5. ASSUME NEW ranks, 0 \notin ranks PROVE given(ranks) = ranked(ranks)
  <2>1. \A c \in Scored : score[c].rank \in ranks <=> Usable(c) /\ TrueRank(c) \in ranks
    BY <1>2, <1>5
  <2>2. QED
    BY <2>1
<1>6. given({1}) = ranked({1}) /\ given(1..3) = ranked(1..3)
  <2>1. 0 \notin {1} /\ 0 \notin 1..3
    OBVIOUS
  <2>2. QED
    BY <1>5, <2>1, Zenon
<1>7. {score[c].rank : c \in Scored} \ {0} = {TrueRank(c) : c \in answered} \ {0}
  BY <1>2
<1>8. \A r \in {TrueRank(c) : c \in answered} \ {0} : given({r}) = ranked({r})
  BY <1>5
<1>9. [r \in {score[c].rank : c \in Scored} \ {0} |-> Cardinality(given({r}))]
      = [r \in {TrueRank(c) : c \in answered} \ {0} |-> Cardinality(ranked({r}))]
  BY <1>7, <1>8, Zenon
<1>10. QED
  BY <1>3, <1>4, <1>6, <1>9

\* The summary depends on the batch and on the provider alone, whatever the tasks'
\* interleaving, for any number of cases, signals, places and retries
\* (evaluate_batch, predict_services_with_llm, aggregate).
THEOREM SummaryIsUnaffected == BatchSpec => []ConcurrencyIrrelevant
<1>1. BatchInit => Predicting
  BY PredictingInit
<1>2. Predicting /\ [BatchNext]_batchVars => Predicting'
  BY PredictingStep
<1>3. Predicting => ConcurrencyIrrelevant
  BY SummaryTrue
<1>4. QED
  BY <1>1, <1>2, <1>3, PTL DEF BatchSpec

=============================================================================
