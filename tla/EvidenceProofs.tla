--------------------------- MODULE EvidenceProofs ---------------------------
(***************************************************************************)
(* The two evidence paths, for every log of changes and for all telemetry,  *)
(* policies and proposals.  First the change ledger: it is a function of    *)
(* the set of events, its verdicts follow from the log by Kleene's logic,   *)
(* and evidence accumulates.  Then the metric pipeline, stage by stage: the *)
(* ranking, the ledger bound to it, the verification and what is stored; at *)
(* last, of both, that a stage refuses of what the one before it computed   *)
(* only text that cannot be encoded, and that altered ledgers are refused.  *)
(***************************************************************************)
EXTENDS Evidence, OrderingProofs

Events == [key : Int, kind : Int, at : Int]

-----------------------------------------------------------------------------
(* The order of the entries. *)

\* Each element comes before all that follow it; one sequence has the elements
\* of another.
Ascends(s, before) == \A j, k \in DOMAIN s : j < k => <<s[j], s[k]>> \in before
Within(s, t) == \A k \in DOMAIN s : \E j \in DOMAIN t : s[k] = t[j]

Asymmetric(before) == \A a, b : <<a, b>> \in before => <<b, a>> \notin before

\* Two sequences with the same elements, both in the same strict order, are one.
LEMMA OneOrder ==
  ASSUME NEW A, NEW s \in Seq(A), NEW t \in Seq(A), Len(s) = Len(t),
         NEW before, Asymmetric(before),
         Ascends(s, before), Ascends(t, before), Within(s, t), Within(t, s)
  PROVE  s = t
<1> SUFFICES ASSUME s # t PROVE FALSE
  OBVIOUS
<1>0. PICK n \in Nat : n = Len(s) /\ DOMAIN s = 1..n /\ DOMAIN t = 1..n
  OBVIOUS
<1> DEFINE T == {k \in 1..n : s[k] # t[k]}
<1>1. T \in SUBSET Nat /\ T # {}
  BY <1>0
<1>2. PICK k \in T : \A i \in T : k <= i
  <2> HIDE DEF T
  <2>1. QED
    BY <1>1, LeastNatural
<1>3. k \in 1..n /\ s[k] # t[k] /\ \A i \in 1..n : i < k => s[i] = t[i]
  BY <1>2
<1>4. PICK i \in 1..n : s[k] = t[i]
  BY <1>0, <1>3 DEF Within
<1>5. PICK j \in 1..n : t[k] = s[j]
  BY <1>0, <1>3 DEF Within
<1>6. /\ \A x, y \in 1..n : x < y => <<s[x], s[y]>> \in before
      /\ \A x, y \in 1..n : x < y => <<t[x], t[y]>> \in before
  BY <1>0 DEF Ascends
<1>7. \A a : <<a, a>> \notin before
  BY DEF Asymmetric
<1>8. k < i
  <2>1. i # k
    BY <1>3, <1>4
  <2>2. ~(i < k)
    <3>1. SUFFICES ASSUME i < k PROVE FALSE
      OBVIOUS
    <3>2. s[i] = t[i] /\ <<s[i], s[k]>> \in before
      BY <1>3, <1>6, <3>1
    <3>3. QED
      BY <1>4, <1>7, <3>2
  <2>3. QED
    BY <1>3, <2>1, <2>2
<1>9. k < j
  <2>1. j # k
    BY <1>3, <1>5
  <2>2. ~(j < k)
    <3>1. SUFFICES ASSUME j < k PROVE FALSE
      OBVIOUS
    <3>2. s[j] = t[j] /\ <<t[j], t[k]>> \in before
      BY <1>3, <1>6, <3>1
    <3>3. QED
      BY <1>5, <1>7, <3>2
  <2>3. QED
    BY <1>3, <2>1, <2>2
<1>10. <<t[k], t[i]>> \in before /\ <<s[k], s[j]>> \in before
  BY <1>3, <1>6, <1>8, <1>9
<1>11. QED
  BY <1>4, <1>5, <1>10 DEF Asymmetric

Earlier == {p \in Events \X Events : ByOccurrence(p[1], p[2])}

\* Time, kind and key order events, and leave no two of them open.
LEMMA OccurrenceOrders ==
  ASSUME NEW a \in Events, NEW b \in Events, NEW c \in Events
  PROVE  /\ ByOccurrence(a, b) => ~ByOccurrence(b, a)
         /\ ByOccurrence(a, b) => ByOccurrence(a, c) \/ ByOccurrence(c, b)
         /\ a # b => ByOccurrence(a, b) \/ ByOccurrence(b, a)
         /\ <<a, b>> \in Earlier <=> ByOccurrence(a, b)
<1>1. a.at \in Int /\ a.kind \in Int /\ a.key \in Int
      /\ b.at \in Int /\ b.kind \in Int /\ b.key \in Int
      /\ c.at \in Int /\ c.kind \in Int /\ c.key \in Int
  BY DEF Events
<1>2. a # b => a.at # b.at \/ a.kind # b.kind \/ a.key # b.key
  BY DEF Events
<1>3. <<a, b>> \in Earlier <=> ByOccurrence(a, b)
  BY DEF Earlier
<1>4. QED
  BY <1>1, <1>2, <1>3 DEF ByOccurrence

\* No event is earlier than one that is earlier than it.
LEMMA EarlierAsymmetric == Asymmetric(Earlier)
<1>1. \A a, b : <<a, b>> \in Earlier => a \in Events /\ b \in Events
  BY DEF Earlier
<1>2. QED
  BY <1>1, OccurrenceOrders DEF Asymmetric

\* Arranged has the events of a log without repetitions, each before the next.
LEMMA ArrangedLists ==
  ASSUME NEW es \in Seq(Events), ~Repeats(es), NEW arranged, arranged = Arranged(es)
  PROVE  /\ arranged \in Seq(Events) /\ Len(arranged) = Len(es)
         /\ Ascends(arranged, Earlier)
         /\ Within(arranged, es) /\ Within(es, arranged)
<1>1. PICK before : before = {p \in (DOMAIN es) \X (DOMAIN es) : ByOccurrence(es[p[1]], es[p[2]])}
  OBVIOUS
<1>2. \A i, j \in DOMAIN es : <<i, j>> \in before <=> ByOccurrence(es[i], es[j])
  BY <1>1
<1>3. \A i \in DOMAIN es : es[i] \in Events
  OBVIOUS
<1>4. WeakOrder(Len(es), before)
  <2>1. 1..Len(es) = DOMAIN es
    OBVIOUS
  <2>2. \A i, j \in DOMAIN es : <<i, j>> \in before => <<j, i>> \notin before
    BY <1>2, <1>3, OccurrenceOrders
  <2>3. \A i, j, k \in DOMAIN es : <<i, j>> \in before => <<i, k>> \in before \/ <<k, j>> \in before
    BY <1>2, <1>3, OccurrenceOrders
  <2>4. QED
    BY <2>1, <2>2, <2>3, Zenon DEF WeakOrder
<1>5. arranged = Sorted(es, before)
  BY <1>1 DEF Arranged
<1>6. /\ arranged \in Seq(Events) /\ Len(arranged) = Len(es)
      /\ \A k \in DOMAIN arranged : \E i \in DOMAIN es : arranged[k] = es[i]
      /\ \A i \in DOMAIN es : \E k \in DOMAIN arranged : arranged[k] = es[i]
  BY <1>4, <1>5, SortedElements
<1>7. ASSUME NEW j \in DOMAIN arranged, NEW k \in DOMAIN arranged, j < k
      PROVE  <<arranged[j], arranged[k]>> \in Earlier
  <2>1. PICK x \in DOMAIN es, y \in DOMAIN es :
          x # y /\ <<y, x>> \notin before /\ arranged[j] = es[x] /\ arranged[k] = es[y]
    <3>1. InOrder(arranged, es, before)
      BY <1>4, <1>5, SortedElements
    <3>2. QED
      BY <1>7, <3>1 DEF InOrder
  <2>2. es[x] # es[y]
    BY <2>1 DEF Repeats
  <2>3. ~ByOccurrence(es[y], es[x])
    BY <1>2, <2>1
  <2>4. es[x] \in Events /\ es[y] \in Events
    BY <1>3
  <2>5. QED
    BY <2>1, <2>2, <2>3, <2>4, OccurrenceOrders
<1>8. QED
  BY <1>6, <1>7 DEF Ascends, Within

\* A sequence without repetitions has as many elements as places.
LEMMA DistinctCounted ==
  ASSUME NEW A, NEW s \in Seq(A), \A j, k \in DOMAIN s : j # k => s[j] # s[k]
  PROVE  Cardinality(ToSet(s)) = Len(s) /\ IsFiniteSet(ToSet(s))
<1>1. PICK n \in Nat : n = Len(s) /\ DOMAIN s = 1..n
  OBVIOUS
<1>2. PICK D : D = 1..n
  OBVIOUS
<1>3. PICK T : T = ToSet(s)
  OBVIOUS
<1>4. s \in [D -> T] /\ (\A x \in T : \E k \in D : s[k] = x)
  BY <1>1, <1>2, <1>3 DEF ToSet
<1>5. \A j, k \in D : s[j] = s[k] => j = k
  BY <1>1, <1>2
<1>6. s \in Bijection(D, T)
  BY <1>4, <1>5, Fun_IsBij
<1>7. ExistsBijection(D, T)
  BY <1>6 DEF ExistsBijection
<1>8. IsFiniteSet(D) /\ Cardinality(D) = n
  BY <1>2, FiniteInterval
<1>9. Cardinality(T) = n /\ IsFiniteSet(T)
  BY <1>7, <1>8, FS_Bijection
<1>10. QED
  BY <1>1, <1>3, <1>9

\* Time, kind and key are all that an event has.
LEMMA EventIdentity == ASSUME NEW e \in Events PROVE Identity(e) = e
  BY DEF Identity, Events

\* The log holds its events in their order, none of them twice.
LEMMA LogArranged ==
  ASSUME NEW es \in Seq(Events), LogAccepts(es), NEW log, log = ChangeEventLog(es)
  PROVE  /\ log \in Seq(Events) /\ LogAccepts(log) /\ Len(log) = Len(es)
         /\ Within(log, es) /\ Within(es, log)
<1>1. ~Repeats(es) /\ Len(es) <= MaxChangeEvents
  BY DEF LogAccepts
<1>2. log = Arranged(es)
  BY DEF ChangeEventLog
<1>3. /\ log \in Seq(Events) /\ Len(log) = Len(es) /\ Ascends(log, Earlier)
      /\ Within(log, es) /\ Within(es, log)
  BY <1>1, <1>2, ArrangedLists
<1>4. PICK n \in Nat : DOMAIN log = 1..n
  BY <1>3
<1>5. \A a : <<a, a>> \notin Earlier
  BY EarlierAsymmetric DEF Asymmetric
<1>6. ASSUME NEW j \in 1..n, NEW k \in 1..n, j < k PROVE log[j] # log[k]
  <2>1. <<log[j], log[k]>> \in Earlier
    BY <1>3, <1>4, <1>6 DEF Ascends
  <2>2. QED
    BY <1>5, <2>1
<1>7. \A k \in 1..n : Identity(log[k]) = log[k]
  <2>1. \A k \in 1..n : log[k] \in Events
    BY <1>3, <1>4
  <2>2. QED
    BY <2>1, EventIdentity
<1>8. ASSUME NEW j \in 1..n, NEW k \in 1..n, j # k PROVE Identity(log[j]) # Identity(log[k])
  <2>1. j < k \/ k < j
    BY <1>8
  <2>2. QED
    BY <1>6, <1>7, <2>1
<1>9. ~Repeats(log)
  BY <1>4, <1>8 DEF Repeats
<1>10. QED
  BY <1>1, <1>3, <1>9 DEF LogAccepts

\* The events of a log are as many as its places.
LEMMA LogCounted ==
  ASSUME NEW es \in Seq(Events), LogAccepts(es)
  PROVE  Cardinality(ToSet(es)) = Len(es) /\ IsFiniteSet(ToSet(es))
<1>1. \A j, k \in DOMAIN es : j # k => es[j] # es[k]
  BY DEF LogAccepts, Repeats
<1>2. QED
  BY <1>1, DistinctCounted

\* Two logs of the same events are one, in whatever order the events arrived.
LEMMA SameLog ==
  ASSUME NEW es \in Seq(Events), LogAccepts(es), NEW fs \in Seq(Events), LogAccepts(fs),
         ToSet(es) = ToSet(fs)
  PROVE  ChangeEventLog(es) = ChangeEventLog(fs)
<1>1. ~Repeats(es) /\ ~Repeats(fs)
  BY DEF LogAccepts
<1>2. Len(es) = Len(fs)
  BY LogCounted
<1>3. Within(es, fs) /\ Within(fs, es)
  BY DEF Within, ToSet
<1>4. PICK s : s = Arranged(es)
  OBVIOUS
<1>5. PICK t : t = Arranged(fs)
  OBVIOUS
<1>6. /\ s \in Seq(Events) /\ Len(s) = Len(es) /\ Ascends(s, Earlier)
      /\ Within(s, es) /\ Within(es, s)
  BY <1>1, <1>4, ArrangedLists
<1>7. /\ t \in Seq(Events) /\ Len(t) = Len(fs) /\ Ascends(t, Earlier)
      /\ Within(t, fs) /\ Within(fs, t)
  BY <1>1, <1>5, ArrangedLists
<1>8. Within(s, t) /\ Within(t, s)
  BY <1>3, <1>6, <1>7 DEF Within
<1>9. s = t
  BY <1>2, <1>6, <1>7, <1>8, EarlierAsymmetric, OneOrder
<1>10. QED
  BY <1>4, <1>5, <1>9 DEF ChangeEventLog

\* Some events, each once, in any order, make a log if they made one before.
LEMMA Rearranged ==
  ASSUME NEW es \in Seq(Events), LogAccepts(es), NEW fs \in SetToSeqs(ToSet(es))
  PROVE  fs \in Seq(Events) /\ LogAccepts(fs) /\ ToSet(fs) = ToSet(es)
<1>1. PICK S : S = ToSet(es)
  OBVIOUS
<1>2. PICK n \in Nat : n = Len(es)
  OBVIOUS
<1>3. S \subseteq Events /\ IsFiniteSet(S) /\ Cardinality(S) = n
  <2>1. S \subseteq Events
    BY <1>1 DEF ToSet
  <2>2. QED
    BY <1>1, <1>2, <2>1, LogCounted
<1>4. fs \in [1..n -> S] /\ \A j, k \in 1..n : j # k => fs[j] # fs[k]
  BY <1>1, <1>3 DEF SetToSeqs
<1>5. fs \in Seq(Events) /\ Len(fs) = n /\ DOMAIN fs = 1..n /\ ToSet(fs) \subseteq S
  BY <1>3, <1>4 DEF ToSet
<1>6. Cardinality(ToSet(fs)) = n
  BY <1>4, <1>5, DistinctCounted
<1>7. ToSet(fs) = S
  BY <1>3, <1>5, <1>6, FS_Subset
<1>8. \A k \in 1..n : Identity(fs[k]) = fs[k]
  <2>1. \A k \in 1..n : fs[k] \in Events
    BY <1>5
  <2>2. QED
    BY <2>1, EventIdentity
<1>9. ~Repeats(fs)
  BY <1>4, <1>5, <1>8 DEF Repeats
<1>10. QED
  BY <1>1, <1>2, <1>5, <1>7, <1>9 DEF LogAccepts

-----------------------------------------------------------------------------
(* The invariant. *)

ChangeEntries(c, w) == {ChangeEntry(c, w, e) : e \in Events}

\* An entry keeps what identifies its event.
LEMMA EntryIdentity ==
  ASSUME NEW c, NEW w, NEW e \in Events
  PROVE  /\ Identity(ChangeEntry(c, w, e)) = e
         /\ ChangeEntry(c, w, e).key = e.key /\ ChangeEntry(c, w, e).kind = e.kind
         /\ ChangeEntry(c, w, e).at = e.at /\ ChangeEntry(c, w, e).phase = phase(e.at, w)
  BY DEF ChangeEntry, Identity, Events

\* The entries of a log are made of its events.
LEMMA EntriesBuilt ==
  ASSUME NEW es \in Seq(Events), ~Repeats(es), NEW c, NEW w,
         NEW entries, entries = build_entries(c, w, es)
  PROVE  /\ entries \in Seq(ChangeEntries(c, w)) /\ Len(entries) = Len(es)
         /\ \A k \in DOMAIN entries : \E i \in DOMAIN es : entries[k] = ChangeEntry(c, w, es[i])
         /\ \A i \in DOMAIN es : \E k \in DOMAIN entries : entries[k] = ChangeEntry(c, w, es[i])
<1>1. PICK s : s = Arranged(es)
  OBVIOUS
<1>2. s \in Seq(Events) /\ Len(s) = Len(es) /\ Within(s, es) /\ Within(es, s)
  BY <1>1, ArrangedLists
<1>3. entries = [k \in DOMAIN s |-> ChangeEntry(c, w, s[k])]
  BY <1>1 DEF build_entries, Arranged
<1>4. PICK n \in Nat : DOMAIN s = 1..n
  BY <1>2
<1>5. ASSUME NEW k \in 1..n PROVE ChangeEntry(c, w, s[k]) \in ChangeEntries(c, w)
  <2>1. s[k] \in Events
    BY <1>2, <1>4
  <2>2. QED
    BY <2>1 DEF ChangeEntries
<1>6. entries \in Seq(ChangeEntries(c, w)) /\ DOMAIN entries = 1..n /\ Len(entries) = n
  BY <1>3, <1>4, <1>5
<1>7. ASSUME NEW k \in DOMAIN entries PROVE \E i \in DOMAIN es : entries[k] = ChangeEntry(c, w, es[i])
  <2>1. k \in DOMAIN s /\ entries[k] = ChangeEntry(c, w, s[k])
    BY <1>3, <1>4, <1>6
  <2>2. PICK i \in DOMAIN es : s[k] = es[i]
    BY <1>2, <2>1 DEF Within
  <2>3. QED
    BY <2>1, <2>2
<1>8. ASSUME NEW i \in DOMAIN es PROVE \E k \in DOMAIN entries : entries[k] = ChangeEntry(c, w, es[i])
  <2>1. PICK k \in DOMAIN s : es[i] = s[k]
    BY <1>2 DEF Within
  <2>2. QED
    BY <1>3, <1>4, <1>6, <2>1
<1>9. Len(entries) = Len(es)
  BY <1>2, <1>4, <1>6
<1>10. QED
  BY <1>6, <1>7, <1>8, <1>9

\* The entries of the log of some events: one of each of them, and of no other.
LEMMA LogEntries ==
  ASSUME NEW es \in Seq(Events), LogAccepts(es), NEW c, NEW w,
         NEW entries, entries = build_entries(c, w, ChangeEventLog(es))
  PROVE  /\ entries \in Seq(ChangeEntries(c, w)) /\ Len(entries) = Len(es)
         /\ \A k \in DOMAIN entries : \E i \in DOMAIN es : entries[k] = ChangeEntry(c, w, es[i])
         /\ \A i \in DOMAIN es : \E k \in DOMAIN entries : entries[k] = ChangeEntry(c, w, es[i])
<1>1. PICK log : log = ChangeEventLog(es)
  OBVIOUS
<1>2. /\ log \in Seq(Events) /\ LogAccepts(log) /\ Len(log) = Len(es)
      /\ Within(log, es) /\ Within(es, log)
  BY <1>1, LogArranged
<1>3. ~Repeats(log)
  BY <1>2 DEF LogAccepts
<1>4. /\ entries \in Seq(ChangeEntries(c, w)) /\ Len(entries) = Len(log)
      /\ \A k \in DOMAIN entries : \E i \in DOMAIN log : entries[k] = ChangeEntry(c, w, log[i])
      /\ \A i \in DOMAIN log : \E k \in DOMAIN entries : entries[k] = ChangeEntry(c, w, log[i])
  BY <1>1, <1>2, <1>3, EntriesBuilt
<1>5. ASSUME NEW k \in DOMAIN entries
      PROVE  \E i \in DOMAIN es : entries[k] = ChangeEntry(c, w, es[i])
  <2>1. PICK j \in DOMAIN log : entries[k] = ChangeEntry(c, w, log[j])
    BY <1>4
  <2>2. PICK i \in DOMAIN es : log[j] = es[i]
    BY <1>2 DEF Within
  <2>3. QED
    BY <2>1, <2>2
<1>6. ASSUME NEW i \in DOMAIN es
      PROVE  \E k \in DOMAIN entries : entries[k] = ChangeEntry(c, w, es[i])
  <2>1. PICK j \in DOMAIN log : es[i] = log[j]
    BY <1>2 DEF Within
  <2>2. QED
    BY <1>4, <2>1
<1>7. QED
  BY <1>2, <1>4, <1>5, <1>6

\* The log accepts its events, and a ledger is made of some of them.
Recorded ==
  /\ window \in Windows
  /\ hypothesis \in Hypotheses /\ ValidChangeDocument(hypothesis)
  /\ events \in Seq(Events) /\ LogAccepts(events)
  /\ changes # NoLedger =>
       /\ changes.context = context /\ changes.window = window /\ ValidWindow(window)
       /\ changes.entries \in Seq(ChangeEntries(context, window))
       /\ \A k \in DOMAIN changes.entries : \E i \in DOMAIN events :
            changes.entries[k] = ChangeEntry(context, window, events[i])
       /\ ~Repeats(changes.entries)

\* Nothing is recorded at first.
LEMMA RecordedInit == ChangeInit => Recorded
<1> SUFFICES ASSUME ChangeInit PROVE Recorded
  OBVIOUS
<1>1. events = <<>> /\ changes = NoLedger
  BY DEF ChangeInit
<1>2. events \in Seq(Events) /\ Len(events) = 0 /\ DOMAIN events = {}
  BY <1>1
<1>3. LogAccepts(events)
  BY <1>2, ChangeAssumption DEF LogAccepts, Repeats
<1>4. QED
  BY <1>1, <1>2, <1>3 DEF ChangeInit, Recorded

\* Every step keeps log and ledger together.
LEMMA RecordedStep == Recorded /\ [ChangeNext]_changeVars => Recorded'
<1> SUFFICES ASSUME Recorded, [ChangeNext]_changeVars PROVE Recorded'
  OBVIOUS
<1>1. CASE UNCHANGED changeVars
  BY <1>1 DEF Recorded, changeVars
<1>2. CASE VerifyChanges
  BY <1>2 DEF Recorded, VerifyChanges
<1>3. CASE Observe
  <2>1. PICK e \in ChangeEvents : LogAccepts(Append(events, e)) /\ events' = Append(events, e)
    BY <1>3 DEF Observe
  <2>2. UNCHANGED <<context, window, hypothesis, changes>>
    BY <1>3 DEF Observe
  <2>3. e \in Events
    BY ChangeAssumption DEF Events
  <2>4. events' \in Seq(Events) /\ LogAccepts(events')
    BY <2>1, <2>3 DEF Recorded
  <2>5. \A i \in DOMAIN events : i \in DOMAIN events' /\ events'[i] = events[i]
    BY <2>1, <2>3 DEF Recorded
  <2>6. QED
    BY <2>2, <2>4, <2>5 DEF Recorded
<1>4. CASE CompileChanges
  <2>1. UNCHANGED <<context, window, hypothesis, events>>
    BY <1>4 DEF CompileChanges
  <2>2. CASE changes' = NoLedger
    BY <2>1, <2>2 DEF Recorded
  <2>3. CASE changes' # NoLedger
    <3>1. PICK entries : entries = build_entries(context, window, ChangeEventLog(events))
      OBVIOUS
    <3>2. PICK l : l = [context |-> context, window |-> window, entries |-> entries]
      OBVIOUS
    <3>3. changes' = l /\ ValidWindow(window) /\ ValidChangeLedger(l)
      BY <1>4, <2>3, <3>1, <3>2 DEF CompileChanges, compile_change_event_ledger
    <3>4. l.context = context /\ l.window = window /\ l.entries = entries
      BY <3>2
    <3>5. ~Repeats(entries)
      BY <3>3, <3>4 DEF ValidChangeLedger
    <3>6. /\ entries \in Seq(ChangeEntries(context, window))
          /\ \A k \in DOMAIN entries : \E i \in DOMAIN events :
               entries[k] = ChangeEntry(context, window, events[i])
      BY <3>1, LogEntries DEF Recorded
    <3>7. QED
      BY <2>1, <3>3, <3>4, <3>5, <3>6 DEF Recorded
  <2>4. QED
    BY <2>2, <2>3
<1>5. QED
  BY <1>1, <1>2, <1>3, <1>4 DEF ChangeNext

-----------------------------------------------------------------------------
(* The order of arrival. *)

\* The present ledger is the one made of these events.
MadeOf(es) ==
  /\ es \in Seq(Events) /\ LogAccepts(es) /\ ToSet(es) = compiled
  /\ changes = compile_change_event_ledger(context, window, ChangeEventLog(es))

CompiledFrom == changes # NoLedger => \E es : MadeOf(es)

\* A ledger stays that of the events that were compiled.
LEMMA CompiledFromStep == Recorded /\ CompiledFrom /\ [ChangeNext]_changeVars => CompiledFrom'
<1> SUFFICES ASSUME Recorded, CompiledFrom, [ChangeNext]_changeVars, changes' # NoLedger
             PROVE  (\E es : MadeOf(es))'
  BY DEF CompiledFrom
<1>1. CASE CompileChanges
  <2>1. /\ changes' = compile_change_event_ledger(context, window, ChangeEventLog(events))
        /\ compiled' = ToSet(events) /\ UNCHANGED <<context, window, events>>
    BY <1>1 DEF CompileChanges
  <2>2. events \in Seq(Events) /\ LogAccepts(events)
    BY DEF Recorded
  <2>3. MadeOf(events)'
    BY <2>1, <2>2 DEF MadeOf
  <2>4. QED
    BY <2>3
<1>2. CASE UNCHANGED <<context, window, changes, compiled>>
  <2>1. PICK es : MadeOf(es)
    BY <1>2 DEF CompiledFrom
  <2>2. MadeOf(es)'
    BY <1>2, <2>1 DEF MadeOf
  <2>3. QED
    BY <2>2
<1>3. QED
  BY <1>1, <1>2 DEF ChangeNext, Observe, VerifyChanges, changeVars

\* The entries of the present ledger are those of the events compiled.
LEMMA CompiledEntries ==
  ASSUME changes # NoLedger, NEW es, MadeOf(es), NEW entries, entries = changes.entries
  PROVE  /\ entries = build_entries(context, window, ChangeEventLog(es))
         /\ ValidWindow(window) /\ Len(entries) = Len(es)
         /\ entries \in Seq(ChangeEntries(context, window))
         /\ \A k \in DOMAIN entries : \E i \in DOMAIN es :
              entries[k] = ChangeEntry(context, window, es[i])
         /\ \A i \in DOMAIN es : \E k \in DOMAIN entries :
              entries[k] = ChangeEntry(context, window, es[i])
<1>1. PICK built : built = build_entries(context, window, ChangeEventLog(es))
  OBVIOUS
<1>2. /\ changes = [context |-> context, window |-> window, entries |-> built]
      /\ ValidWindow(window)
  BY <1>1 DEF MadeOf, compile_change_event_ledger
<1>3. entries = built
  BY <1>2
<1>4. es \in Seq(Events) /\ LogAccepts(es)
  BY DEF MadeOf
<1>5. QED
  BY <1>1, <1>2, <1>3, <1>4, LogEntries

\* The entries are those of the set of events.
LEMMA ArrivalLeavesNoTrace == CompiledFrom => ArrivalIrrelevant
<1> SUFFICES ASSUME CompiledFrom, changes # NoLedger
             PROVE  /\ {Identity(e) : e \in ToSet(changes.entries)} = compiled
                    /\ Len(changes.entries) = Cardinality(compiled)
                    /\ \A fs \in SetToSeqs(compiled) :
                         compile_change_event_ledger(context, window, ChangeEventLog(fs)) = changes
  BY DEF ArrivalIrrelevant
<1>1. PICK entries : entries = changes.entries
  OBVIOUS
<1>2. PICK es : MadeOf(es)
  BY DEF CompiledFrom
<1>3. /\ es \in Seq(Events) /\ LogAccepts(es) /\ ToSet(es) = compiled
      /\ changes = compile_change_event_ledger(context, window, ChangeEventLog(es))
  BY <1>2 DEF MadeOf
<1>4. /\ Len(entries) = Len(es)
      /\ \A k \in DOMAIN entries : \E i \in DOMAIN es :
           entries[k] = ChangeEntry(context, window, es[i])
      /\ \A i \in DOMAIN es : \E k \in DOMAIN entries :
           entries[k] = ChangeEntry(context, window, es[i])
  BY <1>1, <1>2, CompiledEntries
<1>5. \A i \in DOMAIN es : Identity(ChangeEntry(context, window, es[i])) = es[i]
  <2>1. \A i \in DOMAIN es : es[i] \in Events
    BY <1>3
  <2>2. QED
    BY <2>1, EntryIdentity
<1>6. {Identity(e) : e \in ToSet(entries)} = compiled
  <2>1. ASSUME NEW k \in DOMAIN entries PROVE Identity(entries[k]) \in compiled
    <3>1. PICK i \in DOMAIN es : entries[k] = ChangeEntry(context, window, es[i])
      BY <1>4
    <3>2. QED
      BY <1>3, <1>5, <3>1 DEF ToSet
  <2>2. ASSUME NEW e \in compiled PROVE \E k \in DOMAIN entries : Identity(entries[k]) = e
    <3>1. PICK i \in DOMAIN es : es[i] = e
      BY <1>3 DEF ToSet
    <3>2. PICK k \in DOMAIN entries : entries[k] = ChangeEntry(context, window, es[i])
      BY <1>4
    <3>3. QED
      BY <1>5, <3>1, <3>2
  <2>3. QED
    BY <2>1, <2>2 DEF ToSet
<1>7. Len(entries) = Cardinality(compiled)
  BY <1>3, <1>4, LogCounted
<1>8. ASSUME NEW fs \in SetToSeqs(compiled)
      PROVE  compile_change_event_ledger(context, window, ChangeEventLog(fs)) = changes
  <2>1. fs \in SetToSeqs(ToSet(es))
    BY <1>3, <1>8
  <2>2. fs \in Seq(Events) /\ LogAccepts(fs) /\ ToSet(fs) = ToSet(es)
    BY <1>3, <2>1, Rearranged
  <2>3. ChangeEventLog(fs) = ChangeEventLog(es)
    BY <1>3, <2>2, SameLog
  <2>4. QED
    BY <1>3, <2>3
<1>9. QED
  BY <1>1, <1>6, <1>7, <1>8

\* Whatever the events and the order of their arrival, the ledger holds each of
\* them once and nothing else, and any other order would have made the same
\* ledger (ArrivalIrrelevant).
THEOREM LedgerIgnoresArrival == ChangeSpec => []ArrivalIrrelevant
<1>1. ChangeInit => Recorded /\ CompiledFrom
  BY RecordedInit DEF ChangeInit, CompiledFrom
<1>2. Recorded /\ [ChangeNext]_changeVars => Recorded'
  BY RecordedStep
<1>3. Recorded /\ CompiledFrom /\ [ChangeNext]_changeVars => CompiledFrom'
  BY CompiledFromStep
<1>4. CompiledFrom => ArrivalIrrelevant
  BY ArrivalLeavesNoTrace
<1>5. QED
  BY <1>1, <1>2, <1>3, <1>4, PTL DEF ChangeSpec

-----------------------------------------------------------------------------
(* The verdict. *)

Claims == [pid : STRING, key : Int, kind : Int,
           phase : {"within_window", "pre_injection", "post_injection"}]

From(p, w) == IF p.phase = "post_injection" THEN w.injection ELSE w.start
To(p, w) == IF p.phase = "pre_injection" THEN w.injection ELSE w.end

\* A phase fits a claim when the event falls into the part of the window named.
LEMMA PhaseFits ==
  ASSUME NEW w \in [start : Int, injection : Int, end : Int], ValidWindow(w),
         NEW at \in Int, NEW p \in Claims
  PROVE  phase_satisfies(phase(at, w), p.phase) <=> From(p, w) <= at /\ at < To(p, w)
<1>1. w.start \in Int /\ w.injection \in Int /\ w.end \in Int
      /\ w.start <= w.injection /\ w.injection < w.end
  BY DEF ValidWindow
<1>2. p.phase \in {"within_window", "pre_injection", "post_injection"}
  BY DEF Claims
<1>3. CASE p.phase = "within_window"
  BY <1>1, <1>3 DEF phase_satisfies, phase, From, To
<1>4. CASE p.phase = "pre_injection"
  BY <1>1, <1>4 DEF phase_satisfies, phase, From, To
<1>5. CASE p.phase = "post_injection"
  BY <1>1, <1>5 DEF phase_satisfies, phase, From, To
<1>6. QED
  BY <1>2, <1>3, <1>4, <1>5

\* A sequence is empty when it has no place.
LEMMA EmptySeq ==
  ASSUME NEW A, NEW s \in Seq(A)
  PROVE  s = <<>> <=> DOMAIN s = {}
<1>1. s = <<>> => DOMAIN s = {}
  OBVIOUS
<1>2. PICK n \in Nat : n = Len(s) /\ DOMAIN s = 1..n
  OBVIOUS
<1>3. DOMAIN s = {} => n = 0
  <2>1. n # 0 => 1 \in 1..n
    OBVIOUS
  <2>2. QED
    BY <1>2, <2>1
<1>4. n = 0 => s = <<>>
  BY <1>2
<1>5. QED
  BY <1>1, <1>3, <1>4

\* The entries a predicate is about, and those of them that fit.
About(p, e) == e.key = p.key /\ e.kind = p.kind
Fits(p, w, e) == From(p, w) <= e.at /\ e.at < To(p, w)

\* One predicate: support by an entry that fits, or refutation where none does.
FoundBy(p, w, entries) ==
  IF ~\E k \in DOMAIN entries : About(p, entries[k]) THEN "unknown"
  ELSE IF \E k \in DOMAIN entries : About(p, entries[k]) /\ Fits(p, w, entries[k])
  THEN "supported" ELSE "refuted"

\* A predicate is decided by the entries that fit its claim.
LEMMA PredicateDecided ==
  ASSUME NEW c, NEW w \in [start : Int, injection : Int, end : Int], ValidWindow(w),
         NEW entries \in Seq(ChangeEntries(c, w)), NEW p \in Claims
  PROVE  change_evaluate_predicate(p, entries).verdict = FoundBy(p, w, entries)
<1>1. PICK K : K = {k \in DOMAIN entries : entries[k].key = p.key /\ entries[k].kind = p.kind}
  OBVIOUS
<1>2. K \in SUBSET DOMAIN entries /\ \A k \in DOMAIN entries : k \in K <=> About(p, entries[k])
  BY <1>1 DEF About
<1>3. PICK matching : matching = Matching(p, entries)
  OBVIOUS
<1>4. matching = Kept(entries, K)
  BY <1>1, <1>3 DEF Matching
<1>5. /\ matching \in Seq(ChangeEntries(c, w))
      /\ \A k \in DOMAIN matching : \E i \in K : matching[k] = entries[i]
      /\ \A i \in K : \E k \in DOMAIN matching : matching[k] = entries[i]
  BY <1>2, <1>4, KeptElements
<1>6. PICK F : F = {k \in DOMAIN matching : phase_satisfies(matching[k].phase, p.phase)}
  OBVIOUS
<1>7. PICK fits : fits = Fitting(p, entries)
  OBVIOUS
<1>8. fits = Kept(matching, F)
  BY <1>3, <1>6, <1>7 DEF Fitting
<1>9. F \in SUBSET DOMAIN matching
  BY <1>6
<1>10. /\ fits \in Seq(ChangeEntries(c, w))
       /\ \A k \in DOMAIN fits : \E i \in F : fits[k] = matching[i]
       /\ \A i \in F : \E k \in DOMAIN fits : fits[k] = matching[i]
  BY <1>5, <1>8, <1>9, KeptElements
<1>11. matching = <<>> <=> ~\E k \in DOMAIN entries : About(p, entries[k])
  <2>1. matching = <<>> <=> DOMAIN matching = {}
    BY <1>5, EmptySeq
  <2>2. DOMAIN matching = {} <=> K = {}
    BY <1>5
  <2>3. QED
    BY <1>2, <2>1, <2>2
<1>12. fits = <<>> <=> F = {}
  <2>1. fits = <<>> <=> DOMAIN fits = {}
    BY <1>10, EmptySeq
  <2>2. QED
    BY <1>10, <2>1
<1>13. ASSUME NEW k \in DOMAIN entries
       PROVE  phase_satisfies(entries[k].phase, p.phase) <=> Fits(p, w, entries[k])
  <2>1. entries[k] \in ChangeEntries(c, w)
    OBVIOUS
  <2>2. PICK e \in Events : entries[k] = ChangeEntry(c, w, e)
    BY <2>1 DEF ChangeEntries
  <2>3. entries[k].phase = phase(e.at, w) /\ entries[k].at = e.at
    BY <2>2, EntryIdentity
  <2>4. e.at \in Int
    BY DEF Events
  <2>5. QED
    BY <2>3, <2>4, PhaseFits DEF Fits
<1>14. F = {} <=> ~\E k \in DOMAIN entries : About(p, entries[k]) /\ Fits(p, w, entries[k])
  <2>1. ASSUME NEW f \in F
        PROVE  \E k \in DOMAIN entries : About(p, entries[k]) /\ Fits(p, w, entries[k])
    <3>1. f \in DOMAIN matching /\ phase_satisfies(matching[f].phase, p.phase)
      BY <1>6
    <3>2. PICK i \in K : matching[f] = entries[i]
      BY <1>5, <3>1
    <3>3. QED
      BY <1>2, <1>13, <3>1, <3>2
  <2>2. ASSUME NEW k \in DOMAIN entries, About(p, entries[k]), Fits(p, w, entries[k])
        PROVE  F # {}
    <3>1. PICK i \in DOMAIN matching : matching[i] = entries[k]
      BY <1>2, <1>5, <2>2
    <3>2. phase_satisfies(matching[i].phase, p.phase)
      BY <1>13, <2>2, <3>1
    <3>3. QED
      BY <1>6, <3>1, <3>2
  <2>3. QED
    BY <2>1, <2>2
<1>15. change_evaluate_predicate(p, entries) =
         IF matching = <<>> THEN ChangeUnknown(p, "change_not_observed")
         ELSE IF fits # <<>> THEN ChangeResult(p, "supported", "none", IdsOf(fits), <<>>)
         ELSE ChangeResult(p, "refuted", "none", <<>>, IdsOf(matching))
  BY <1>3, <1>7 DEF change_evaluate_predicate
<1>16. change_evaluate_predicate(p, entries).verdict =
         IF matching = <<>> THEN "unknown" ELSE IF fits # <<>> THEN "supported" ELSE "refuted"
  BY <1>15 DEF ChangeUnknown, ChangeResult
<1>17. QED
  BY <1>11, <1>12, <1>14, <1>16 DEF FoundBy

\* The least and the greatest of some truths.
LEMMA KleeneBounds ==
  ASSUME NEW T \in SUBSET {-1, 0, 1}, T # {}
  PROVE  /\ Min(T) = IF -1 \in T THEN -1 ELSE IF 0 \in T THEN 0 ELSE 1
         /\ Max(T) = IF 1 \in T THEN 1 ELSE IF 0 \in T THEN 0 ELSE -1
<1>1. T \subseteq Int /\ \A y \in T : y = -1 \/ y = 0 \/ y = 1
  OBVIOUS
<1>2. -1 \in T \/ 0 \in T \/ 1 \in T
  BY <1>1
<1>3. \E x \in T : \A y \in T : x <= y
  <2>1. CASE -1 \in T
    <3>1. \A y \in T : -1 <= y
      BY <1>1
    <3>2. QED
      BY <2>1, <3>1
  <2>2. CASE -1 \notin T /\ 0 \in T
    <3>1. \A y \in T : 0 <= y
      BY <1>1, <2>2
    <3>2. QED
      BY <2>2, <3>1
  <2>3. CASE -1 \notin T /\ 0 \notin T
    <3>1. 1 \in T /\ \A y \in T : 1 <= y
      BY <1>1, <1>2, <2>3
    <3>2. QED
      BY <3>1
  <2>4. QED
    BY <2>1, <2>2, <2>3
<1>4. \E x \in T : \A y \in T : x >= y
  <2>1. CASE 1 \in T
    <3>1. \A y \in T : 1 >= y
      BY <1>1
    <3>2. QED
      BY <2>1, <3>1
  <2>2. CASE 1 \notin T /\ 0 \in T
    <3>1. \A y \in T : 0 >= y
      BY <1>1, <2>2
    <3>2. QED
      BY <2>2, <3>1
  <2>3. CASE 1 \notin T /\ 0 \notin T
    <3>1. -1 \in T /\ \A y \in T : -1 >= y
      BY <1>1, <1>2, <2>3
    <3>2. QED
      BY <3>1
  <2>4. QED
    BY <2>1, <2>2, <2>3
<1>5. PICK least : least = Min(T)
  OBVIOUS
<1>6. PICK most : most = Max(T)
  OBVIOUS
<1>7. least \in T /\ \A y \in T : least <= y
  BY <1>3, <1>5 DEF Min
<1>8. most \in T /\ \A y \in T : most >= y
  BY <1>4, <1>6 DEF Max
<1>9. least = IF -1 \in T THEN -1 ELSE IF 0 \in T THEN 0 ELSE 1
  <2>1. least = -1 \/ least = 0 \/ least = 1
    BY <1>1, <1>7
  <2>2. QED
    BY <1>7, <2>1
<1>10. most = IF 1 \in T THEN 1 ELSE IF 0 \in T THEN 0 ELSE -1
  <2>1. most = -1 \/ most = 0 \/ most = 1
    BY <1>1, <1>8
  <2>2. QED
    BY <1>8, <2>1
<1>11. QED
  BY <1>5, <1>6, <1>9, <1>10

\* A set of the values at some places.
Lists(T, f, D) == (\A k \in D : f[k] \in T) /\ \A x \in T : \E k \in D : x = f[k]

\* The composition of verdicts is that of the truths they stand for.
LEMMA ComposedAsKleene ==
  ASSUME NEW composition \in {"all", "any"}, NEW results, NEW truth,
         DOMAIN results # {},
         \A k \in DOMAIN results : truth[k] \in {-1, 0, 1},
         \A k \in DOMAIN results : results[k].verdict = ChangeVerdictOf(truth[k]),
         NEW T, Lists(T, truth, DOMAIN results)
  PROVE  change_compose(composition, results) =
           ChangeVerdictOf(IF composition = "all" THEN Min(T) ELSE Max(T))
<1>1. T \in SUBSET {-1, 0, 1} /\ T # {}
  BY DEF Lists
<1>2. /\ (\E k \in DOMAIN results : results[k].verdict = "supported") <=> 1 \in T
      /\ (\E k \in DOMAIN results : results[k].verdict = "unknown") <=> 0 \in T
      /\ (\E k \in DOMAIN results : results[k].verdict = "refuted") <=> -1 \in T
  <2>1. \A k \in DOMAIN results :
          /\ results[k].verdict = "supported" <=> truth[k] = 1
          /\ results[k].verdict = "unknown" <=> truth[k] = 0
          /\ results[k].verdict = "refuted" <=> truth[k] = -1
    BY DEF ChangeVerdictOf
  <2>2. QED
    BY <2>1 DEF Lists
<1>3. /\ Min(T) = IF -1 \in T THEN -1 ELSE IF 0 \in T THEN 0 ELSE 1
      /\ Max(T) = IF 1 \in T THEN 1 ELSE IF 0 \in T THEN 0 ELSE -1
  BY <1>1, KleeneBounds
<1>4. 1 \in T \/ 0 \in T \/ -1 \in T
  BY <1>1
<1>5. CASE composition = "all"
  BY <1>2, <1>3, <1>4, <1>5 DEF change_compose, ChangeVerdictOf
<1>6. CASE composition = "any"
  BY <1>2, <1>3, <1>4, <1>6 DEF change_compose, ChangeVerdictOf
<1>7. QED
  BY <1>5, <1>6

\* A document of another context, or one that claims a cause, is not decided.
Gated == hypothesis.context # context \/ hypothesis.semantics = "causal"

\* What verification of a ledger with the present context and window finds.
LEMMA LedgerVerified ==
  ASSUME Recorded, ValidWindow(window),
         NEW l, l.context = context, l.entries \in Seq(ChangeEntries(context, window)),
         NEW v, v = verify_change_hypothesis(hypothesis, l),
         NEW ps, ps = hypothesis.predicates
  PROVE  /\ ps \in Seq(Claims) /\ DOMAIN ps # {} /\ hypothesis.composition \in {"all", "any"}
         /\ DOMAIN v.results = DOMAIN ps
         /\ \A k \in DOMAIN ps :
              v.results[k].verdict = IF Gated THEN "unknown" ELSE FoundBy(ps[k], window, l.entries)
         /\ v.verdict = IF Gated THEN "unknown" ELSE change_compose(hypothesis.composition, v.results)
<1>1. /\ ps \in Seq(Claims) /\ hypothesis.composition \in {"all", "any"}
      /\ window \in [start : Int, injection : Int, end : Int]
  BY ChangeAssumption DEF Recorded, Claims
<1>2. DOMAIN ps # {}
  <2>1. Len(ps) >= 1
    BY <1>1 DEF Recorded, ValidChangeDocument
  <2>2. 1 \in DOMAIN ps
    BY <1>1, <2>1
  <2>3. QED
    BY <2>2
<1>3. PICK entries : entries = l.entries
  OBVIOUS
<1>4. PICK reason : reason = DocumentReason(hypothesis, l)
  OBVIOUS
<1>5. PICK results : results = [k \in DOMAIN ps |->
                    IF reason # "none" THEN ChangeUnknown(ps[k], reason)
                    ELSE change_evaluate_predicate(ps[k], entries)]
  OBVIOUS
<1>6. /\ v.results = results
      /\ v.verdict = IF reason # "none" THEN "unknown"
                     ELSE change_compose(hypothesis.composition, results)
  BY <1>3, <1>4, <1>5 DEF verify_change_hypothesis
<1>7. reason # "none" <=> Gated
  BY <1>4 DEF DocumentReason, Gated
<1>8. ASSUME NEW k \in DOMAIN ps
      PROVE  results[k].verdict = IF Gated THEN "unknown" ELSE FoundBy(ps[k], window, entries)
  <2>1. ps[k] \in Claims
    BY <1>1
  <2>2. CASE Gated
    BY <1>5, <1>7, <2>2 DEF ChangeUnknown, ChangeResult
  <2>3. CASE ~Gated
    <3>1. results[k] = change_evaluate_predicate(ps[k], entries)
      BY <1>5, <1>7, <2>3
    <3>2. QED
      BY <1>1, <1>3, <2>1, <2>3, <3>1, PredicateDecided
  <2>4. QED
    BY <2>2, <2>3
<1>9. DOMAIN results = DOMAIN ps
  BY <1>5
<1>10. QED
  BY <1>1, <1>2, <1>3, <1>6, <1>7, <1>8, <1>9

\* What the events say of a predicate is what the places of the ledger say.
LEMMA TruthOfPredicate ==
  ASSUME CompiledFrom, changes # NoLedger, NEW p \in Claims
  PROVE  /\ ObservedTruth(p) \in {-1, 0, 1}
         /\ Gated => ObservedTruth(p) = 0
         /\ ChangeVerdictOf(ObservedTruth(p)) =
              IF Gated THEN "unknown" ELSE FoundBy(p, window, changes.entries)
<1>1. PICK entries : entries = changes.entries
  OBVIOUS
<1>2. PICK times : times = {e.at : e \in {x \in compiled : x.key = p.key /\ x.kind = p.kind}}
  OBVIOUS
<1>3. ObservedTruth(p) =
        IF Gated \/ times = {} THEN 0
        ELSE IF \E t \in times : From(p, window) <= t /\ t < To(p, window) THEN 1 ELSE -1
  BY <1>2 DEF ObservedTruth, From, To, Gated
<1>4. PICK es : MadeOf(es)
  BY DEF CompiledFrom
<1>5. es \in Seq(Events) /\ compiled = ToSet(es)
  BY <1>4 DEF MadeOf
<1>6. \A t : t \in times <=> \E i \in DOMAIN es : About(p, es[i]) /\ t = es[i].at
  <2>1. \A t : t \in times <=> \E x \in compiled : About(p, x) /\ t = x.at
    BY <1>2 DEF About
  <2>2. \A x : x \in compiled <=> \E i \in DOMAIN es : x = es[i]
    BY <1>5 DEF ToSet
  <2> QED
    BY <2>1, <2>2
<1>7. /\ Len(entries) = Len(es)
      /\ \A k \in DOMAIN entries : \E i \in DOMAIN es :
           entries[k] = ChangeEntry(context, window, es[i])
      /\ \A i \in DOMAIN es : \E k \in DOMAIN entries :
           entries[k] = ChangeEntry(context, window, es[i])
  BY <1>1, <1>4, CompiledEntries
<1>8. ASSUME NEW i \in DOMAIN es, NEW x, x = ChangeEntry(context, window, es[i])
      PROVE  x.at = es[i].at /\ (About(p, x) <=> About(p, es[i]))
  <2>1. es[i] \in Events
    BY <1>5
  <2>2. QED
    BY <1>8, <2>1, EntryIdentity DEF About
<1>9. \A t : t \in times <=> \E k \in DOMAIN entries : About(p, entries[k]) /\ t = entries[k].at
  <2>1. ASSUME NEW t, t \in times
        PROVE  \E k \in DOMAIN entries : About(p, entries[k]) /\ t = entries[k].at
    <3>1. PICK i \in DOMAIN es : About(p, es[i]) /\ t = es[i].at
      BY <1>6, <2>1
    <3>2. PICK k \in DOMAIN entries : entries[k] = ChangeEntry(context, window, es[i])
      BY <1>7
    <3>3. QED
      BY <1>8, <3>1, <3>2
  <2>2. ASSUME NEW t, NEW k \in DOMAIN entries, About(p, entries[k]), t = entries[k].at
        PROVE  t \in times
    <3>1. PICK i \in DOMAIN es : entries[k] = ChangeEntry(context, window, es[i])
      BY <1>7
    <3>2. About(p, es[i]) /\ t = es[i].at
      BY <1>8, <2>2, <3>1
    <3>3. QED
      BY <1>6, <3>2
  <2>3. QED
    BY <2>1, <2>2
<1>10. times = {} <=> ~\E k \in DOMAIN entries : About(p, entries[k])
  BY <1>9
<1>11. (\E t \in times : From(p, window) <= t /\ t < To(p, window)) <=>
      \E k \in DOMAIN entries : About(p, entries[k]) /\ Fits(p, window, entries[k])
  BY <1>9 DEF Fits
<1>12. QED
  BY <1>1, <1>3, <1>10, <1>11 DEF FoundBy, ChangeVerdictOf

\* Each verdict is the one that the events compiled call for.
LEMMA VerdictFollowsTruth == Recorded /\ CompiledFrom => ChangeVerdictSound
<1> SUFFICES ASSUME Recorded, CompiledFrom, changes # NoLedger,
                    finding = verify_change_hypothesis(hypothesis, changes),
                    NEW T, T = {ObservedTruth(p) : p \in ToSet(hypothesis.predicates)}
             PROVE  /\ \A k \in DOMAIN hypothesis.predicates :
                         finding.results[k].verdict =
                           ChangeVerdictOf(ObservedTruth(hypothesis.predicates[k]))
                    /\ finding.verdict =
                         ChangeVerdictOf(IF hypothesis.composition = "all" THEN Min(T) ELSE Max(T))
  BY DEF ChangeVerdictSound
<1>1. PICK ps : ps = hypothesis.predicates
  OBVIOUS
<1>2. PICK entries : entries = changes.entries
  OBVIOUS
<1>3. PICK v : v = finding
  OBVIOUS
<1>4. /\ ValidWindow(window) /\ changes.context = context
      /\ changes.entries \in Seq(ChangeEntries(context, window))
  BY DEF Recorded
<1>5. /\ ps \in Seq(Claims) /\ DOMAIN ps # {} /\ hypothesis.composition \in {"all", "any"}
      /\ DOMAIN v.results = DOMAIN ps
      /\ \A k \in DOMAIN ps :
           v.results[k].verdict = IF Gated THEN "unknown" ELSE FoundBy(ps[k], window, entries)
      /\ v.verdict = IF Gated THEN "unknown" ELSE change_compose(hypothesis.composition, v.results)
  BY <1>1, <1>2, <1>3, <1>4, LedgerVerified
<1>6. PICK truth : truth = [k \in DOMAIN ps |-> ObservedTruth(ps[k])]
  OBVIOUS
<1>7. Lists(T, truth, DOMAIN ps)
  BY <1>1, <1>6 DEF ToSet, Lists
<1>8. ASSUME NEW k \in DOMAIN ps
      PROVE  /\ truth[k] \in {-1, 0, 1}
             /\ v.results[k].verdict = ChangeVerdictOf(truth[k])
             /\ Gated => truth[k] = 0
  <2>1. ps[k] \in Claims
    BY <1>5
  <2>2. truth[k] = ObservedTruth(ps[k])
    BY <1>6
  <2>3. QED
    BY <1>2, <1>5, <2>1, <2>2, TruthOfPredicate
<1>9. \A k \in DOMAIN ps : v.results[k].verdict = ChangeVerdictOf(ObservedTruth(ps[k]))
  BY <1>6, <1>8
<1>10. v.verdict = ChangeVerdictOf(IF hypothesis.composition = "all" THEN Min(T) ELSE Max(T))
  <2>1. CASE Gated
    <3>1. T \subseteq {0} /\ T # {}
      BY <1>5, <1>7, <1>8, <2>1 DEF Lists
    <3>2. T \in SUBSET {-1, 0, 1} /\ 0 \in T /\ -1 \notin T /\ 1 \notin T
      BY <3>1
    <3>3. Min(T) = 0 /\ Max(T) = 0
      BY <3>1, <3>2, KleeneBounds
    <3>4. QED
      BY <1>5, <2>1, <3>3 DEF ChangeVerdictOf
  <2>2. CASE ~Gated
    <3>1. PICK composition \in {"all", "any"} : composition = hypothesis.composition
      BY <1>5
    <3>2. PICK results : results = v.results
      OBVIOUS
    <3>3. DOMAIN results # {} /\ Lists(T, truth, DOMAIN results)
      BY <1>5, <1>7, <3>2
    <3>4. \A k \in DOMAIN results : truth[k] \in {-1, 0, 1}
      BY <1>5, <1>8, <3>2
    <3>5. \A k \in DOMAIN results : results[k].verdict = ChangeVerdictOf(truth[k])
      BY <1>5, <1>8, <3>2
    <3>6. change_compose(composition, results) =
            ChangeVerdictOf(IF composition = "all" THEN Min(T) ELSE Max(T))
      BY <3>3, <3>4, <3>5, ComposedAsKleene
    <3>7. QED
      BY <1>5, <2>2, <3>1, <3>2, <3>6
  <2>3. QED
    BY <2>1, <2>2
<1>11. QED
  BY <1>1, <1>3, <1>9, <1>10

\* Whatever the events and the hypothesis, a verification of the present ledger
\* finds for each predicate what the times of the events compiled say of it, and
\* composes the answers as Kleene does (ChangeVerdictSound).
THEOREM VerdictFollowsTheLog == ChangeSpec => []ChangeVerdictSound
<1>1. ChangeInit => Recorded /\ CompiledFrom
  BY RecordedInit DEF ChangeInit, CompiledFrom
<1>2. Recorded /\ [ChangeNext]_changeVars => Recorded'
  BY RecordedStep
<1>3. Recorded /\ CompiledFrom /\ [ChangeNext]_changeVars => CompiledFrom'
  BY CompiledFromStep
<1>4. Recorded /\ CompiledFrom => ChangeVerdictSound
  BY VerdictFollowsTruth
<1>5. QED
  BY <1>1, <1>2, <1>3, <1>4, PTL DEF ChangeSpec

-----------------------------------------------------------------------------
(* Evidence accumulates. *)

\* A verification is that of some earlier ledger, of events that are all in the
\* log and in every ledger compiled since.
VerifiedFrom(l) ==
  /\ finding = verify_change_hypothesis(hypothesis, l)
  /\ ValidWindow(window) /\ l.context = context
  /\ l.entries \in Seq(ChangeEntries(context, window))
  /\ \A k \in DOMAIN l.entries : \E i \in DOMAIN events :
       l.entries[k] = ChangeEntry(context, window, events[i])
  /\ changes # NoLedger => Within(l.entries, changes.entries)

Accumulated == finding # NoResult => \E l : VerifiedFrom(l)

\* A verification stays that of a ledger whose events are all in the log.
LEMMA AccumulatedStep == Recorded /\ Accumulated /\ [ChangeNext]_changeVars => Accumulated'
<1> SUFFICES ASSUME Recorded, Accumulated, [ChangeNext]_changeVars, finding' # NoResult
             PROVE  (\E l : VerifiedFrom(l))'
  BY DEF Accumulated
<1>1. CASE UNCHANGED changeVars
  <2>1. PICK l : VerifiedFrom(l)
    BY <1>1 DEF Accumulated, changeVars
  <2>2. VerifiedFrom(l)'
    BY <1>1, <2>1 DEF VerifiedFrom, changeVars
  <2>3. QED
    BY <2>2
<1>2. CASE Observe
  <2>1. PICK e \in ChangeEvents : events' = Append(events, e)
    BY <1>2 DEF Observe
  <2>2. UNCHANGED <<context, window, hypothesis, changes, finding>>
    BY <1>2 DEF Observe
  <2>3. PICK l : VerifiedFrom(l)
    BY <2>2 DEF Accumulated
  <2>4. e \in Events
    BY ChangeAssumption DEF Events
  <2>5. \A i \in DOMAIN events : i \in DOMAIN events' /\ events'[i] = events[i]
    BY <2>1, <2>4 DEF Recorded
  <2>6. VerifiedFrom(l)'
    BY <2>2, <2>3, <2>5 DEF VerifiedFrom
  <2>7. QED
    BY <2>6
<1>3. CASE CompileChanges
  <2>1. UNCHANGED <<context, window, hypothesis, events, finding>>
    BY <1>3 DEF CompileChanges
  <2>2. PICK l : VerifiedFrom(l)
    BY <2>1 DEF Accumulated
  <2>3. ASSUME changes' # NoLedger PROVE Within(l.entries, changes'.entries)
    <3>1. PICK entries : entries = build_entries(context, window, ChangeEventLog(events))
      OBVIOUS
    <3>2. changes' = [context |-> context, window |-> window, entries |-> entries]
      BY <1>3, <2>3, <3>1 DEF CompileChanges, compile_change_event_ledger
    <3>3. changes'.entries = entries
      BY <3>2
    <3>4. \A i \in DOMAIN events : \E k \in DOMAIN entries :
            entries[k] = ChangeEntry(context, window, events[i])
      BY <3>1, LogEntries DEF Recorded
    <3>5. QED
      BY <2>2, <3>3, <3>4 DEF VerifiedFrom, Within
  <2>4. VerifiedFrom(l)'
    BY <2>1, <2>2, <2>3 DEF VerifiedFrom
  <2>5. QED
    BY <2>4
<1>4. CASE VerifyChanges
  <2>1. /\ UNCHANGED <<context, window, hypothesis, events, changes>> /\ changes # NoLedger
        /\ finding' = verify_change_hypothesis(hypothesis, changes)
    BY <1>4 DEF VerifyChanges
  <2>2. VerifiedFrom(changes)'
    BY <2>1 DEF VerifiedFrom, Recorded, Within
  <2>3. QED
    BY <2>2
<1>5. QED
  BY <1>1, <1>2, <1>3, <1>4 DEF ChangeNext

\* More entries never undo support, nor make a decided predicate unknown.
LEMMA DecidedGrows ==
  ASSUME NEW p, NEW w, NEW few, NEW many, Within(few, many)
  PROVE  /\ FoundBy(p, w, few) = "supported" => FoundBy(p, w, many) = "supported"
         /\ FoundBy(p, w, few) # "unknown" =>
              FoundBy(p, w, many) \in {FoundBy(p, w, few), "supported"}
<1>1. (\E k \in DOMAIN few : About(p, few[k])) => \E k \in DOMAIN many : About(p, many[k])
  BY DEF Within
<1>2. (\E k \in DOMAIN few : About(p, few[k]) /\ Fits(p, w, few[k])) =>
      \E k \in DOMAIN many : About(p, many[k]) /\ Fits(p, w, many[k])
  BY DEF Within
<1>3. QED
  BY <1>1, <1>2 DEF FoundBy

\* Support composed of supports stays when no support is lost.
LEMMA SupportComposes ==
  ASSUME NEW composition \in {"all", "any"}, NEW few, NEW many,
         DOMAIN few = DOMAIN many,
         \A k \in DOMAIN few : few[k].verdict \in {"supported", "refuted", "unknown"},
         \A k \in DOMAIN many : many[k].verdict \in {"supported", "refuted", "unknown"},
         \A k \in DOMAIN few : few[k].verdict = "supported" => many[k].verdict = "supported",
         change_compose(composition, few) = "supported"
  PROVE  change_compose(composition, many) = "supported"
<1>1. CASE composition = "all"
  <2>1. \A k \in DOMAIN few : few[k].verdict = "supported"
    BY <1>1 DEF change_compose
  <2>2. \A k \in DOMAIN many : many[k].verdict = "supported"
    BY <2>1
  <2>3. QED
    BY <1>1, <2>2 DEF change_compose
<1>2. CASE composition = "any"
  <2>1. \E k \in DOMAIN few : few[k].verdict = "supported"
    BY <1>2 DEF change_compose
  <2>2. \E k \in DOMAIN many : many[k].verdict = "supported"
    BY <2>1
  <2>3. QED
    BY <1>2, <2>2 DEF change_compose
<1>3. QED
  BY <1>1, <1>2

Accumulates ==
  finding # NoResult =>
    /\ finding.verdict = "supported" => finding'.verdict = "supported"
    /\ \A k \in DOMAIN finding.results :
         finding.results[k].verdict # "unknown" =>
           finding'.results[k].verdict \in {finding.results[k].verdict, "supported"}

\* No step undoes what a verification found.
LEMMA StepAccumulates == Recorded /\ Accumulated /\ [ChangeNext]_changeVars => [Accumulates]_changeVars
<1> SUFFICES ASSUME Recorded, Accumulated, [ChangeNext]_changeVars, finding # NoResult
             PROVE  Accumulates
  BY DEF Accumulates
<1>1. CASE finding' = finding
  <2>1. QED
    BY <1>1 DEF Accumulates
<1>2. CASE VerifyChanges
  <2>1. PICK l : VerifiedFrom(l)
    BY DEF Accumulated
  <2>2. PICK now : now = changes
    OBVIOUS
  <2>3. PICK ps : ps = hypothesis.predicates
    OBVIOUS
  <2>4. PICK v : v = verify_change_hypothesis(hypothesis, l)
    OBVIOUS
  <2>5. PICK w : w = verify_change_hypothesis(hypothesis, now)
    OBVIOUS
  <2>6. finding = v /\ finding' = w /\ now # NoLedger
    BY <1>2, <2>1, <2>2, <2>4, <2>5 DEF VerifiedFrom, VerifyChanges
  <2>7. /\ ValidWindow(window) /\ l.context = context /\ now.context = context
        /\ l.entries \in Seq(ChangeEntries(context, window))
        /\ now.entries \in Seq(ChangeEntries(context, window))
        /\ Within(l.entries, now.entries)
    BY <2>1, <2>2, <2>6 DEF VerifiedFrom, Recorded
  <2>8. /\ hypothesis.composition \in {"all", "any"} /\ DOMAIN v.results = DOMAIN ps
        /\ \A k \in DOMAIN ps :
             v.results[k].verdict = IF Gated THEN "unknown" ELSE FoundBy(ps[k], window, l.entries)
        /\ v.verdict = IF Gated THEN "unknown" ELSE change_compose(hypothesis.composition, v.results)
    BY <2>3, <2>4, <2>7, LedgerVerified
  <2>9. /\ DOMAIN w.results = DOMAIN ps
        /\ \A k \in DOMAIN ps :
             w.results[k].verdict = IF Gated THEN "unknown" ELSE FoundBy(ps[k], window, now.entries)
        /\ w.verdict = IF Gated THEN "unknown" ELSE change_compose(hypothesis.composition, w.results)
    BY <2>3, <2>5, <2>7, LedgerVerified
  <2>10. ASSUME NEW k \in DOMAIN ps
         PROVE  /\ v.results[k].verdict = "supported" => w.results[k].verdict = "supported"
                /\ v.results[k].verdict # "unknown" =>
                     w.results[k].verdict \in {v.results[k].verdict, "supported"}
    BY <2>7, <2>8, <2>9, DecidedGrows
  <2>11. ASSUME v.verdict = "supported" PROVE w.verdict = "supported"
    <3>1. PICK composition \in {"all", "any"} : composition = hypothesis.composition
      BY <2>8
    <3>2. PICK few : few = v.results
      OBVIOUS
    <3>3. PICK many : many = w.results
      OBVIOUS
    <3>4. ~Gated /\ change_compose(composition, few) = "supported"
      BY <2>8, <2>11, <3>1, <3>2
    <3>5. \A k \in DOMAIN few : few[k].verdict \in {"supported", "refuted", "unknown"}
      BY <2>8, <3>2, <3>4 DEF FoundBy
    <3>6. \A k \in DOMAIN many : many[k].verdict \in {"supported", "refuted", "unknown"}
      BY <2>9, <3>3, <3>4 DEF FoundBy
    <3>7. \A k \in DOMAIN few : few[k].verdict = "supported" => many[k].verdict = "supported"
      BY <2>8, <2>10, <3>2, <3>3
    <3>8. DOMAIN few = DOMAIN many
      BY <2>8, <2>9, <3>2, <3>3
    <3>9. change_compose(composition, many) = "supported"
      BY <3>4, <3>5, <3>6, <3>7, <3>8, SupportComposes
    <3>10. QED
      BY <2>9, <3>1, <3>3, <3>4, <3>9
  <2>12. QED
    BY <2>6, <2>8, <2>10, <2>11 DEF Accumulates
<1>3. QED
  BY <1>1, <1>2 DEF ChangeNext, Observe, CompileChanges, changeVars

\* As the log grows, support once found stays, and what was decided never
\* becomes unknown again (EvidenceAccumulates).
THEOREM EvidenceNeverLost == ChangeSpec => EvidenceAccumulates
<1>1. ChangeInit => Recorded
  BY RecordedInit
<1>2. ChangeInit => Accumulated
  BY DEF ChangeInit, Accumulated
<1>3. Recorded /\ [ChangeNext]_changeVars => Recorded'
  BY RecordedStep
<1>4. Recorded /\ Accumulated /\ [ChangeNext]_changeVars => Accumulated'
  BY AccumulatedStep
<1>5. Recorded /\ Accumulated /\ [ChangeNext]_changeVars => [Accumulates]_changeVars
  BY StepAccumulates
<1>6. ChangeSpec => [][Accumulates]_changeVars
  BY <1>1, <1>2, <1>3, <1>4, <1>5, PTL DEF ChangeSpec
<1>7. QED
  BY <1>6, PTL DEF EvidenceAccumulates, Accumulates

-----------------------------------------------------------------------------
(***************************************************************************)
(* The metric pipeline.                                                     *)
(***************************************************************************)

-----------------------------------------------------------------------------
(* Scores. *)

Fractions == [n : Int, d : Nat \ {0}]

\* Fractions are compared as the rationals they stand for.
LEMMA LessOrders ==
  ASSUME NEW a \in Fractions, NEW b \in Fractions, NEW c \in Fractions
  PROVE  /\ Less(a, b) => ~Less(b, a)
         /\ Less(a, b) => Less(a, c) \/ Less(c, b)
<1>1. PICK an \in Int, bn \in Int, cn \in Int : an = a.n /\ bn = b.n /\ cn = c.n
  BY DEF Fractions
<1>2. PICK ad \in Int, bd \in Int, cd \in Int :
        ad = a.d /\ bd = b.d /\ cd = c.d /\ ad > 0 /\ bd > 0 /\ cd > 0
  BY DEF Fractions
<1>3. ASSUME ~(an * cd < cn * ad), ~(cn * bd < bn * cd)
      PROVE  ~(an * bd < bn * ad)
  <2>1. an * cd - cn * ad >= 0 /\ cn * bd - bn * cd >= 0
    BY <1>3
  <2>2. (an * cd - cn * ad) * bd >= 0
    BY <1>2, <2>1
  <2>3. (cn * bd - bn * cd) * ad >= 0
    BY <1>2, <2>1
  <2>4. (an * bd - bn * ad) * cd = (an * cd - cn * ad) * bd + (cn * bd - bn * cd) * ad
    OBVIOUS
  <2>5. (an * bd - bn * ad) * cd >= 0
    BY <2>2, <2>3, <2>4
  <2>6. an * bd - bn * ad >= 0
    BY <1>2, <2>5
  <2>7. QED
    BY <2>6
<1>4. QED
  BY <1>1, <1>2, <1>3 DEF Less

\* The greatest of three numbers is one of them and not below any.
LEMMA MaxOfThree ==
  ASSUME NEW x \in Int, NEW y \in Int, NEW z \in Int
  PROVE  Max({x, y, z}) \in Int /\ Max({x, y, z}) >= y
<1>1. \E m \in {x, y, z} : \A i \in {x, y, z} : m >= i
  <2>1. CASE x >= y /\ x >= z
    BY <2>1
  <2>2. CASE y >= x /\ y >= z
    BY <2>2
  <2>3. CASE z >= y /\ z >= x
    BY <2>3
  <2>4. QED
    BY <2>1, <2>2, <2>3
<1>2. Max({x, y, z}) \in {x, y, z} /\ \A i \in {x, y, z} : Max({x, y, z}) >= i
  BY <1>1 DEF Max
<1>3. QED
  BY <1>2

\* The same for two numbers.
LEMMA MaxOfTwo ==
  ASSUME NEW x \in Int, NEW y \in Int
  PROVE  Max({x, y}) \in Int
  BY DEF Max

-----------------------------------------------------------------------------
(* Evaluations. *)

Candidates ==
  [key : Int, pre_count : Nat, post_count : Nat, pre_median : Int, post_median : Int,
   pre_mad : Int, floor : Int, relative : Int, scale : Int,
   signed : Fractions, suspicion : Fractions]

\* The score has the sign of the shift.
Scores(c) ==
  /\ c.signed.n = 0 <=> c.post_median = c.pre_median
  /\ c.signed.n > 0 <=> c.post_median > c.pre_median

Evaluations ==
  [key : Int, floor : Int, pre_count : Nat, post_count : Nat, eligible : BOOLEAN,
   candidate : Candidates \cup {NoCandidate}]

\* A signal has a candidate when it is eligible, and the candidate its key.
Evaluates(e) ==
  /\ e.eligible <=> e.candidate # NoCandidate
  /\ e.candidate # NoCandidate =>
       e.candidate \in Candidates /\ e.candidate.key = e.key /\ Scores(e.candidate)

Policy(p) == p.points \in Nat \ {0} /\ p.relative \in Nat /\ p.score \in Fractions

SignalInput(i) ==
  /\ {"key", "points", "floor"} \subseteq DOMAIN i
  /\ i.key \in Int /\ i.floor \in Nat \ {0}
  /\ IsFiniteSet(DOMAIN i.points)
  /\ \A x \in DOMAIN i.points : x \in Int /\ i.points[x] \in Int

\* The absence of a candidate is no candidate.
LEMMA NoCandidateIsNone == NoCandidate \notin Candidates
<1>1. \A c \in Candidates : "key" \in DOMAIN c
  BY DEF Candidates
<1>2. "key" \notin DOMAIN NoCandidate
  BY DEF NoCandidate
<1>3. QED
  BY <1>1, <1>2

\* The values of a part of the window are whole numbers.
LEMMA ValuesListed ==
  ASSUME NEW i, SignalInput(i), NEW a \in Int, NEW b \in Int
  PROVE  ValuesIn(i.points, a, b) \in Seq(Int)
<1>1. PICK T : T = {t \in DOMAIN i.points : a <= t /\ t < b}
  OBVIOUS
<1>2. T \in SUBSET Int /\ T \subseteq DOMAIN i.points
  BY <1>1 DEF SignalInput
<1>3. IsFiniteSet(T)
  BY <1>2, FS_Subset DEF SignalInput
<1>4. Kept(i.points, T) = [k \in 1..Cardinality(T) |-> i.points[Ascending(T)[k]]]
  BY <1>2, <1>3, KeptLists
<1>5. PICK at : at = Ascending(T)
  OBVIOUS
<1>6. PICK n : n = Cardinality(T)
  OBVIOUS
<1>7. n \in Nat /\ at \in [1..n -> T]
  BY <1>2, <1>3, <1>5, <1>6, AscendingLists
<1>8. \A k \in 1..n : i.points[at[k]] \in Int
  BY <1>2, <1>7 DEF SignalInput
<1>9. [k \in 1..n |-> i.points[at[k]]] \in Seq(Int)
  BY <1>7, <1>8
<1>10. QED
  BY <1>1, <1>4, <1>5, <1>6, <1>9 DEF ValuesIn

\* A candidate's scale is positive, as the signal's own floor is.
LEMMA ScalePositive ==
  ASSUME NEW median \in Int, NEW mad \in Int, NEW floor \in Nat \ {0}, NEW relative \in Nat
  PROVE  ScaleOf(median, mad, floor, relative) \in Nat \ {0}
<1>1. PICK m \in Int : m = Max({AbsOf(median), 2 * floor})
  <2>1. AbsOf(median) \in Int /\ 2 * floor \in Int
    BY DEF AbsOf
  <2>2. QED
    BY <2>1, MaxOfTwo
<1>2. PICK x \in Int : x = RobustFactor * mad
  BY DEF RobustFactor
<1>3. PICK y \in Int : y = ScaleUnit * floor /\ y > 0
  BY DEF ScaleUnit
<1>4. PICK z \in Int : z = (ScaleUnit \div 4) * relative * m
  BY <1>1 DEF ScaleUnit
<1>5. ScaleOf(median, mad, floor, relative) = Max({x, y, z})
  BY <1>1, <1>2, <1>3, <1>4 DEF ScaleOf
<1>6. Max({x, y, z}) \in Int /\ Max({x, y, z}) >= y
  BY MaxOfThree
<1>7. QED
  BY <1>3, <1>5, <1>6

\* A candidate has a score that agrees with its medians.
LEMMA CandidateScored ==
  ASSUME NEW i, SignalInput(i), NEW p, Policy(p),
         NEW pre \in Seq(Int), NEW post \in Seq(Int), pre # <<>>, post # <<>>,
         NEW c, c = score_candidate(i, p, pre, post)
  PROVE  c \in Candidates /\ c.key = i.key /\ Scores(c)
<1>1. PICK a \in Int : a = Median2(pre)
  BY MedianWhole
<1>2. PICK b \in Int : b = Median2(post)
  BY MedianWhole
<1>3. PICK spread : spread = [k \in DOMAIN pre |-> AbsOf(2 * pre[k] - a)]
  OBVIOUS
<1>4. spread \in Seq(Int) /\ spread # <<>>
  <2>1. PICK n \in Nat : n = Len(pre) /\ n > 0 /\ DOMAIN pre = 1..n
    OBVIOUS
  <2>2. \A k \in 1..n : AbsOf(2 * pre[k] - a) \in Int
    BY <2>1 DEF AbsOf
  <2>3. spread \in Seq(Int) /\ Len(spread) = n
    BY <1>3, <2>1, <2>2
  <2>4. QED
    BY <2>1, <2>3
<1>5. PICK mad \in Int : mad = Median2(spread)
  BY <1>4, MedianWhole
<1>6. i.floor \in Nat \ {0} /\ i.key \in Int /\ p.relative \in Nat
  BY DEF SignalInput, Policy
<1>7. PICK scale \in Nat \ {0} : scale = ScaleOf(a, mad, i.floor, p.relative)
  BY <1>6, ScalePositive
<1>8. PICK signed : signed = SignedScore(a, b, scale)
  OBVIOUS
<1>9. signed \in Fractions /\ signed.n = 2000 * (b - a)
  BY <1>8 DEF SignedScore, ScaleUnit, Fractions
<1>10. AbsScore(signed) \in Fractions
  <2>1. PICK x \in Int : x = 2000 * (b - a)
    OBVIOUS
  <2>2. signed = [n |-> x, d |-> scale]
    BY <1>8, <2>1 DEF SignedScore, ScaleUnit
  <2>3. PICK y \in Int : y = AbsOf(x)
    BY DEF AbsOf
  <2>4. AbsScore(signed) = [n |-> y, d |-> scale]
    BY <2>2, <2>3 DEF AbsScore
  <2>5. QED
    BY <2>4 DEF Fractions
<1>11. c = [key |-> i.key, pre_count |-> Len(pre), post_count |-> Len(post),
            pre_median |-> a, post_median |-> b, pre_mad |-> mad,
            floor |-> i.floor, relative |-> p.relative,
            scale |-> scale, signed |-> signed, suspicion |-> AbsScore(signed)]
  BY <1>1, <1>2, <1>3, <1>5, <1>7, <1>8 DEF score_candidate
<1>12. c \in Candidates
  BY <1>6, <1>9, <1>10, <1>11 DEF Candidates
<1>13. c.key = i.key /\ c.signed = signed /\ c.pre_median = a /\ c.post_median = b
  BY <1>11
<1>14. QED
  BY <1>9, <1>12, <1>13, SMTT(40) DEF Scores

\* An evaluation has the key of its signal, and a scored candidate or none.
LEMMA SignalEvaluated ==
  ASSUME NEW i, SignalInput(i), NEW p, Policy(p),
         NEW e, e = evaluate_signal(Window, i, p)
  PROVE  e \in Evaluations /\ e.key = i.key /\ Evaluates(e)
<1>1. Window.start \in Int /\ Window.injection \in Int /\ Window.end \in Int
  BY AnalysisAssumption
<1>2. PICK pre \in Seq(Int) : pre = PreValues(Window, i)
  BY <1>1, ValuesListed DEF PreValues
<1>3. PICK post \in Seq(Int) : post = PostValues(Window, i)
  BY <1>1, ValuesListed DEF PostValues
<1>4. PICK eligible \in BOOLEAN : eligible = Enough(Len(pre), Len(post), p)
  BY DEF Enough
<1>5. PICK c : c = IF eligible THEN score_candidate(i, p, pre, post) ELSE NoCandidate
  OBVIOUS
<1>6. e = [key |-> i.key, floor |-> i.floor, pre_count |-> Len(pre), post_count |-> Len(post),
           eligible |-> eligible, candidate |-> c]
  BY <1>2, <1>3, <1>4, <1>5 DEF evaluate_signal
<1>7. eligible => c \in Candidates /\ c.key = i.key /\ Scores(c)
  <2>1. SUFFICES ASSUME eligible PROVE c \in Candidates /\ c.key = i.key /\ Scores(c)
    OBVIOUS
  <2>2. pre # <<>> /\ post # <<>>
    <3>1. Enough(Len(pre), Len(post), p)
      BY <1>4, <2>1
    <3>2. Len(pre) >= 1 /\ Len(post) >= 1
      BY <3>1 DEF Enough, Policy
    <3>3. QED
      BY <3>2
  <2>3. c = score_candidate(i, p, pre, post)
    BY <1>5, <2>1
  <2>4. QED
    BY <2>2, <2>3, CandidateScored
<1>8. ~eligible => c = NoCandidate
  BY <1>5
<1>9. e \in Evaluations
  <2>1. i.key \in Int /\ i.floor \in Int
    BY DEF SignalInput
  <2>2. Len(pre) \in Nat /\ Len(post) \in Nat
    OBVIOUS
  <2>3. c \in Candidates \cup {NoCandidate}
    BY <1>7, <1>8
  <2>4. QED
    BY <1>6, <2>1, <2>2, <2>3 DEF Evaluations
<1>10. e.key = i.key /\ e.eligible = eligible /\ e.candidate = c
  BY <1>6
<1>11. eligible <=> c # NoCandidate
  BY <1>7, <1>8, NoCandidateIsNone
<1>12. QED
  BY <1>7, <1>9, <1>10, <1>11 DEF Evaluates

\* The keys of a sequence order its places.
LEMMA KeysOrder ==
  ASSUME NEW A, \A x \in A : x.key \in Int, NEW s \in Seq(A),
         NEW before, before = {p \in (DOMAIN s) \X (DOMAIN s) : s[p[1]].key < s[p[2]].key}
  PROVE  /\ WeakOrder(Len(s), before)
         /\ \A i, j \in DOMAIN s : <<i, j>> \in before <=> s[i].key < s[j].key
<1>1. \A i, j \in DOMAIN s : <<i, j>> \in before <=> s[i].key < s[j].key
  OBVIOUS
<1>2. \A i \in DOMAIN s : s[i].key \in Int
  OBVIOUS
<1>3. WeakOrder(Len(s), before)
  <2>1. 1..Len(s) = DOMAIN s
    OBVIOUS
  <2>2. \A i, j \in DOMAIN s : <<i, j>> \in before => <<j, i>> \notin before
    BY <1>1, <1>2
  <2>3. \A i, j, k \in DOMAIN s : <<i, j>> \in before => <<i, k>> \in before \/ <<k, j>> \in before
    BY <1>1, <1>2
  <2>4. QED
    BY <2>1, <2>2, <2>3, Zenon DEF WeakOrder
<1>4. QED
  BY <1>1, <1>3

\* Sorting by key keeps the elements.
LEMMA KeySorted ==
  ASSUME NEW A, \A x \in A : x.key \in Int, NEW s \in Seq(A),
         NEW sorted, sorted = SortedByKey(s)
  PROVE  /\ sorted \in Seq(A)
         /\ \A k \in DOMAIN sorted : \E i \in DOMAIN s : sorted[k] = s[i]
         /\ \A i \in DOMAIN s : \E k \in DOMAIN sorted : sorted[k] = s[i]
<1>1. PICK before : before = {p \in (DOMAIN s) \X (DOMAIN s) : s[p[1]].key < s[p[2]].key}
  OBVIOUS
<1>2. WeakOrder(Len(s), before)
  BY <1>1, KeysOrder
<1>3. sorted = Sorted(s, before)
  BY <1>1 DEF SortedByKey
<1>4. QED
  BY <1>2, <1>3, SortedElements

\* Suspicion, then key, order the candidates.
LEMMA SuspicionOrders ==
  ASSUME NEW a \in Candidates, NEW b \in Candidates, NEW c \in Candidates
  PROVE  /\ BySuspicion(a, b) => ~BySuspicion(b, a)
         /\ BySuspicion(a, b) => BySuspicion(a, c) \/ BySuspicion(c, b)
<1>1. /\ a.suspicion \in Fractions /\ b.suspicion \in Fractions /\ c.suspicion \in Fractions
      /\ a.key \in Int /\ b.key \in Int /\ c.key \in Int
  BY DEF Candidates
<1>2. PICK x, y, z : x = a.suspicion /\ y = b.suspicion /\ z = c.suspicion
  OBVIOUS
<1>3. /\ Less(x, y) => ~Less(y, x)
      /\ Less(y, x) => Less(y, z) \/ Less(z, x)
      /\ Less(x, z) => Less(x, y) \/ Less(y, z)
      /\ Less(z, y) => Less(z, x) \/ Less(x, y)
      /\ Less(x, z) => ~Less(z, x)
      /\ Less(y, z) => ~Less(z, y)
  BY <1>1, <1>2, LessOrders
<1>4. QED
  BY <1>1, <1>2, <1>3 DEF BySuspicion

\* The candidates of some evaluations are those that have one.
LEMMA CandidatesListed ==
  ASSUME NEW evs \in Seq(Evaluations), \A k \in DOMAIN evs : Evaluates(evs[k]),
         NEW cs, cs = CandidatesOf(evs)
  PROVE  /\ cs \in Seq(Candidates)
         /\ \A k \in DOMAIN cs : \E i \in DOMAIN evs : cs[k] = evs[i].candidate
         /\ \A i \in DOMAIN evs : evs[i].candidate # NoCandidate =>
              \E k \in DOMAIN cs : cs[k] = evs[i].candidate
<1>1. PICK K : K = {k \in DOMAIN evs : evs[k].candidate # NoCandidate}
  OBVIOUS
<1>2. PICK some : some = Kept(evs, K)
  OBVIOUS
<1>3. K \in SUBSET (DOMAIN evs)
  BY <1>1
<1>4. /\ some \in Seq(Evaluations)
      /\ \A k \in DOMAIN some : \E i \in K : some[k] = evs[i]
      /\ \A i \in K : \E k \in DOMAIN some : some[k] = evs[i]
  BY <1>2, <1>3, KeptElements
<1>5. PICK found : found = [k \in DOMAIN some |-> some[k].candidate]
  OBVIOUS
<1>6. PICK n \in Nat : n = Len(some) /\ DOMAIN some = 1..n
  BY <1>4
<1>7. ASSUME NEW k \in 1..n PROVE some[k].candidate \in Candidates
  <2>1. PICK i \in K : some[k] = evs[i]
    BY <1>4, <1>6
  <2>2. QED
    BY <1>1, <2>1 DEF Evaluates
<1>8. found \in Seq(Candidates) /\ DOMAIN found = DOMAIN some
  BY <1>5, <1>6, <1>7
<1>9. PICK before :
        before = {p \in (DOMAIN some) \X (DOMAIN some) : BySuspicion(found[p[1]], found[p[2]])}
  OBVIOUS
<1>10. \A i, j \in DOMAIN found : <<i, j>> \in before <=> BySuspicion(found[i], found[j])
  BY <1>8, <1>9
<1>11. \A i \in DOMAIN found : found[i] \in Candidates
  BY <1>8
<1>12. WeakOrder(Len(found), before)
  <2>1. 1..Len(found) = DOMAIN found
    BY <1>8
  <2>2. \A i, j \in DOMAIN found : <<i, j>> \in before => <<j, i>> \notin before
    BY <1>10, <1>11, SuspicionOrders
  <2>3. \A i, j, k \in DOMAIN found :
          <<i, j>> \in before => <<i, k>> \in before \/ <<k, j>> \in before
    BY <1>10, <1>11, SuspicionOrders
  <2>4. QED
    BY <2>1, <2>2, <2>3, Zenon DEF WeakOrder
<1>13. cs = Sorted(found, before)
  BY <1>1, <1>2, <1>5, <1>9 DEF CandidatesOf
<1>14. /\ cs \in Seq(Candidates)
       /\ \A k \in DOMAIN cs : \E i \in DOMAIN found : cs[k] = found[i]
       /\ \A i \in DOMAIN found : \E k \in DOMAIN cs : cs[k] = found[i]
  BY <1>8, <1>12, <1>13, SortedElements
<1>15. ASSUME NEW k \in DOMAIN cs PROVE \E i \in DOMAIN evs : cs[k] = evs[i].candidate
  <2>1. PICK j \in DOMAIN found : cs[k] = found[j]
    BY <1>14
  <2>2. PICK i \in K : some[j] = evs[i]
    BY <1>4, <1>8
  <2>3. cs[k] = evs[i].candidate
    BY <1>5, <1>8, <2>1, <2>2
  <2>4. QED
    BY <1>3, <2>3
<1>16. ASSUME NEW i \in DOMAIN evs, evs[i].candidate # NoCandidate
       PROVE  \E k \in DOMAIN cs : cs[k] = evs[i].candidate
  <2>1. i \in K
    BY <1>1, <1>16
  <2>2. PICK j \in DOMAIN some : some[j] = evs[i]
    BY <1>4, <2>1
  <2>3. j \in DOMAIN found /\ found[j] = evs[i].candidate
    BY <1>5, <1>8, <2>2
  <2>4. QED
    BY <1>14, <2>3
<1>17. QED
  BY <1>14, <1>15, <1>16

-----------------------------------------------------------------------------
(* The ledger of a ranking. *)

\* A ranking holds its policy, its evaluations, and their candidates.
LEMMA RankingHolds ==
  ASSUME NEW ins, ins \in Seq(ToSet(ins)), \A i \in ToSet(ins) : SignalInput(i),
         NEW p, Policy(p), NEW b, b = rank_metric_shifts(Window, ins, p)
  PROVE  /\ b.policy = p
         /\ b.evaluations = EvaluationsOf(Window, ins, p)
         /\ b.evaluations \in Seq(Evaluations)
         /\ \A k \in DOMAIN b.evaluations : Evaluates(b.evaluations[k])
         /\ b.candidates = CandidatesOf(b.evaluations)
<1>1. PICK raws : raws = [k \in DOMAIN ins |-> evaluate_signal(Window, ins[k], p)]
  OBVIOUS
<1>2. PICK n \in Nat : DOMAIN ins = 1..n
  OBVIOUS
<1>3. ASSUME NEW k \in 1..n
      PROVE  evaluate_signal(Window, ins[k], p) \in Evaluations
             /\ Evaluates(evaluate_signal(Window, ins[k], p))
  <2>1. SignalInput(ins[k])
    BY <1>2
  <2>2. QED
    BY <2>1, SignalEvaluated
<1>4. raws \in Seq(Evaluations)
  BY <1>1, <1>2, <1>3
<1>5. \A k \in DOMAIN raws : Evaluates(raws[k])
  BY <1>1, <1>2, <1>3
<1>6. PICK evs : evs = SortedByKey(raws)
  OBVIOUS
<1>7. \A x \in Evaluations : x.key \in Int
  BY DEF Evaluations
<1>8. evs \in Seq(Evaluations) /\ \A k \in DOMAIN evs : \E i \in DOMAIN raws : evs[k] = raws[i]
  BY <1>4, <1>6, <1>7, KeySorted
<1>9. \A k \in DOMAIN evs : Evaluates(evs[k])
  BY <1>5, <1>8
<1>10. PICK cs : cs = CandidatesOf(evs)
  OBVIOUS
<1>11. EvaluationsOf(Window, ins, p) = evs
  BY <1>1, <1>6 DEF EvaluationsOf
<1>12. b.policy = p /\ b.evaluations = evs /\ b.candidates = cs
  <2> DEFINE Abstain(r) == [result |-> "abstention", reason |-> r, count |-> Len(cs),
                            top |-> TopScore(cs), second |-> SecondScore(cs),
                            policy |-> p, evaluations |-> evs, candidates |-> cs]
             ranking == [result |-> "ranking",
                         lead |-> IF Len(cs) = 1 THEN Infinite ELSE LeadOf(cs),
                         policy |-> p, evaluations |-> evs, candidates |-> cs]
  <2>1. b = IF cs = <<>> THEN Abstain("insufficient_evidence")
            ELSE IF Less(TopScore(cs), p.score) THEN Abstain("weak_evidence")
            ELSE IF Ambiguous(p, cs) THEN Abstain("ambiguous_evidence")
            ELSE ranking
    BY <1>10, <1>11, Zenon DEF rank_metric_shifts
  <2>2. \A r : /\ Abstain(r).policy = p
               /\ Abstain(r).evaluations = evs /\ Abstain(r).candidates = cs
    OBVIOUS
  <2>3. ranking.policy = p /\ ranking.evaluations = evs /\ ranking.candidates = cs
    OBVIOUS
  <2> HIDE DEF Abstain, ranking
  <2>4. (\E r : b = Abstain(r)) \/ b = ranking
    BY <2>1
  <2>5. QED
    BY <2>2, <2>3, <2>4
<1>13. QED
  BY <1>8, <1>9, <1>10, <1>11, <1>12

\* What ties a ledger to a policy and to the candidates of a ranking.
Bound(l, cs, p) ==
  /\ Policy(p) /\ l.context = Context /\ l.policy = p
  /\ cs \in Seq(Candidates)
  /\ l.entries \in Seq(ToSet(l.entries))
  /\ \A k \in DOMAIN l.entries :
       /\ {"id", "key", "eligible", "candidate"} \subseteq DOMAIN l.entries[k]
       /\ Evaluates(l.entries[k])
       /\ l.entries[k].candidate # NoCandidate =>
            \E j \in DOMAIN cs : cs[j] = l.entries[k].candidate
  /\ \A j \in DOMAIN cs : \E k \in DOMAIN l.entries : l.entries[k].candidate = cs[j]
  /\ Distinct(l.entries, "key")

\* The ledger compiled from a ranking is bound to it.
LEMMA LedgerBound ==
  ASSUME NEW ins, ins \in Seq(ToSet(ins)), \A i \in ToSet(ins) : SignalInput(i),
         NEW p, Policy(p), NEW b, b = rank_metric_shifts(Window, ins, p),
         NEW l, l = compile_metric_shift_ledger(Context, Window, b), l # Invalid
  PROVE  Bound(l, b.candidates, p)
<1>1. PICK evs : evs = b.evaluations
  OBVIOUS
<1>2. PICK cs : cs = b.candidates
  OBVIOUS
<1>3. /\ b.policy = p /\ cs = CandidatesOf(evs)
      /\ evs \in Seq(Evaluations) /\ \A k \in DOMAIN evs : Evaluates(evs[k])
  BY <1>1, <1>2, RankingHolds
<1>4. PICK es : es = SortedByKey(evs)
  OBVIOUS
<1>5. /\ es \in Seq(Evaluations)
      /\ \A k \in DOMAIN es : \E i \in DOMAIN evs : es[k] = evs[i]
      /\ \A i \in DOMAIN evs : \E k \in DOMAIN es : es[k] = evs[i]
  <2>1. \A x \in Evaluations : x.key \in Int
    BY DEF Evaluations
  <2>2. QED
    BY <1>3, <1>4, <2>1, KeySorted
<1>6. PICK d : d = decision(b, p, CandidatesOf(es))
  OBVIOUS
<1>7. PICK entries : entries = EntriesOf(Context, Window, p, d, es)
  OBVIOUS
<1>8. PICK m : m = [schema |-> SchemaVersion, context |-> Context, window |-> Window,
                    policy |-> p, decision |-> d, entries |-> entries]
  OBVIOUS
<1>9. l = m /\ ValidLedger(m)
  BY <1>1, <1>3, <1>4, <1>6, <1>7, <1>8
     DEF compile_metric_shift_ledger, validate_metric_evidence_ledger
<1>10. l.context = Context /\ l.policy = p /\ l.entries = entries
  BY <1>8, <1>9
<1>11. DOMAIN entries = DOMAIN es
       /\ \A k \in DOMAIN entries : entries[k] = EntryOf(Context, Window, p, d, es[k])
  BY <1>7 DEF EntriesOf
<1>12. ASSUME NEW k \in DOMAIN entries
       PROVE  /\ {"id", "key", "eligible", "candidate"} \subseteq DOMAIN entries[k]
              /\ DOMAIN Evaluation(entries[k]) = DOMAIN entries[k] \ {"id", "relative"}
              /\ entries[k].key = es[k].key /\ entries[k].eligible = es[k].eligible
              /\ entries[k].candidate = es[k].candidate
              /\ Evaluation(entries[k]).key = entries[k].key
  <2>1. entries[k] = EntryOf(Context, Window, p, d, es[k])
    BY <1>11
  <2>2. /\ DOMAIN entries[k] = {"id", "relative", "key", "floor", "pre_count", "post_count",
                                "eligible", "candidate"}
        /\ entries[k].key = es[k].key /\ entries[k].eligible = es[k].eligible
        /\ entries[k].candidate = es[k].candidate
    BY <2>1 DEF EntryOf
  <2>3. QED
    BY <2>2 DEF Evaluation
<1>13. ASSUME NEW k \in DOMAIN entries
       PROVE  /\ Evaluates(entries[k])
              /\ \E i \in DOMAIN evs : entries[k].candidate = evs[i].candidate
  <2>1. PICK i \in DOMAIN evs : es[k] = evs[i]
    BY <1>5, <1>11
  <2>2. Evaluates(es[k])
    BY <1>3, <2>1
  <2>3. QED
    BY <1>12, <2>1, <2>2 DEF Evaluates
<1>14. /\ cs \in Seq(Candidates)
       /\ \A k \in DOMAIN cs : \E i \in DOMAIN evs : cs[k] = evs[i].candidate
       /\ \A i \in DOMAIN evs : evs[i].candidate # NoCandidate =>
            \E k \in DOMAIN cs : cs[k] = evs[i].candidate
  BY <1>3, CandidatesListed
<1>15. \A k \in DOMAIN entries : entries[k].candidate # NoCandidate =>
         \E j \in DOMAIN cs : cs[j] = entries[k].candidate
  BY <1>13, <1>14
<1>16. ASSUME NEW j \in DOMAIN cs PROVE \E k \in DOMAIN entries : entries[k].candidate = cs[j]
  <2>1. PICK i \in DOMAIN evs : cs[j] = evs[i].candidate
    BY <1>14
  <2>2. PICK k \in DOMAIN es : es[k] = evs[i]
    BY <1>5
  <2>3. QED
    BY <1>11, <1>12, <2>1, <2>2, ZenonT(40)
<1>17. Distinct(entries, "key")
  <2>1. PICK found : found = [k \in DOMAIN entries |-> Evaluation(entries[k])]
    OBVIOUS
  <2>2. ~DuplicateKeys(found)
    BY <1>9, <1>10, <2>1 DEF ValidLedger, ValidEvaluations
  <2>3. DOMAIN found = DOMAIN entries /\ \A k \in DOMAIN entries : found[k].key = entries[k].key
    BY <1>12, <2>1
  <2>4. QED
    BY <2>2, <2>3 DEF DuplicateKeys, Distinct
<1>18. entries \in Seq(ToSet(entries))
  <2>1. PICK n \in Nat : DOMAIN entries = 1..n
    BY <1>5, <1>11
  <2>2. \A k \in 1..n : entries[k] \in ToSet(entries)
    BY <2>1 DEF ToSet
  <2>3. entries = [k \in 1..n |-> entries[k]]
    BY <1>7, <2>1 DEF EntriesOf
  <2>4. QED
    BY <2>2, <2>3
<1>19. \A k \in DOMAIN entries :
         /\ {"id", "key", "eligible", "candidate"} \subseteq DOMAIN entries[k]
         /\ Evaluates(entries[k])
         /\ entries[k].candidate # NoCandidate =>
              \E j \in DOMAIN cs : cs[j] = entries[k].candidate
  BY <1>12, <1>13, <1>15
<1>20. \A j \in DOMAIN cs : \E k \in DOMAIN entries : entries[k].candidate = cs[j]
  BY <1>16
<1>21. QED
  BY <1>2, <1>10, <1>14, <1>17, <1>18, <1>19, <1>20, SMTT(40) DEF Bound

-----------------------------------------------------------------------------
(* Verification against a bound ledger. *)

\* The entry that decides a predicate: of its signal, and strong enough.
Sure(e, q, score) ==
  /\ e.key = q.key /\ e.candidate # NoCandidate
  /\ e.candidate.signed.n # 0 /\ ~Less(e.candidate.suspicion, score)

\* EntryFor finds the entry of a signal.
LEMMA EntryFound ==
  ASSUME NEW l, NEW key, l.entries \in Seq(ToSet(l.entries)), Distinct(l.entries, "key"),
         NEW e, e = EntryFor(l, key)
  PROVE  /\ (\A k \in DOMAIN l.entries : l.entries[k].key # key) => e = NoEntry
         /\ \A k \in DOMAIN l.entries : l.entries[k].key = key => e = l.entries[k]
<1>1. PICK entries : entries = l.entries
  OBVIOUS
<1>2. PICK n \in Nat : n = Len(entries) /\ DOMAIN entries = 1..n
  BY <1>1
<1>3. PICK I : I = {i \in 1..Len(entries) : entries[i].key = key}
  OBVIOUS
<1>4. PICK at : at = IF I # {} THEN Min(I) ELSE 0
  OBVIOUS
<1>5. e = IF at = 0 THEN NoEntry ELSE entries[at]
  BY <1>1, <1>3, <1>4 DEF EntryFor, SelectInSeq
<1>6. I \in SUBSET Nat
  BY <1>2, <1>3
<1>7. I # {} => Min(I) \in I
  <2>1. SUFFICES ASSUME I # {} PROVE Min(I) \in I
    OBVIOUS
  <2>2. \E x \in I : \A y \in I : x <= y
    BY <1>6, <2>1, LeastNatural
  <2>3. QED
    BY <2>2 DEF Min
<1>8. (\A k \in DOMAIN entries : entries[k].key # key) => e = NoEntry
  BY <1>2, <1>3, <1>4, <1>5
<1>9. ASSUME NEW k \in DOMAIN entries, entries[k].key = key PROVE e = entries[k]
  <2>1. k \in I
    BY <1>2, <1>3, <1>9
  <2>2. at \in I
    BY <1>4, <1>7, <2>1
  <2>3. at \in 1..n /\ entries[at].key = key
    BY <1>2, <1>3, <2>2
  <2>4. e = entries[at]
    BY <1>5, <2>3
  <2>5. at = k
    BY <1>1, <1>2, <1>9, <2>3 DEF Distinct
  <2>6. QED
    BY <2>4, <2>5
<1>10. QED
  BY <1>1, <1>8, <1>9

\* What verify_hypothesis makes of one predicate.
Evaluated(l, q) == evaluate_predicate(q, EntryFor(l, q.key), l.policy.score)

\* A predicate is decided by the sure entry of its signal, or is unknown, and
\* this does not depend on the direction it claims.
LEMMA PredicateEvaluated ==
  ASSUME NEW l, NEW cs, NEW p, Bound(l, cs, p), NEW q
  PROVE  \/ \E k \in DOMAIN l.entries :
              /\ Sure(l.entries[k], q, p.score)
              /\ \A r : r.key = q.key => Evaluated(l, r) = Decided(r, l.entries[k])
         \/ /\ \A k \in DOMAIN l.entries : ~Sure(l.entries[k], q, p.score)
            /\ \E reason, observed :
                 \A r : r.key = q.key => Evaluated(l, r) = Unknown(r, reason, observed)
<1>1. PICK e : e = EntryFor(l, q.key)
  OBVIOUS
<1>2. /\ (\A k \in DOMAIN l.entries : l.entries[k].key # q.key) => e = NoEntry
      /\ \A k \in DOMAIN l.entries : l.entries[k].key = q.key => e = l.entries[k]
  BY <1>1, EntryFound DEF Bound
<1>3. l.policy.score = p.score
  BY DEF Bound
<1>4. ASSUME NEW r, r.key = q.key PROVE Evaluated(l, r) = evaluate_predicate(r, e, p.score)
  BY <1>1, <1>3, <1>4 DEF Evaluated
<1>5. CASE \A k \in DOMAIN l.entries : l.entries[k].key # q.key
  <2>1. \A k \in DOMAIN l.entries : ~Sure(l.entries[k], q, p.score)
    BY <1>5 DEF Sure
  <2>2. \A r : r.key = q.key => Evaluated(l, r) = Unknown(r, "signal_not_found", "none")
    BY <1>2, <1>4, <1>5 DEF evaluate_predicate
  <2>3. QED
    BY <2>1, <2>2
<1>6. ASSUME NEW k \in DOMAIN l.entries, l.entries[k].key = q.key
      PROVE  \/ /\ Sure(l.entries[k], q, p.score)
                /\ \A r : r.key = q.key => Evaluated(l, r) = Decided(r, l.entries[k])
             \/ /\ \A j \in DOMAIN l.entries : ~Sure(l.entries[j], q, p.score)
                /\ \E reason, observed :
                     \A r : r.key = q.key => Evaluated(l, r) = Unknown(r, reason, observed)
  <2>1. e = l.entries[k] /\ \A j \in DOMAIN l.entries : l.entries[j].key = q.key => l.entries[j] = e
    BY <1>2, <1>6
  <2>2. e # NoEntry
    <3>1. "key" \in DOMAIN e
      BY <2>1 DEF Bound
    <3>2. "key" \notin DOMAIN NoEntry
      BY DEF NoEntry
    <3>3. QED
      BY <3>1, <3>2
  <2>3. Evaluates(e)
    BY <2>1 DEF Bound
  <2>4. CASE Sure(e, q, p.score)
    <3>1. \A r : r.key = q.key => Evaluated(l, r) = Decided(r, e)
      BY <1>4, <2>2, <2>3, <2>4 DEF evaluate_predicate, Sure, Evaluates
    <3>2. QED
      BY <2>1, <2>4, <3>1
  <2>5. CASE ~Sure(e, q, p.score)
    <3>1. \A j \in DOMAIN l.entries : ~Sure(l.entries[j], q, p.score)
      BY <2>1, <2>5 DEF Sure
    <3>2. \E reason, observed :
            \A r : r.key = q.key => Evaluated(l, r) = Unknown(r, reason, observed)
      <4>1. CASE ~e.eligible \/ e.candidate = NoCandidate
        <5>1. \A r : r.key = q.key => Evaluated(l, r) = Unknown(r, "insufficient_evidence", "none")
          BY <1>4, <2>2, <4>1 DEF evaluate_predicate
        <5>2. QED
          BY <5>1
      <4>2. CASE e.eligible /\ e.candidate # NoCandidate /\ e.candidate.signed.n = 0
        <5>1. \A r : r.key = q.key => Evaluated(l, r) = Unknown(r, "no_directional_shift", "none")
          BY <1>4, <2>2, <4>2 DEF evaluate_predicate
        <5>2. QED
          BY <5>1
      <4>3. CASE e.eligible /\ e.candidate # NoCandidate /\ e.candidate.signed.n # 0
        <5>1. Less(e.candidate.suspicion, p.score)
          BY <1>6, <2>1, <2>5, <4>3 DEF Sure
        <5>2. \A r : r.key = q.key =>
                Evaluated(l, r) = Unknown(r, "weak_evidence", Observed(e.candidate))
          BY <1>4, <2>2, <4>3, <5>1 DEF evaluate_predicate
        <5>3. QED
          BY <5>2
      <4>4. QED
        BY <4>1, <4>2, <4>3
    <3>3. QED
      BY <3>1, <3>2
  <2>6. QED
    BY <2>4, <2>5
<1>7. QED
  BY <1>5, <1>6

MetricClaims == [pid : STRING, key : Int, direction : {"increase", "decrease"}]

\* A document the parser lets through.
Parsed(d) ==
  /\ {"composition", "predicates", "context", "semantics"} \subseteq DOMAIN d
  /\ d.composition \in {"all", "any"}
  /\ d.predicates \in Seq(MetricClaims) /\ DOMAIN d.predicates # {}

\* A ledger and a document, and the verification of the one against the other.
MetricGated(d) == d.context # Context \/ d.semantics = "causal"

\* What the verifier finds in a ledger that is bound to a ranking.
LEMMA MetricVerified ==
  ASSUME NEW l, l.context = Context, NEW d, NEW v, v = verify_hypothesis(d, l),
         NEW ps, ps = d.predicates
  PROVE  /\ DOMAIN v.results = DOMAIN ps
         /\ \A k \in DOMAIN ps :
              IF MetricGated(d) THEN \E reason : v.results[k] = Unknown(ps[k], reason, "none")
              ELSE v.results[k] = Evaluated(l, ps[k])
         /\ v.verdict = IF MetricGated(d) THEN "unknown" ELSE compose(d.composition, v.results)
         /\ v.supporting = Cited(v.results, "supporting")
         /\ v.contradicting = Cited(v.results, "contradicting")
<1>1. PICK reason : reason = DocumentReason(d, l)
  OBVIOUS
<1>2. PICK results : results = [k \in DOMAIN ps |->
                    IF reason # "none" THEN Unknown(ps[k], reason, "none")
                    ELSE Evaluated(l, ps[k])]
  OBVIOUS
<1>3. /\ v.results = results
      /\ v.verdict = IF reason # "none" THEN "unknown" ELSE compose(d.composition, results)
      /\ v.supporting = Cited(results, "supporting")
      /\ v.contradicting = Cited(results, "contradicting")
  BY <1>1, <1>2 DEF verify_hypothesis, Evaluated
<1>4. reason # "none" <=> MetricGated(d)
  BY <1>1 DEF DocumentReason, MetricGated
<1>5. DOMAIN results = DOMAIN ps
  BY <1>2
<1>6. \A k \in DOMAIN ps :
        IF MetricGated(d) THEN \E r : results[k] = Unknown(ps[k], r, "none")
        ELSE results[k] = Evaluated(l, ps[k])
  BY <1>2, <1>4
<1>7. QED
  BY <1>3, <1>4, <1>5, <1>6

\* An unknown predicate cites nothing, a decided one the entry on one side.
LEMMA UnknownCitesNothing ==
  ASSUME NEW q, NEW reason, NEW observed, NEW r, r = Unknown(q, reason, observed)
  PROVE  r.verdict = "unknown" /\ r.supporting = <<>> /\ r.contradicting = <<>>
  BY DEF Unknown, Result

\* A decided predicate cites the entry that decided it, on its own side.
LEMMA DecidedCitesEntry ==
  ASSUME NEW q, q.direction \in {"increase", "decrease"}, NEW e, NEW r, r = Decided(q, e)
  PROVE  /\ r.observed = Observed(e.candidate)
         /\ r.verdict = IF Observed(e.candidate) = q.direction THEN "supported" ELSE "refuted"
         /\ r.supporting = IF Observed(e.candidate) = q.direction THEN <<e.id>> ELSE <<>>
         /\ r.contradicting = IF Observed(e.candidate) = q.direction THEN <<>> ELSE <<e.id>>
  BY DEF Decided, Result

\* The truth of a predicate, of the candidates of a ranking.
TruthIn(q, cs, score) ==
  LET sure == {c \in ToSet(cs) : c.key = q.key /\ c.signed.n # 0 /\ ~Less(c.suspicion, score)}
  IN IF sure = {} THEN 0
     ELSE IF \E c \in sure : (c.post_median > c.pre_median) = (q.direction = "increase")
     THEN 1 ELSE -1

\* The verdict on a predicate is its truth.
LEMMA PredicateTrue ==
  ASSUME NEW l, NEW cs, NEW p, Bound(l, cs, p), NEW q \in MetricClaims
  PROVE  /\ TruthIn(q, cs, p.score) \in {-1, 0, 1}
         /\ Evaluated(l, q).verdict = ChangeVerdictOf(TruthIn(q, cs, p.score))
<1>1. PICK sure : sure = {c \in ToSet(cs) : c.key = q.key /\ c.signed.n # 0
                                            /\ ~Less(c.suspicion, p.score)}
  OBVIOUS
<1>2. TruthIn(q, cs, p.score) =
        IF sure = {} THEN 0
        ELSE IF \E c \in sure : (c.post_median > c.pre_median) = (q.direction = "increase")
        THEN 1 ELSE -1
  BY <1>1 DEF TruthIn
<1>3. ASSUME NEW c \in sure
      PROVE  \E k \in DOMAIN l.entries : Sure(l.entries[k], q, p.score) /\ l.entries[k].candidate = c
  <2>1. PICK j \in DOMAIN cs : cs[j] = c
    BY <1>1 DEF ToSet
  <2>2. PICK k \in DOMAIN l.entries : l.entries[k].candidate = c
    BY <2>1 DEF Bound
  <2>3. c \in Candidates
    BY <2>1 DEF Bound
  <2>4. c # NoCandidate
    BY <2>3, NoCandidateIsNone
  <2>5. Evaluates(l.entries[k])
    BY DEF Bound
  <2>6. l.entries[k].key = c.key
    BY <2>2, <2>4, <2>5 DEF Evaluates
  <2>7. Sure(l.entries[k], q, p.score)
    BY <1>1, <2>2, <2>4, <2>6 DEF Sure
  <2>8. QED
    BY <2>2, <2>7
<1>4. CASE \E k \in DOMAIN l.entries :
              /\ Sure(l.entries[k], q, p.score)
              /\ \A r : r.key = q.key => Evaluated(l, r) = Decided(r, l.entries[k])
  <2>1. PICK k \in DOMAIN l.entries :
              /\ Sure(l.entries[k], q, p.score)
              /\ \A r : r.key = q.key => Evaluated(l, r) = Decided(r, l.entries[k])
    BY <1>4
  <2>2. PICK e : e = l.entries[k]
    OBVIOUS
  <2>3. PICK c : c = e.candidate
    OBVIOUS
  <2>4. /\ e.key = q.key /\ c # NoCandidate /\ c.signed.n # 0 /\ ~Less(c.suspicion, p.score)
        /\ Evaluates(e)
    BY <2>1, <2>2, <2>3 DEF Sure, Bound
  <2>5. c \in Candidates /\ c.key = q.key /\ Scores(c)
    BY <2>3, <2>4 DEF Evaluates
  <2>6. c \in sure
    <3>1. PICK j \in DOMAIN cs : cs[j] = c
      BY <2>2, <2>3, <2>4 DEF Bound
    <3>2. c \in ToSet(cs)
      BY <3>1 DEF ToSet
    <3>3. QED
      BY <1>1, <2>4, <2>5, <3>2
  <2>7. \A x \in sure : x = c
    <3>1. SUFFICES ASSUME NEW x \in sure PROVE x = c
      OBVIOUS
    <3>2. PICK j \in DOMAIN l.entries : Sure(l.entries[j], q, p.score) /\ l.entries[j].candidate = x
      BY <1>3
    <3>3. l.entries[j].key = q.key /\ l.entries[k].key = q.key
      BY <2>1, <3>2 DEF Sure
    <3>4. j = k
      BY <3>3 DEF Bound, Distinct
    <3>5. QED
      BY <2>2, <2>3, <3>2, <3>4
  <2>8. /\ TruthIn(q, cs, p.score) = 1 <=> (c.post_median > c.pre_median) = (q.direction = "increase")
        /\ TruthIn(q, cs, p.score) \in {1, -1}
    BY <1>2, <2>6, <2>7
  <2>9. Evaluated(l, q) = Decided(q, e)
    BY <2>1, <2>2
  <2>10. q.direction \in {"increase", "decrease"}
    BY DEF MetricClaims
  <2>11. Evaluated(l, q).verdict = IF Observed(c) = q.direction THEN "supported" ELSE "refuted"
    <3>1. PICK r : r = Evaluated(l, q)
      OBVIOUS
    <3>2. r = Decided(q, e)
      BY <2>9, <3>1
    <3>3. r.verdict = IF Observed(e.candidate) = q.direction THEN "supported" ELSE "refuted"
      BY <2>10, <3>2 DEF Decided, Result
    <3>4. QED
      BY <2>3, <3>1, <3>3
  <2>12. (Observed(c) = q.direction) <=> (c.post_median > c.pre_median) = (q.direction = "increase")
    <3>1. c.signed.n > 0 <=> c.post_median > c.pre_median
      BY <2>5 DEF Scores
    <3>2. QED
      BY <2>10, <3>1 DEF Observed
  <2>13. QED
    BY <2>8, <2>11, <2>12 DEF ChangeVerdictOf
<1>5. CASE /\ \A k \in DOMAIN l.entries : ~Sure(l.entries[k], q, p.score)
           /\ \E reason, observed :
                \A r : r.key = q.key => Evaluated(l, r) = Unknown(r, reason, observed)
  <2>1. sure = {}
    BY <1>3, <1>5
  <2>2. PICK reason, observed : Evaluated(l, q) = Unknown(q, reason, observed)
    BY <1>5
  <2>3. Evaluated(l, q).verdict = "unknown"
    BY <2>2, UnknownCitesNothing
  <2>4. QED
    BY <1>2, <2>1, <2>3 DEF ChangeVerdictOf
<1>6. QED
  BY <1>4, <1>5, PredicateEvaluated


-----------------------------------------------------------------------------
(* Verdicts. *)

\* The two verifiers compose their predicates alike.
LEMMA ComposeAlike ==
  ASSUME NEW composition \in {"all", "any"}, NEW results
  PROVE  compose(composition, results) = change_compose(composition, results)
  BY DEF compose, change_compose

\* A verification in the terms of the ranking it goes back to.
LEMMA VerdictTrue ==
  ASSUME NEW l, NEW cs, NEW p, Bound(l, cs, p), NEW d, Parsed(d),
         NEW v, v = verify_hypothesis(d, l),
         NEW truth, truth = [k \in DOMAIN d.predicates |->
                               IF MetricGated(d) THEN 0
                               ELSE TruthIn(d.predicates[k], cs, p.score)],
         NEW T, Lists(T, truth, DOMAIN d.predicates)
  PROVE  /\ DOMAIN v.results = DOMAIN d.predicates
         /\ \A k \in DOMAIN d.predicates : v.results[k].verdict = ChangeVerdictOf(truth[k])
         /\ v.verdict = ChangeVerdictOf(IF d.composition = "all" THEN Min(T) ELSE Max(T))
<1>1. PICK ps \in Seq(MetricClaims) : ps = d.predicates
  BY DEF Parsed
<1>2. PICK D : D = DOMAIN ps
  OBVIOUS
<1>3. D # {} /\ d.composition \in {"all", "any"}
  BY <1>1, <1>2 DEF Parsed
<1>4. PICK results : results = v.results
  OBVIOUS
<1>5. /\ DOMAIN results = D
      /\ \A k \in D :
           IF MetricGated(d) THEN \E reason : results[k] = Unknown(ps[k], reason, "none")
           ELSE results[k] = Evaluated(l, ps[k])
      /\ v.verdict = IF MetricGated(d) THEN "unknown" ELSE compose(d.composition, results)
  <2>1. l.context = Context
    BY DEF Bound
  <2>2. QED
    BY <1>1, <1>2, <1>4, <2>1, MetricVerified
<1>6. ASSUME NEW k \in D
      PROVE  truth[k] \in {-1, 0, 1} /\ results[k].verdict = ChangeVerdictOf(truth[k])
  <2>1. ps[k] \in MetricClaims
    BY <1>2
  <2>2. CASE MetricGated(d)
    <3>1. truth[k] = 0
      BY <1>1, <1>2, <2>2
    <3>2. results[k].verdict = "unknown"
      BY <1>5, <2>2, UnknownCitesNothing
    <3>3. QED
      BY <3>1, <3>2 DEF ChangeVerdictOf
  <2>3. CASE ~MetricGated(d)
    <3>1. truth[k] = TruthIn(ps[k], cs, p.score)
      BY <1>1, <1>2, <2>3
    <3>2. results[k] = Evaluated(l, ps[k])
      BY <1>5, <2>3
    <3>3. QED
      BY <2>1, <3>1, <3>2, PredicateTrue
  <2>4. QED
    BY <2>2, <2>3
<1>7. Lists(T, truth, D)
  BY <1>1, <1>2
<1>8. change_compose(d.composition, results) =
        ChangeVerdictOf(IF d.composition = "all" THEN Min(T) ELSE Max(T))
  BY <1>3, <1>5, <1>6, <1>7, ComposedAsKleene, ZenonT(40)
<1>9. v.verdict = change_compose(d.composition, results)
  <2>1. CASE ~MetricGated(d)
    BY <1>3, <1>5, <2>1, ComposeAlike
  <2>2. CASE MetricGated(d)
    <3>1. \A k \in D : results[k].verdict = "unknown"
      BY <1>5, <2>2, UnknownCitesNothing
    <3>2. change_compose(d.composition, results) = "unknown"
      BY <1>3, <1>5, <3>1 DEF change_compose
    <3>3. QED
      BY <1>5, <2>2, <3>2
  <2>3. QED
    BY <2>1, <2>2
<1>10. QED
  BY <1>1, <1>2, <1>4, <1>5, <1>6, <1>8, <1>9

-----------------------------------------------------------------------------
(* Denials. *)

\* n denies d: the same signals in the other direction, "all" for "any".
Denies(n, d) ==
  /\ n.context = d.context /\ n.semantics = d.semantics
  /\ n.composition = IF d.composition = "all" THEN "any" ELSE "all"
  /\ DOMAIN n.predicates = DOMAIN d.predicates
  /\ \A k \in DOMAIN d.predicates :
       /\ n.predicates[k].key = d.predicates[k].key
       /\ n.predicates[k].direction = Flipped(d.predicates[k].direction)

\* r and s are opposite answers, with the evidence on opposite sides.
Opposed(r, s) ==
  /\ r.verdict \in Verdicts /\ s.verdict = Denied(r.verdict)
  /\ s.supporting = r.contradicting /\ s.contradicting = r.supporting

\* What the denials of the verdicts are.
LEMMA DeniedVerdicts ==
  ASSUME NEW x
  PROVE  /\ x = "supported" => Denied(x) = "refuted"
         /\ x = "refuted" => Denied(x) = "supported"
         /\ x = "unknown" => Denied(x) = "unknown"
  BY DEF Denied

\* An unknown answer stays one under denial.
LEMMA UnknownOpposed ==
  ASSUME NEW q, NEW o, NEW reason, NEW other, NEW observed,
         NEW r, r = Unknown(q, reason, observed), NEW s, s = Unknown(o, other, observed)
  PROVE  Opposed(r, s)
<1>1. r.verdict = "unknown" /\ r.supporting = <<>> /\ r.contradicting = <<>>
  BY UnknownCitesNothing
<1>2. s.verdict = "unknown" /\ s.supporting = <<>> /\ s.contradicting = <<>>
  BY UnknownCitesNothing
<1>3. QED
  BY <1>1, <1>2, DeniedVerdicts DEF Opposed, Verdicts

\* A decided answer changes sides under denial.
LEMMA DecidedOpposed ==
  ASSUME NEW q, q.direction \in {"increase", "decrease"},
         NEW o, o.direction = Flipped(q.direction), NEW e,
         NEW r, r = Decided(q, e), NEW s, s = Decided(o, e)
  PROVE  Opposed(r, s)
<1>1. o.direction \in {"increase", "decrease"}
  BY DEF Flipped
<1>2. PICK x : x = Observed(e.candidate)
  OBVIOUS
<1>3. x \in {"increase", "decrease"}
  BY <1>2 DEF Observed
<1>4. /\ r.verdict = IF x = q.direction THEN "supported" ELSE "refuted"
      /\ r.supporting = IF x = q.direction THEN <<e.id>> ELSE <<>>
      /\ r.contradicting = IF x = q.direction THEN <<>> ELSE <<e.id>>
  BY <1>2, DecidedCitesEntry
<1>5. /\ s.verdict = IF x = o.direction THEN "supported" ELSE "refuted"
      /\ s.supporting = IF x = o.direction THEN <<e.id>> ELSE <<>>
      /\ s.contradicting = IF x = o.direction THEN <<>> ELSE <<e.id>>
  BY <1>1, <1>2, DecidedCitesEntry
<1>6. x = o.direction <=> x # q.direction
  BY <1>3 DEF Flipped
<1>7. CASE x = q.direction
  BY <1>4, <1>5, <1>6, <1>7, DeniedVerdicts DEF Opposed, Verdicts
<1>8. CASE x # q.direction
  BY <1>4, <1>5, <1>6, <1>8, DeniedVerdicts DEF Opposed, Verdicts
<1>9. QED
  BY <1>7, <1>8

\* Opposed answers compose to opposite verdicts.
LEMMA OpposedCompose ==
  ASSUME NEW c \in {"all", "any"}, NEW rs, NEW ss, DOMAIN ss = DOMAIN rs,
         \A k \in DOMAIN rs : Opposed(rs[k], ss[k])
  PROVE  compose(IF c = "all" THEN "any" ELSE "all", ss) = Denied(compose(c, rs))
<1>1. PICK R : R = {rs[k].verdict : k \in DOMAIN rs}
  OBVIOUS
<1>2. PICK S : S = {ss[k].verdict : k \in DOMAIN ss}
  OBVIOUS
<1>3. \A k \in DOMAIN rs :
        /\ rs[k].verdict \in Verdicts
        /\ ss[k].verdict = "refuted" <=> rs[k].verdict = "supported"
        /\ ss[k].verdict = "supported" <=> rs[k].verdict = "refuted"
        /\ ss[k].verdict = "unknown" <=> rs[k].verdict = "unknown"
  BY DeniedVerdicts DEF Opposed, Verdicts
<1>4. /\ "refuted" \in S <=> "supported" \in R
      /\ "supported" \in S <=> "refuted" \in R
      /\ "unknown" \in S <=> "unknown" \in R
  BY <1>1, <1>2, <1>3
<1>5. CASE c = "all"
  <2>1. compose(c, rs) = IF "refuted" \in R THEN "refuted"
                         ELSE IF "unknown" \in R THEN "unknown" ELSE "supported"
    BY <1>1, <1>5 DEF compose
  <2>2. compose("any", ss) = IF "supported" \in S THEN "supported"
                             ELSE IF "unknown" \in S THEN "unknown" ELSE "refuted"
    BY <1>2 DEF compose
  <2>3. QED
    BY <1>4, <1>5, <2>1, <2>2, DeniedVerdicts
<1>6. CASE c = "any"
  <2>1. compose(c, rs) = IF "supported" \in R THEN "supported"
                         ELSE IF "unknown" \in R THEN "unknown" ELSE "refuted"
    BY <1>1, <1>6 DEF compose
  <2>2. compose("all", ss) = IF "refuted" \in S THEN "refuted"
                             ELSE IF "unknown" \in S THEN "unknown" ELSE "supported"
    BY <1>2 DEF compose
  <2>3. QED
    BY <1>4, <1>6, <2>1, <2>2, DeniedVerdicts
<1>7. QED
  BY <1>5, <1>6

\* What was cited in support is cited against.
LEMMA OpposedCited ==
  ASSUME NEW rs, NEW ss, DOMAIN ss = DOMAIN rs, \A k \in DOMAIN rs : Opposed(rs[k], ss[k])
  PROVE  /\ Cited(ss, "supporting") = Cited(rs, "contradicting")
         /\ Cited(ss, "contradicting") = Cited(rs, "supporting")
<1>1. /\ [k \in DOMAIN ss |-> ss[k]["supporting"]] = [k \in DOMAIN rs |-> rs[k]["contradicting"]]
      /\ [k \in DOMAIN ss |-> ss[k]["contradicting"]] = [k \in DOMAIN rs |-> rs[k]["supporting"]]
  BY DEF Opposed
<1>2. QED
  BY <1>1 DEF Cited

\* Every answer to a denied document opposes the one to the document.
LEMMA DenialOpposes ==
  ASSUME NEW l, NEW cs, NEW p, Bound(l, cs, p), NEW d, Parsed(d), NEW n, Denies(n, d),
         NEW v, v = verify_hypothesis(d, l), NEW w, w = verify_hypothesis(n, l)
  PROVE  /\ w.verdict = Denied(v.verdict)
         /\ w.supporting = v.contradicting /\ w.contradicting = v.supporting
<1>1. PICK ps \in Seq(MetricClaims) : ps = d.predicates
  BY DEF Parsed
<1>2. PICK ns : ns = n.predicates
  OBVIOUS
<1>3. l.context = Context
  BY DEF Bound
<1>4. PICK rs : rs = v.results
  OBVIOUS
<1>5. PICK ss : ss = w.results
  OBVIOUS
<1>6. MetricGated(n) <=> MetricGated(d)
  BY DEF MetricGated, Denies
<1>7. /\ DOMAIN rs = DOMAIN ps
      /\ \A k \in DOMAIN ps :
           IF MetricGated(d) THEN \E reason : rs[k] = Unknown(ps[k], reason, "none")
           ELSE rs[k] = Evaluated(l, ps[k])
      /\ v.verdict = IF MetricGated(d) THEN "unknown" ELSE compose(d.composition, rs)
      /\ v.supporting = Cited(rs, "supporting") /\ v.contradicting = Cited(rs, "contradicting")
  BY <1>1, <1>3, <1>4, MetricVerified
<1>8. /\ DOMAIN ss = DOMAIN ns
      /\ \A k \in DOMAIN ns :
           IF MetricGated(n) THEN \E reason : ss[k] = Unknown(ns[k], reason, "none")
           ELSE ss[k] = Evaluated(l, ns[k])
      /\ w.verdict = IF MetricGated(n) THEN "unknown" ELSE compose(n.composition, ss)
      /\ w.supporting = Cited(ss, "supporting") /\ w.contradicting = Cited(ss, "contradicting")
  BY <1>2, <1>3, <1>5, MetricVerified
<1>9. /\ DOMAIN ns = DOMAIN ps
      /\ \A k \in DOMAIN ps : ns[k].key = ps[k].key /\ ns[k].direction = Flipped(ps[k].direction)
  BY <1>1, <1>2 DEF Denies
<1>10. ASSUME NEW k \in DOMAIN ps PROVE Opposed(rs[k], ss[k])
  <2>1. ps[k].direction \in {"increase", "decrease"}
    <3>1. ps[k] \in MetricClaims
      OBVIOUS
    <3>2. QED
      BY <3>1 DEF MetricClaims
  <2>2. CASE MetricGated(d)
    <3>1. PICK reason : rs[k] = Unknown(ps[k], reason, "none")
      BY <1>7, <2>2
    <3>2. PICK other : ss[k] = Unknown(ns[k], other, "none")
      BY <1>6, <1>8, <1>9, <2>2
    <3>3. QED
      BY <3>1, <3>2, UnknownOpposed
  <2>3. CASE ~MetricGated(d)
    <3>1. PICK q, o : q = ps[k] /\ o = ns[k]
      OBVIOUS
    <3>2. rs[k] = Evaluated(l, q) /\ ss[k] = Evaluated(l, o)
      BY <1>6, <1>7, <1>8, <1>9, <2>3, <3>1
    <3>3. o.key = q.key /\ o.direction = Flipped(q.direction)
          /\ q.direction \in {"increase", "decrease"}
      BY <1>9, <2>1, <3>1
    <3>4. CASE \E j \in DOMAIN l.entries :
                 /\ Sure(l.entries[j], q, p.score)
                 /\ \A r : r.key = q.key => Evaluated(l, r) = Decided(r, l.entries[j])
      <4>1. PICK j \in DOMAIN l.entries :
                 \A r : r.key = q.key => Evaluated(l, r) = Decided(r, l.entries[j])
        BY <3>4
      <4>2. PICK e : e = l.entries[j]
        OBVIOUS
      <4>3. rs[k] = Decided(q, e) /\ ss[k] = Decided(o, e)
        BY <3>2, <3>3, <4>1, <4>2
      <4>4. QED
        BY <3>3, <4>3, DecidedOpposed
    <3>5. CASE \E reason, observed :
                 \A r : r.key = q.key => Evaluated(l, r) = Unknown(r, reason, observed)
      <4>1. PICK reason, observed :
                 \A r : r.key = q.key => Evaluated(l, r) = Unknown(r, reason, observed)
        BY <3>5
      <4>2. rs[k] = Unknown(q, reason, observed) /\ ss[k] = Unknown(o, reason, observed)
        BY <3>2, <3>3, <4>1
      <4>3. QED
        BY <4>2, UnknownOpposed
    <3>6. \/ \E j \in DOMAIN l.entries :
                 /\ Sure(l.entries[j], q, p.score)
                 /\ \A r : r.key = q.key => Evaluated(l, r) = Decided(r, l.entries[j])
          \/ /\ \A j \in DOMAIN l.entries : ~Sure(l.entries[j], q, p.score)
             /\ \E reason, observed :
                  \A r : r.key = q.key => Evaluated(l, r) = Unknown(r, reason, observed)
      BY PredicateEvaluated
    <3>7. QED
      BY <3>4, <3>5, <3>6, Zenon
  <2>4. QED
    BY <2>2, <2>3
<1>11. DOMAIN ss = DOMAIN rs /\ \A k \in DOMAIN rs : Opposed(rs[k], ss[k])
  BY <1>7, <1>8, <1>9, <1>10
<1>12. w.supporting = v.contradicting /\ w.contradicting = v.supporting
  BY <1>7, <1>8, <1>11, OpposedCited
<1>13. w.verdict = Denied(v.verdict)
  <2>1. CASE MetricGated(d)
    BY <1>6, <1>7, <1>8, <2>1, DeniedVerdicts
  <2>2. CASE ~MetricGated(d)
    <3>1. d.composition \in {"all", "any"}
      BY DEF Parsed
    <3>2. n.composition = IF d.composition = "all" THEN "any" ELSE "all"
      BY DEF Denies
    <3>3. compose(n.composition, ss) = Denied(compose(d.composition, rs))
      BY <1>11, <3>1, <3>2, OpposedCompose
    <3>4. QED
      BY <1>6, <1>7, <1>8, <2>2, <3>3
  <2>3. QED
    BY <2>1, <2>2
<1>14. QED
  BY <1>12, <1>13

-----------------------------------------------------------------------------
(* Citations. *)

\* The entry with this id shows what the result says was observed.
BearsOut(e, id, r, cs, p) ==
  /\ e.id = id
  /\ e.candidate # NoCandidate /\ \E i \in DOMAIN cs : cs[i] = e.candidate
  /\ ~Less(e.candidate.suspicion, p.score)
  /\ e.candidate.signed.n > 0 <=> r.observed = "increase"

\* A cited id is that of an entry which shows the direction reported.
LEMMA CitedBearsOut ==
  ASSUME NEW l, NEW cs, NEW p, Bound(l, cs, p), NEW d, Parsed(d),
         NEW v, v = verify_hypothesis(d, l), NEW k \in DOMAIN v.results,
         NEW id \in ToSet(v.results[k].supporting \o v.results[k].contradicting)
  PROVE  \E j \in DOMAIN l.entries : BearsOut(l.entries[j], id, v.results[k], cs, p)
<1>1. PICK ps \in Seq(MetricClaims) : ps = d.predicates
  BY DEF Parsed
<1>2. PICK r : r = v.results[k]
  OBVIOUS
<1>3. l.context = Context
  BY DEF Bound
<1>4. /\ DOMAIN v.results = DOMAIN ps
      /\ \A i \in DOMAIN ps :
           IF MetricGated(d) THEN \E reason : v.results[i] = Unknown(ps[i], reason, "none")
           ELSE v.results[i] = Evaluated(l, ps[i])
  BY <1>1, <1>3, MetricVerified
<1>5. PICK q : q = ps[k]
  OBVIOUS
<1>6. q.direction \in {"increase", "decrease"}
  <2>1. q \in MetricClaims
    BY <1>4, <1>5
  <2>2. QED
    BY <2>1 DEF MetricClaims
<1>7. (\E reason : r = Unknown(q, reason, "none")) \/ r = Evaluated(l, q)
  BY <1>2, <1>4, <1>5
<1>8. id \in ToSet(r.supporting \o r.contradicting)
  BY <1>2
<1>9. ASSUME NEW reason, NEW observed, r = Unknown(q, reason, observed) PROVE FALSE
  <2>1. r.supporting = <<>> /\ r.contradicting = <<>>
    BY <1>9, UnknownCitesNothing
  <2>2. ToSet(r.supporting \o r.contradicting) = {}
    BY <2>1 DEF ToSet
  <2>3. QED
    BY <1>8, <2>2
<1>10. ASSUME NEW j \in DOMAIN l.entries, Sure(l.entries[j], q, p.score),
              r = Decided(q, l.entries[j])
       PROVE  BearsOut(l.entries[j], id, r, cs, p)
  <2>1. PICK e : e = l.entries[j]
    OBVIOUS
  <2>2. /\ r.observed = Observed(e.candidate)
        /\ r.supporting \o r.contradicting = <<e.id>>
    <3>1. /\ r.observed = Observed(e.candidate)
          /\ r.supporting = IF Observed(e.candidate) = q.direction THEN <<e.id>> ELSE <<>>
          /\ r.contradicting = IF Observed(e.candidate) = q.direction THEN <<>> ELSE <<e.id>>
      BY <1>6, <1>10, <2>1, DecidedCitesEntry
    <3>2. <<e.id>> \o <<>> = <<e.id>> /\ <<>> \o <<e.id>> = <<e.id>>
      OBVIOUS
    <3>3. QED
      BY <3>1, <3>2
  <2>3. e.id = id
    BY <1>8, <2>2 DEF ToSet
  <2>4. e.candidate # NoCandidate /\ ~Less(e.candidate.suspicion, p.score)
    BY <1>10, <2>1 DEF Sure
  <2>5. \E i \in DOMAIN cs : cs[i] = e.candidate
    BY <2>1, <2>4 DEF Bound
  <2>6. e.candidate.signed.n > 0 <=> r.observed = "increase"
    BY <2>2 DEF Observed
  <2>7. QED
    BY <2>1, <2>3, <2>4, <2>5, <2>6 DEF BearsOut
<1>11. r = Evaluated(l, q)
  BY <1>7, <1>9
<1>12. \/ \E j \in DOMAIN l.entries :
            /\ Sure(l.entries[j], q, p.score)
            /\ \A o : o.key = q.key => Evaluated(l, o) = Decided(o, l.entries[j])
       \/ /\ \A j \in DOMAIN l.entries : ~Sure(l.entries[j], q, p.score)
          /\ \E reason, observed :
               \A o : o.key = q.key => Evaluated(l, o) = Unknown(o, reason, observed)
  BY PredicateEvaluated, SMTT(30)
<1>13. \E j \in DOMAIN l.entries : BearsOut(l.entries[j], id, r, cs, p)
  BY <1>9, <1>10, <1>11, <1>12
<1>14. QED
  BY <1>2, <1>13

\* What was serialised holds what it was made of.
LEMMA EntryWritten ==
  ASSUME NEW e, NEW j, j = metric_evidence_entry_json(e), j # Unserialisable,
         {"id", "key", "eligible", "candidate"} \subseteq DOMAIN e, e.candidate # NoCandidate
  PROVE  j.id = e.id /\ j.candidate = e.candidate
<1>1. j = EntryPayload(e)
  BY DEF metric_evidence_entry_json
<1>2. j = [e EXCEPT !.candidate = e.candidate]
  BY <1>1 DEF EntryPayload
<1>3. QED
  BY <1>2

\* A report as it is written has the results of the verification.
LEMMA ReportWritten ==
  ASSUME NEW v, NEW j, j = verification_json(v), j # Unserialisable
  PROVE  j.results = v.results
<1>1. j = [schema |-> "metric-hypothesis-verification.v1",
           composition |-> v.composition, verdict |-> v.verdict, reason |-> v.reason,
           results |-> v.results, supporting |-> v.supporting,
           contradicting |-> v.contradicting]
  BY DEF verification_json
<1>2. QED
  BY <1>1

\* A ranking as it is written has its candidates and its policy.
LEMMA BaselineWritten ==
  ASSUME NEW b, NEW j, j = baseline_ranking_json(b), j # Unserialisable
  PROVE  j.policy = b.policy /\ j.candidates = b.candidates
<1>1. \E kind, reason, lead, top, second :
        j = [schema |-> "baseline-ranking.v1", kind |-> kind, policy |-> b.policy,
             candidates |-> b.candidates, reason |-> reason, lead |-> lead,
             top |-> top, second |-> second]
  BY ZenonT(40) DEF baseline_ranking_json
<1>2. QED
  BY <1>1

-----------------------------------------------------------------------------
(* The pipeline. *)

Ranked == baseline.policy = policy /\ Bound(ledger, baseline.candidates, policy)

\* Nothing that is stored was refused by a serialiser.
Written(payloads) ==
  /\ Unserialisable \notin ToSet(payloads.evidence)
  /\ payloads.report # Unserialisable /\ payloads.baseline # Unserialisable

\* Each stage works on what the one before it left: the ledger goes back to the
\* ranking, the document passed the parser, and what is stored is what was
\* verified.
Held ==
  /\ policy \in Policies
  /\ pc \in {"compile", "propose", "parse"} => inputs \in Telemetries
  /\ pc = "parse" => raw \in Proposals(inputs)
  /\ pc \in {"propose", "parse", "verify"} => Ranked
  /\ pc \in {"load", "compile", "propose", "parse", "verify"} =>
       verification = None /\ stored = None
  /\ pc = "verify" => Parsed(document)
  /\ verification # None =>
       Ranked /\ Parsed(document) /\ verification = verify_hypothesis(document, ledger)
  /\ stored # None =>
       verification # None /\ stored = Payloads(verification) /\ Written(stored)

\* The parser hands on only documents.
LEMMA ParserHandsOn ==
  ASSUME NEW t \in Telemetries, NEW r \in Proposals(t), NEW allowed,
         NEW d, d = parse_metric_hypothesis(r, allowed), "rejected" \notin DOMAIN d
  PROVE  Parsed(d)
<1>1. \A code : "rejected" \in DOMAIN Rejected(code)
  BY DEF Rejected
<1>2. /\ d = r /\ BadEntry \notin ToSet(r.predicates) /\ ValidDocument(r)
  <2>1. (\E code : d = Rejected(code))
        \/ (d = r /\ BadEntry \notin ToSet(r.predicates) /\ ValidDocument(r))
    BY DEF parse_metric_hypothesis
  <2>2. QED
    BY <1>1, <2>1
<1>3. /\ {"composition", "predicates", "context", "semantics"} \subseteq DOMAIN r
      /\ r.composition \in {"all", "any"}
      /\ r.predicates \in Seq(MetricClaims \cup {BadEntry})
  BY AnalysisAssumption DEF MetricClaims
<1>4. PICK ps : ps = r.predicates
  OBVIOUS
<1>5. PICK n \in Nat : n = Len(ps) /\ DOMAIN ps = 1..n
  BY <1>3, <1>4
<1>6. ASSUME NEW k \in 1..n PROVE ps[k] \in MetricClaims
  <2>1. ps[k] \in MetricClaims \cup {BadEntry}
    BY <1>3, <1>4, <1>5
  <2>2. ps[k] # BadEntry
    BY <1>2, <1>4, <1>5 DEF ToSet
  <2>3. QED
    BY <2>1, <2>2
<1>7. ps \in Seq(MetricClaims)
  <2>1. ps = [k \in 1..n |-> ps[k]]
    BY <1>3, <1>4, <1>5
  <2>2. QED
    BY <1>6, <2>1
<1>8. DOMAIN ps # {}
  <2>1. n \in 1..MaxPredicates
    BY <1>2, <1>4, <1>5 DEF ValidDocument
  <2>2. 1 \in 1..n
    BY <2>1, MaxPredicatesAssumption
  <2>3. QED
    BY <1>5, <2>2
<1>9. QED
  BY <1>2, <1>3, <1>4, <1>7, <1>8 DEF Parsed

\* What a telemetry source and a configuration may hold.
LEMMA InputsSound ==
  ASSUME NEW t \in Telemetries, NEW p \in Policies
  PROVE  t \in Seq(ToSet(t)) /\ (\A i \in ToSet(t) : SignalInput(i)) /\ Policy(p)
<1>1. t \in Seq(ToSet(t)) /\ \A i \in ToSet(t) : SignalInput(i)
  BY AnalysisAssumption DEF SignalInput
<1>2. Policy(p)
  <2>1. /\ p.points \in Nat \ {0} /\ p.relative \in Nat
        /\ p.score \in [n : Nat, d : Nat \ {0}]
    BY AnalysisAssumption
  <2>2. p.score \in Fractions
    BY <2>1 DEF Fractions
  <2>3. QED
    BY <2>1, <2>2 DEF Policy
<1>3. QED
  BY <1>1, <1>2

\* It holds before anything is loaded.
LEMMA HeldInit == Init => Held
  BY DEF Init, Held

\* Every stage keeps it.
LEMMA HeldStep == Held /\ [Next]_vars => Held'
<1> SUFFICES ASSUME Held, [Next]_vars PROVE Held'
  OBVIOUS
<1>1. CASE UNCHANGED vars
  <2>1. UNCHANGED <<pc, policy, inputs, baseline, ledger, raw, document, verification, stored>>
    BY <1>1 DEF vars
  <2>2. QED
    BY <2>1 DEF Held, Ranked, Payloads
<1>2. CASE Load
  <2>1. /\ pc = "load" /\ pc' = "compile" /\ inputs' \in Telemetries
        /\ UNCHANGED <<policy, verification, stored>>
    BY <1>2 DEF Load, Goto
  <2>2. verification = None /\ stored = None
    BY <2>1 DEF Held
  <2>3. QED
    BY <2>1, <2>2 DEF Held
<1>3. CASE LoadFails
  <2>1. pc = "load" /\ pc' = "failed" /\ UNCHANGED <<policy, verification, stored>>
    BY <1>3 DEF LoadFails, Fail
  <2>2. verification = None /\ stored = None
    BY <2>1 DEF Held
  <2>3. QED
    BY <2>1, <2>2 DEF Held
<1>4. CASE Compile
  <2>1. pc = "compile" /\ UNCHANGED <<policy, inputs, verification, stored>>
    BY <1>4 DEF Compile
  <2>2. /\ inputs \in Telemetries /\ policy \in Policies
        /\ verification = None /\ stored = None
    BY <2>1 DEF Held
  <2>3. CASE pc' = "failed"
    BY <2>1, <2>2, <2>3 DEF Held
  <2>4. CASE pc' = "propose" /\ Ranked'
    BY <2>1, <2>2, <2>4 DEF Held
  <2>5. pc' = "failed" \/ (pc' = "propose" /\ Ranked')
    <3>1. SUFFICES ASSUME pc' # "failed" PROVE pc' = "propose" /\ Ranked'
      OBVIOUS
    <3>2. /\ baseline' = rank_metric_shifts(Window, inputs, policy)
          /\ ledger' = compile_metric_shift_ledger(Context, Window, baseline')
          /\ ledger' # Invalid /\ pc' = "propose"
      BY <1>4, <3>1 DEF Compile, Fail, Goto
    <3>3. /\ inputs \in Seq(ToSet(inputs)) /\ \A i \in ToSet(inputs) : SignalInput(i)
          /\ Policy(policy)
      BY <2>2, InputsSound
    <3>4. Bound(ledger', baseline'.candidates, policy)
      BY <3>2, <3>3, LedgerBound
    <3>5. baseline'.policy = policy
      BY <3>2, <3>3, RankingHolds
    <3>6. QED
      BY <2>1, <3>2, <3>4, <3>5 DEF Ranked
  <2>6. QED
    BY <2>3, <2>4, <2>5
<1>5. CASE Propose
  <2>1. /\ pc = "propose" /\ pc' = "parse" /\ raw' \in Proposals(inputs)
        /\ UNCHANGED <<policy, inputs, baseline, ledger, verification, stored>>
    BY <1>5 DEF Propose, Goto
  <2>2. inputs \in Telemetries /\ Ranked /\ verification = None /\ stored = None
    BY <2>1 DEF Held
  <2>3. Ranked'
    BY <2>1, <2>2 DEF Ranked
  <2>4. QED
    BY <2>1, <2>2, <2>3 DEF Held
<1>6. CASE ProposeFails
  <2>1. /\ pc = "propose" /\ pc' \in {"failed", "requeued"}
        /\ UNCHANGED <<policy, verification, stored>>
    BY <1>6 DEF ProposeFails, Fail, Requeue
  <2>2. verification = None /\ stored = None
    BY <2>1 DEF Held
  <2>3. QED
    BY <2>1, <2>2 DEF Held
<1>7. CASE Parse
  <2>1. pc = "parse" /\ UNCHANGED <<policy, inputs, baseline, ledger, verification, stored>>
    BY <1>7 DEF Parse
  <2>2. /\ inputs \in Telemetries /\ raw \in Proposals(inputs) /\ Ranked
        /\ verification = None /\ stored = None
    BY <2>1 DEF Held
  <2>3. Ranked'
    BY <2>1, <2>2 DEF Ranked
  <2>4. pc' = "failed" \/ (pc' = "verify" /\ Parsed(document'))
    <3>1. PICK parsed : parsed = parse_metric_hypothesis(raw, ToSet(KeysOf(ledger.entries)))
      OBVIOUS
    <3>2. CASE "rejected" \in DOMAIN parsed
      BY <1>7, <3>1, <3>2 DEF Parse, Fail
    <3>3. CASE "rejected" \notin DOMAIN parsed
      <4>1. pc' = "verify" /\ document' = parsed
        BY <1>7, <3>1, <3>3 DEF Parse, Goto
      <4>2. Parsed(parsed)
        BY <2>2, <3>1, <3>3, ParserHandsOn
      <4>3. QED
        BY <4>1, <4>2
    <3>4. QED
      BY <3>2, <3>3
  <2>5. QED
    BY <2>1, <2>2, <2>3, <2>4 DEF Held
<1>8. CASE Verify
  <2>1. /\ pc = "verify" /\ verification' = verify_hypothesis(document, ledger)
        /\ UNCHANGED <<policy, inputs, baseline, ledger, raw, document>>
    BY <1>8 DEF Verify
  <2>2. Parsed(document) /\ Ranked /\ stored = None
    BY <2>1 DEF Held
  <2>3. Ranked'
    BY <2>1, <2>2 DEF Ranked
  <2>4. PICK payloads : payloads = Payloads(verification')
    OBVIOUS
  <2>5. (Payloads(verification))' = payloads
    BY <2>1, <2>4 DEF Payloads
  <2>6. \/ pc' = "failed" /\ stored' = stored
        \/ pc' = "persist" /\ stored' = payloads /\ Written(payloads)
    BY <1>8, <2>4 DEF Verify, Fail, Goto, Written
  <2>7. CASE pc' = "failed" /\ stored' = stored
    BY <2>1, <2>2, <2>3, <2>7 DEF Held
  <2>8. CASE pc' = "persist" /\ stored' = payloads /\ Written(payloads)
    <3>1. verification' # None
      <4>1. "results" \in DOMAIN verification'
        BY <2>1 DEF verify_hypothesis
      <4>2. "results" \notin DOMAIN None
        BY DEF None
      <4>3. QED
        BY <4>1, <4>2
    <3>2. QED
      BY <2>1, <2>2, <2>3, <2>5, <2>8, <3>1 DEF Held
  <2>9. QED
    BY <2>6, <2>7, <2>8
<1>9. QED
  BY <1>1, <1>2, <1>3, <1>4, <1>5, <1>6, <1>7, <1>8 DEF Next

\* The truth the telemetry gives a predicate is that of the ranking's candidates.
LEMMA TruthRead ==
  ASSUME NEW q
  PROVE  Truth(q) = IF MetricGated(document) THEN 0
                    ELSE TruthIn(q, baseline.candidates, policy.score)
<1>1. PICK sure : sure = {c \in ToSet(baseline.candidates) :
                            c.key = q.key /\ c.signed.n # 0 /\ ~Less(c.suspicion, policy.score)}
  OBVIOUS
<1>2. TruthIn(q, baseline.candidates, policy.score) =
        IF sure = {} THEN 0
        ELSE IF \E c \in sure : (c.post_median > c.pre_median) = (q.direction = "increase")
        THEN 1 ELSE -1
  BY <1>1, Zenon DEF TruthIn
<1>3. Truth(q) =
        IF document.context # Context \/ document.semantics = "causal" \/ sure = {} THEN 0
        ELSE IF \E c \in sure : (c.post_median > c.pre_median) = (q.direction = "increase")
        THEN 1 ELSE -1
  BY <1>1, Zenon DEF Truth
<1>4. QED
  BY <1>2, <1>3 DEF MetricGated

\* Verdicts follow from the telemetry.
LEMMA VerdictsFollow == Held => VerdictSound
<1> SUFFICES ASSUME Held, verification # None,
                    NEW T, T = {Truth(p) : p \in ToSet(document.predicates)}
             PROVE  /\ \A k \in DOMAIN document.predicates :
                         verification.results[k].verdict = VerdictOf(Truth(document.predicates[k]))
                    /\ verification.verdict =
                         VerdictOf(IF document.composition = "all" THEN Min(T) ELSE Max(T))
  BY DEF VerdictSound
<1>1. PICK cs : cs = baseline.candidates
  OBVIOUS
<1>2. /\ Bound(ledger, cs, policy) /\ Parsed(document)
      /\ verification = verify_hypothesis(document, ledger)
  BY <1>1 DEF Held, Ranked
<1>3. PICK D : D = DOMAIN document.predicates
  OBVIOUS
<1>4. PICK truth : truth = [k \in DOMAIN document.predicates |->
                              IF MetricGated(document) THEN 0
                              ELSE TruthIn(document.predicates[k], cs, policy.score)]
  OBVIOUS
<1>5. \A k \in D : truth[k] = Truth(document.predicates[k])
  BY <1>1, <1>3, <1>4, TruthRead
<1>6. Lists(T, truth, DOMAIN document.predicates)
  BY <1>3, <1>5 DEF Lists, ToSet
<1>7. /\ \A k \in D : verification.results[k].verdict = ChangeVerdictOf(truth[k])
      /\ verification.verdict =
           ChangeVerdictOf(IF document.composition = "all" THEN Min(T) ELSE Max(T))
  BY <1>2, <1>3, <1>4, <1>6, VerdictTrue
<1>8. \A t : ChangeVerdictOf(t) = VerdictOf(t)
  BY DEF ChangeVerdictOf, VerdictOf
<1>9. QED
  BY <1>3, <1>5, <1>7, <1>8

\* Denial turns verdicts and citations around.
LEMMA DenialsFollow == Held => DenialSymmetric
<1>1. SUFFICES ASSUME Held, verification # None,
                      NEW n, n = [document EXCEPT
                                    !.composition = IF @ = "all" THEN "any" ELSE "all",
                                    !.predicates = [k \in DOMAIN @ |-> Opposite(@[k])]],
                      NEW w, w = verify_hypothesis(n, ledger)
               PROVE  /\ w.verdict = Denied(verification.verdict)
                      /\ w.supporting = verification.contradicting
                      /\ w.contradicting = verification.supporting
  BY DEF DenialSymmetric
<1>2. /\ Bound(ledger, baseline.candidates, policy) /\ Parsed(document)
      /\ verification = verify_hypothesis(document, ledger)
  BY <1>1 DEF Held, Ranked
<1>3. PICK ps \in Seq(MetricClaims) : ps = document.predicates
  BY <1>2 DEF Parsed
<1>4. PICK ns : ns = [k \in DOMAIN ps |-> Opposite(ps[k])]
  OBVIOUS
<1>5. n = [document EXCEPT !.composition = IF document.composition = "all" THEN "any" ELSE "all",
                           !.predicates = ns]
  <2>1. PICK m : m = [document EXCEPT !.composition = IF @ = "all" THEN "any" ELSE "all"]
    OBVIOUS
  <2>2. n = [m EXCEPT !.predicates = [k \in DOMAIN @ |-> Opposite(@[k])]]
    BY <1>1, <2>1
  <2>3. m.predicates = ps
    BY <1>2, <1>3, <2>1 DEF Parsed
  <2>4. n = [m EXCEPT !.predicates = ns]
    BY <1>4, <2>2, <2>3
  <2>5. QED
    BY <2>1, <2>4
<1>6. {"composition", "predicates", "context", "semantics"} \subseteq DOMAIN document
  BY <1>2 DEF Parsed
<1>7. /\ n.context = document.context /\ n.semantics = document.semantics
      /\ n.composition = IF document.composition = "all" THEN "any" ELSE "all"
      /\ n.predicates = ns
  BY <1>5, <1>6
<1>8. ASSUME NEW k \in DOMAIN ps
      PROVE  ns[k].key = ps[k].key /\ ns[k].direction = Flipped(ps[k].direction)
  <2>1. ps[k] \in MetricClaims
    OBVIOUS
  <2>2. ns[k] = [ps[k] EXCEPT !.direction = Flipped(ps[k].direction)]
    BY <1>4 DEF Opposite
  <2>3. QED
    BY <2>1, <2>2 DEF MetricClaims
<1>9. Denies(n, document)
  <2>1. DOMAIN ns = DOMAIN ps
    BY <1>4
  <2>2. QED
    BY <1>3, <1>7, <1>8, <2>1 DEF Denies
<1>10. w = verify_hypothesis(n, ledger)
  BY <1>1
<1>11. QED
  BY <1>2, <1>9, <1>10, DenialOpposes

\* Stored citations are borne out by what is stored.
LEMMA CitationsFollow == Held => CitationsJustify
<1> SUFFICES ASSUME Held, stored # None,
                    NEW r \in ToSet(stored.report.results),
                    NEW id \in ToSet(r.supporting \o r.contradicting)
             PROVE  \E e \in ToSet(stored.evidence) :
                      /\ e.id = id
                      /\ e.candidate # Null /\ e.candidate \in ToSet(stored.baseline.candidates)
                      /\ ~Less(e.candidate.suspicion, stored.baseline.policy.score)
                      /\ (e.candidate.signed.n > 0) = (r.observed = "increase")
  BY DEF CitationsJustify
<1>1. PICK cs : cs = baseline.candidates
  OBVIOUS
<1>2. PICK es : es = ledger.entries
  OBVIOUS
<1>3. /\ Bound(ledger, cs, policy) /\ baseline.policy = policy /\ Parsed(document)
      /\ verification = verify_hypothesis(document, ledger)
      /\ stored = Payloads(verification) /\ Written(stored)
  BY <1>1 DEF Held, Ranked
<1>4. /\ stored.evidence = [k \in DOMAIN es |-> metric_evidence_entry_json(es[k])]
      /\ stored.report = verification_json(verification)
      /\ stored.baseline = baseline_ranking_json(baseline)
  BY <1>2, <1>3 DEF Payloads
<1>5. stored.report.results = verification.results
  BY <1>3, <1>4, ReportWritten DEF Written
<1>6. stored.baseline.policy = policy /\ stored.baseline.candidates = cs
  BY <1>1, <1>3, <1>4, BaselineWritten DEF Written
<1>7. PICK k \in DOMAIN verification.results : r = verification.results[k]
  BY <1>5 DEF ToSet
<1>8. PICK j \in DOMAIN es : BearsOut(es[j], id, r, cs, policy)
  BY <1>2, <1>3, <1>7, CitedBearsOut
<1>9. PICK e : e = stored.evidence[j]
  OBVIOUS
<1>10. e \in ToSet(stored.evidence) /\ e = metric_evidence_entry_json(es[j])
  BY <1>4, <1>9 DEF ToSet
<1>11. e # Unserialisable
  BY <1>3, <1>10 DEF Written
<1>12. {"id", "key", "eligible", "candidate"} \subseteq DOMAIN es[j]
  BY <1>2, <1>3 DEF Bound
<1>13. e.id = es[j].id /\ e.candidate = es[j].candidate
  BY <1>8, <1>10, <1>11, <1>12, EntryWritten DEF BearsOut
<1>14. PICK i \in DOMAIN cs : cs[i] = e.candidate
  BY <1>8, <1>13 DEF BearsOut
<1>15. e.candidate \in ToSet(cs) /\ e.candidate \in Candidates
  BY <1>3, <1>14 DEF Bound, ToSet
<1>16. e.candidate # Null
  <2>1. "key" \in DOMAIN e.candidate
    BY <1>15 DEF Candidates
  <2>2. "key" \notin DOMAIN Null
    BY DEF Null
  <2>3. QED
    BY <2>1, <2>2
<1>17. /\ e.id = id /\ ~Less(e.candidate.suspicion, policy.score)
       /\ (e.candidate.signed.n > 0) = (r.observed = "increase")
  BY <1>8, <1>13 DEF BearsOut
<1>18. QED
  BY <1>6, <1>10, <1>15, <1>16, <1>17

\* Verdicts follow from the telemetry by three-valued logic, are denied when
\* their predicates are, and the evidence a stored report cites bears it out: for
\* all telemetry, policies and proposals, of any size (verify_hypothesis).
THEOREM VerdictsAreJustified == Spec => []VerdictJustified
<1>1. Init => Held
  BY HeldInit
<1>2. Held /\ [Next]_vars => Held'
  BY HeldStep
<1>3. Held => VerdictJustified
  BY VerdictsFollow, DenialsFollow, CitationsFollow DEF VerdictJustified
<1>4. QED
  BY <1>1, <1>2, <1>3, PTL DEF Spec

-----------------------------------------------------------------------------
(* Rankings. *)

\* The values of a part of the window are as many as its points, and their median
\* lies in the middle of them.
LEMMA ValuesCounted ==
  ASSUME NEW i, SignalInput(i), NEW a \in Int, NEW b \in Int,
         NEW vs, vs = ValuesIn(i.points, a, b)
  PROVE  /\ vs \in Seq(Int) /\ Len(vs) = Cardinality(Points(i, a, b))
         /\ vs # <<>> => IsMedian2(Median2(vs), i.points, Points(i, a, b))
<1>1. PICK T : T = Points(i, a, b)
  OBVIOUS
<1>2. T \in SUBSET Int /\ T \subseteq DOMAIN i.points
  BY <1>1 DEF SignalInput, Points
<1>3. IsFiniteSet(T)
  BY <1>2, FS_Subset DEF SignalInput
<1>4. PICK asc : asc = Ascending(T)
  OBVIOUS
<1>5. PICK n \in Nat : n = Cardinality(T)
  BY <1>3, FS_CardinalityType
<1>6. asc \in [1..n -> T] /\ \A x \in T : \E k \in 1..n : asc[k] = x
  BY <1>2, <1>3, <1>4, <1>5, AscendingLists
<1>7. vs = [k \in 1..n |-> i.points[asc[k]]]
  <2>1. vs = Kept(i.points, T)
    BY <1>1 DEF ValuesIn, Points
  <2>2. Kept(i.points, T) = [k \in 1..Cardinality(T) |-> i.points[Ascending(T)[k]]]
    BY <1>2, <1>3, KeptLists
  <2>3. QED
    BY <1>4, <1>5, <2>1, <2>2
<1>8. \A t \in T : i.points[t] \in Int
  BY <1>2 DEF SignalInput
<1>9. vs \in Seq(Int) /\ Len(vs) = n
  <2>1. \A k \in 1..n : i.points[asc[k]] \in Int
    BY <1>6, <1>8
  <2>2. QED
    BY <1>7, <2>1
<1>10. ASSUME vs # <<>> PROVE IsMedian2(Median2(vs), i.points, T)
  <2>1. DOMAIN vs = 1..n /\ n # 0
    BY <1>7, <1>9, <1>10
  <2>2. PICK before :
          before = {p \in (DOMAIN vs) \X (DOMAIN vs) : vs[p[1]] < vs[p[2]]}
    OBVIOUS
  <2>3. /\ \A j, k \in DOMAIN vs : <<j, k>> \in before <=> vs[j] < vs[k]
        /\ WeakOrder(Len(vs), before)
    BY <1>9, <2>2, ValuesOrdered
  <2>4. PICK places : places = Places(n, before)
    OBVIOUS
  <2>5. WeakOrder(n, before)
    BY <1>9, <2>3
  <2>6. /\ places \in [1..n -> 1..n]
        /\ \A j, k \in 1..n : j < k => <<places[k], places[j]>> \notin before
        /\ \A j \in 1..n : \E k \in 1..n : places[k] = j
    <3>1. /\ Places(n, before) \in [1..n -> 1..n]
          /\ \A j, k \in 1..n : j < k =>
               /\ Places(n, before)[j] # Places(n, before)[k]
               /\ <<Places(n, before)[k], Places(n, before)[j]>> \notin before
          /\ \A j \in 1..n : \E k \in 1..n : Places(n, before)[k] = j
      BY <2>5, PlacesList
    <3>2. QED
      BY <2>4, <3>1
  <2>7. PICK s : s = Sorted(vs, before)
    OBVIOUS
  <2>8. s = [k \in 1..n |-> vs[places[k]]]
    BY <1>9, <2>3, <2>4, <2>7, SortedPlaces, SMTT(40)
  <2>9. Len(s) = n
    BY <2>8
  <2>10. Median2(vs) = s[(n + 1) \div 2] + s[n \div 2 + 1]
    BY <2>2, <2>7, <2>9 DEF Median2
  <2>11. PICK at : at = [k \in 1..n |-> asc[places[k]]]
    OBVIOUS
  <2>12. at \in [1..n -> T] /\ \A t \in T : \E k \in 1..n : at[k] = t
    <3>1. at \in [1..n -> T]
      BY <1>6, <2>6, <2>11
    <3>2. ASSUME NEW t \in T PROVE \E k \in 1..n : at[k] = t
      <4>1. PICK j \in 1..n : asc[j] = t
        BY <1>6
      <4>2. PICK k \in 1..n : places[k] = j
        BY <2>6
      <4>3. QED
        BY <2>11, <4>1, <4>2
    <3>3. QED
      BY <3>1, <3>2
  <2>13. \A k \in 1..n : i.points[at[k]] = vs[places[k]] /\ s[k] = vs[places[k]]
                         /\ vs[places[k]] \in Int
    <3>1. \A k \in 1..n : places[k] \in 1..n
      BY <2>6
    <3>2. QED
      BY <1>7, <1>9, <2>8, <2>11, <3>1
  <2>14. \A j, k \in 1..n : j < k => i.points[at[j]] <= i.points[at[k]]
    <3>1. \A j, k \in 1..n : j < k => ~(vs[places[k]] < vs[places[j]])
      BY <2>1, <2>3, <2>6
    <3>2. QED
      BY <2>13, <3>1
  <2>15. Median2(vs) = i.points[at[(n + 1) \div 2]] + i.points[at[n \div 2 + 1]]
    <3>1. (n + 1) \div 2 \in 1..n /\ n \div 2 + 1 \in 1..n
      BY <2>1
    <3>2. QED
      BY <2>10, <2>13, <3>1
  <2>16. PICK v : v = i.points
    OBVIOUS
  <2>17. PICK x : x = Median2(vs)
    OBVIOUS
  <2>18. /\ 2 * Cardinality({t \in T : 2 * v[t] < x}) <= n
         /\ 2 * Cardinality({t \in T : 2 * v[t] > x}) <= n
    <3>1. \A t \in T : v[t] \in Int
      BY <1>8, <2>16
    <3>2. \A j, k \in 1..n : j < k => v[at[j]] <= v[at[k]]
      BY <2>14, <2>16
    <3>3. x = v[at[(n + 1) \div 2]] + v[at[n \div 2 + 1]]
      BY <2>15, <2>16, <2>17
    <3>4. n \in Nat \ {0}
      BY <2>1
    <3>5. InOrderOf(v, T, n, at)
      BY <2>12, <3>1, <3>2 DEF InOrderOf
    <3>6. QED
      BY <3>3, <3>4, <3>5, MiddleOfList
  <2>19. QED
    BY <1>5, <2>16, <2>17, <2>18 DEF IsMedian2
<1>11. QED
  BY <1>1, <1>5, <1>9, <1>10

ScorableBy(i, p) ==
  /\ Cardinality(Points(i, Window.start, Window.injection)) >= p.points
  /\ Cardinality(Points(i, Window.injection, Window.end)) >= p.points

\* The candidate's medians lie in the middle of the signal's points.
HasMedians(c, i) ==
  /\ IsMedian2(c.pre_median, i.points, Points(i, Window.start, Window.injection))
  /\ IsMedian2(c.post_median, i.points, Points(i, Window.injection, Window.end))

\* A signal with enough points has a candidate, which has its medians.
LEMMA SignalScored ==
  ASSUME NEW i, SignalInput(i), NEW p, Policy(p),
         NEW e, e = evaluate_signal(Window, i, p)
  PROVE  /\ e.candidate # NoCandidate <=> ScorableBy(i, p)
         /\ e.candidate # NoCandidate => HasMedians(e.candidate, i)
<1>1. Window.start \in Int /\ Window.injection \in Int /\ Window.end \in Int
  BY AnalysisAssumption
<1>2. PICK before : before = Points(i, Window.start, Window.injection)
  OBVIOUS
<1>3. PICK after : after = Points(i, Window.injection, Window.end)
  OBVIOUS
<1>4. PICK pre : pre = PreValues(Window, i)
  OBVIOUS
<1>5. PICK post : post = PostValues(Window, i)
  OBVIOUS
<1>6. /\ pre \in Seq(Int) /\ Len(pre) = Cardinality(before)
      /\ pre # <<>> => IsMedian2(Median2(pre), i.points, before)
  BY <1>1, <1>2, <1>4, ValuesCounted DEF PreValues
<1>7. /\ post \in Seq(Int) /\ Len(post) = Cardinality(after)
      /\ post # <<>> => IsMedian2(Median2(post), i.points, after)
  BY <1>1, <1>3, <1>5, ValuesCounted DEF PostValues
<1>8. PICK c : c = IF Enough(Len(pre), Len(post), p) THEN score_candidate(i, p, pre, post)
                   ELSE NoCandidate
  OBVIOUS
<1>9. e.candidate = c /\ e.eligible = Enough(Len(pre), Len(post), p)
  BY <1>4, <1>5, <1>8 DEF evaluate_signal
<1>10. Evaluates(e)
  BY SignalEvaluated
<1>11. Enough(Len(pre), Len(post), p) <=> ScorableBy(i, p)
  BY <1>2, <1>3, <1>6, <1>7 DEF Enough, ScorableBy
<1>12. c # NoCandidate <=> ScorableBy(i, p)
  BY <1>9, <1>10, <1>11 DEF Evaluates
<1>13. ASSUME c # NoCandidate PROVE HasMedians(c, i)
  <2>1. Enough(Len(pre), Len(post), p)
    BY <1>11, <1>12, <1>13
  <2>2. pre # <<>> /\ post # <<>>
    <3>1. Len(pre) >= 1 /\ Len(post) >= 1
      BY <1>6, <1>7, <2>1 DEF Enough, Policy
    <3>2. QED
      BY <3>1
  <2>3. c.pre_median = Median2(pre) /\ c.post_median = Median2(post)
    BY <1>8, <2>1 DEF score_candidate
  <2>4. QED
    BY <1>2, <1>3, <1>6, <1>7, <2>2, <2>3 DEF HasMedians
<1>14. QED
  BY <1>9, <1>12, <1>13

\* Where keys differ, sorting by key leaves them in ascending order.
LEMMA KeysAscend ==
  ASSUME NEW A, \A x \in A : x.key \in Int, NEW s \in Seq(A), Distinct(s, "key"),
         NEW sorted, sorted = SortedByKey(s),
         NEW j \in DOMAIN sorted, NEW k \in DOMAIN sorted, j < k
  PROVE  sorted[j].key < sorted[k].key
<1>1. PICK before : before = {p \in (DOMAIN s) \X (DOMAIN s) : s[p[1]].key < s[p[2]].key}
  OBVIOUS
<1>2. WeakOrder(Len(s), before) /\ \A x, y \in DOMAIN s : <<x, y>> \in before <=> s[x].key < s[y].key
  BY <1>1, KeysOrder
<1>3. sorted = Sorted(s, before)
  BY <1>1 DEF SortedByKey
<1>4. InOrder(sorted, s, before)
  BY <1>2, <1>3, SortedElements
<1>5. PICK x \in DOMAIN s, y \in DOMAIN s :
        x # y /\ <<y, x>> \notin before /\ sorted[j] = s[x] /\ sorted[k] = s[y]
  BY <1>4 DEF InOrder
<1>6. s[x].key # s[y].key /\ ~(s[y].key < s[x].key) /\ s[x].key \in Int /\ s[y].key \in Int
  BY <1>2, <1>5 DEF Distinct
<1>7. QED
  BY <1>5, <1>6

\* The evaluations of a ranking are those of its signals, one for each.
LEMMA RankingLists ==
  ASSUME NEW ins, ins \in Seq(ToSet(ins)), \A i \in ToSet(ins) : SignalInput(i),
         ~DuplicateKeys(ins),
         NEW p, Policy(p), NEW evs, evs = EvaluationsOf(Window, ins, p)
  PROVE  /\ \A k \in DOMAIN evs : \E i \in ToSet(ins) : evs[k] = evaluate_signal(Window, i, p)
         /\ \A i \in ToSet(ins) : \E k \in DOMAIN evs : evs[k] = evaluate_signal(Window, i, p)
         /\ \A j, k \in DOMAIN evs : j < k => evs[j].key < evs[k].key
<1>1. PICK raws : raws = [k \in DOMAIN ins |-> evaluate_signal(Window, ins[k], p)]
  OBVIOUS
<1>2. PICK n \in Nat : DOMAIN ins = 1..n
  OBVIOUS
<1>3. ASSUME NEW k \in 1..n
      PROVE  evaluate_signal(Window, ins[k], p) \in Evaluations
             /\ evaluate_signal(Window, ins[k], p).key = ins[k].key
  <2>1. SignalInput(ins[k])
    BY <1>2
  <2>2. QED
    BY <2>1, SignalEvaluated
<1>4. raws \in Seq(Evaluations)
  BY <1>1, <1>2, <1>3
<1>5. DOMAIN raws = DOMAIN ins /\ \A k \in DOMAIN ins : raws[k].key = ins[k].key
  BY <1>1, <1>2, <1>3
<1>6. Distinct(raws, "key")
  BY <1>5 DEF Distinct, DuplicateKeys
<1>7. \A x \in Evaluations : x.key \in Int
  BY DEF Evaluations
<1>8. evs = SortedByKey(raws)
  BY <1>1 DEF EvaluationsOf
<1>9. /\ \A k \in DOMAIN evs : \E i \in DOMAIN raws : evs[k] = raws[i]
      /\ \A i \in DOMAIN raws : \E k \in DOMAIN evs : evs[k] = raws[i]
  BY <1>4, <1>7, <1>8, KeySorted
<1>10. \A j, k \in DOMAIN evs : j < k => evs[j].key < evs[k].key
  BY <1>4, <1>6, <1>7, <1>8, KeysAscend
<1>11. \A k \in DOMAIN ins : ins[k] \in ToSet(ins) /\ raws[k] = evaluate_signal(Window, ins[k], p)
  BY <1>1, <1>2 DEF ToSet
<1>12. \A i \in ToSet(ins) : \E k \in DOMAIN ins : i = ins[k]
  BY DEF ToSet
<1>13. QED
  BY <1>5, <1>9, <1>10, <1>11, <1>12

\* Candidates are listed from the one that shifted most, each signal's once.
LEMMA CandidatesOrdered ==
  ASSUME NEW evs \in Seq(Evaluations), \A k \in DOMAIN evs : Evaluates(evs[k]),
         \A j, k \in DOMAIN evs : j < k => evs[j].key < evs[k].key,
         NEW cs, cs = CandidatesOf(evs),
         NEW j \in DOMAIN cs, NEW k \in DOMAIN cs, j < k
  PROVE  ~BySuspicion(cs[k], cs[j]) /\ cs[j].key # cs[k].key
<1>1. PICK K : K = {x \in DOMAIN evs : evs[x].candidate # NoCandidate}
  OBVIOUS
<1>2. PICK some : some = Kept(evs, K)
  OBVIOUS
<1>3. K \in SUBSET (DOMAIN evs)
  BY <1>1
<1>4. some \in Seq(Evaluations) /\ \A x \in DOMAIN some : \E i \in K : some[x] = evs[i]
  BY <1>2, <1>3, KeptElements
<1>5. PICK found : found = [x \in DOMAIN some |-> some[x].candidate]
  OBVIOUS
<1>6. PICK n \in Nat : n = Len(some) /\ DOMAIN some = 1..n
  BY <1>4
<1>7. ASSUME NEW x \in 1..n
      PROVE  some[x].candidate \in Candidates /\ some[x].candidate.key = some[x].key
  <2>1. PICK i \in K : some[x] = evs[i]
    BY <1>4, <1>6
  <2>2. QED
    BY <1>1, <2>1 DEF Evaluates
<1>8. found \in Seq(Candidates) /\ DOMAIN found = DOMAIN some
  BY <1>5, <1>6, <1>7
<1>9. ASSUME NEW x \in DOMAIN found, NEW y \in DOMAIN found, x < y
      PROVE  found[x].key < found[y].key
  <2>1. PICK u \in K, w \in K : u < w /\ some[x] = evs[u] /\ some[y] = evs[w]
    BY <1>2, <1>3, <1>8, <1>9, KeptInOrder
  <2>2. some[x].key < some[y].key
    BY <1>3, <2>1
  <2>3. QED
    BY <1>5, <1>6, <1>7, <1>8, <2>2
<1>10. PICK before :
         before = {p \in (DOMAIN some) \X (DOMAIN some) : BySuspicion(found[p[1]], found[p[2]])}
  OBVIOUS
<1>11. \A x, y \in DOMAIN found : <<x, y>> \in before <=> BySuspicion(found[x], found[y])
  BY <1>8, <1>10
<1>12. \A x \in DOMAIN found : found[x] \in Candidates
  BY <1>8
<1>13. WeakOrder(Len(found), before)
  <2>1. 1..Len(found) = DOMAIN found
    BY <1>8
  <2>2. \A x, y \in DOMAIN found : <<x, y>> \in before => <<y, x>> \notin before
    BY <1>11, <1>12, SuspicionOrders
  <2>3. \A x, y, z \in DOMAIN found :
          <<x, y>> \in before => <<x, z>> \in before \/ <<z, y>> \in before
    BY <1>11, <1>12, SuspicionOrders
  <2>4. QED
    BY <2>1, <2>2, <2>3, Zenon DEF WeakOrder
<1>14. cs = Sorted(found, before)
  BY <1>1, <1>2, <1>5, <1>10 DEF CandidatesOf
<1>15. InOrder(cs, found, before)
  BY <1>8, <1>13, <1>14, SortedElements
<1>16. PICK x \in DOMAIN found, y \in DOMAIN found :
         x # y /\ <<y, x>> \notin before /\ cs[j] = found[x] /\ cs[k] = found[y]
  BY <1>15 DEF InOrder
<1>17. found[x].key # found[y].key
  <2>1. x \in Int /\ y \in Int /\ found[x].key \in Int /\ found[y].key \in Int
    <3>1. x \in 1..n /\ y \in 1..n
      BY <1>6, <1>8
    <3>2. found[x] \in Candidates /\ found[y] \in Candidates
      BY <1>12
    <3>3. QED
      BY <3>1, <3>2 DEF Candidates
  <2>2. x < y \/ y < x
    BY <1>16, <2>1
  <2>3. QED
    BY <1>9, <2>1, <2>2
<1>18. QED
  BY <1>11, <1>16, <1>17

\* What the ranking decides.
LEMMA RankingDecides ==
  ASSUME NEW ins, NEW p, NEW b, b = rank_metric_shifts(Window, ins, p),
         NEW cs, cs = CandidatesOf(EvaluationsOf(Window, ins, p))
  PROVE  /\ cs = <<>> => b.result = "abstention" /\ b.reason = "insufficient_evidence"
         /\ cs # <<>> /\ Less(TopScore(cs), p.score) =>
              b.result = "abstention" /\ b.reason = "weak_evidence"
         /\ cs # <<>> /\ ~Less(TopScore(cs), p.score) /\ Ambiguous(p, cs) =>
              b.result = "abstention" /\ b.reason = "ambiguous_evidence"
         /\ cs # <<>> /\ ~Less(TopScore(cs), p.score) /\ ~Ambiguous(p, cs) =>
              b.result = "ranking"
<1>1. PICK evs : evs = EvaluationsOf(Window, ins, p)
  OBVIOUS
<1> DEFINE Abstain(r) == [result |-> "abstention", reason |-> r, count |-> Len(cs),
                          top |-> TopScore(cs), second |-> SecondScore(cs),
                          policy |-> p, evaluations |-> evs, candidates |-> cs]
           ranking == [result |-> "ranking",
                       lead |-> IF Len(cs) = 1 THEN Infinite ELSE LeadOf(cs),
                       policy |-> p, evaluations |-> evs, candidates |-> cs]
<1>2. b = IF cs = <<>> THEN Abstain("insufficient_evidence")
          ELSE IF Less(TopScore(cs), p.score) THEN Abstain("weak_evidence")
          ELSE IF Ambiguous(p, cs) THEN Abstain("ambiguous_evidence")
          ELSE ranking
  BY <1>1, Zenon DEF rank_metric_shifts
<1>3. \A r : Abstain(r).result = "abstention" /\ Abstain(r).reason = r
  OBVIOUS
<1>4. ranking.result = "ranking"
  OBVIOUS
<1> HIDE DEF Abstain, ranking
<1>5. QED
  BY <1>2, <1>3, <1>4

\* What is farther behind has a greater lead over it.
LEMMA LeadGrows ==
  ASSUME NEW a \in Fractions, NEW b \in Fractions, NEW c \in Fractions, NEW m \in Fractions,
         ~Less(b, c), ~Less(Minus(a, b), m)
  PROVE  ~Less(Minus(a, c), m)
<1>1. PICK an \in Int, bn \in Int, cn \in Int, mn \in Int :
        an = a.n /\ bn = b.n /\ cn = c.n /\ mn = m.n
  BY DEF Fractions
<1>2. PICK ad \in Int, bd \in Int, cd \in Int, md \in Int :
        ad = a.d /\ bd = b.d /\ cd = c.d /\ md = m.d /\ ad > 0 /\ bd > 0 /\ cd > 0 /\ md > 0
  BY DEF Fractions
<1>3. bn * cd - cn * bd >= 0
  BY <1>1, <1>2 DEF Less
<1>4. (an * bd - bn * ad) * md - mn * (ad * bd) >= 0
  BY <1>1, <1>2 DEF Less, Minus
<1>5. ((an * bd - bn * ad) * md - mn * (ad * bd)) * cd >= 0
  BY <1>2, <1>4
<1>6. ad * md > 0
  BY <1>2
<1>7. (bn * cd - cn * bd) * (ad * md) >= 0
  BY <1>3, <1>6
<1>8. ((an * cd - cn * ad) * md - mn * (ad * cd)) * bd =
        ((an * bd - bn * ad) * md - mn * (ad * bd)) * cd + (bn * cd - cn * bd) * (ad * md)
  OBVIOUS
<1>9. ((an * cd - cn * ad) * md - mn * (ad * cd)) * bd >= 0
  BY <1>5, <1>7, <1>8
<1>10. (an * cd - cn * ad) * md - mn * (ad * cd) >= 0
  <2>1. PICK q \in Int : q = (an * cd - cn * ad) * md - mn * (ad * cd)
    OBVIOUS
  <2>2. q * bd >= 0
    BY <1>9, <2>1
  <2>3. q >= 0
    BY <1>2, <2>2
  <2>4. QED
    BY <2>1, <2>3
<1>11. QED
  BY <1>1, <1>2, <1>10 DEF Less, Minus

\* The candidates are the signals with enough points, with their medians, from the
\* one that shifted most.
SoundlyRanked(ins, p, evs, cs) ==
  /\ {e.key : e \in ToSet(evs)} = {i.key : i \in ToSet(ins)}
  /\ {c.key : c \in ToSet(cs)} = {i.key : i \in {j \in ToSet(ins) : ScorableBy(j, p)}}
  /\ \A i \in ToSet(ins) : \A c \in ToSet(cs) :
       c.key = i.key => HasMedians(c, i) /\ Scores(c)
  /\ \A j, k \in DOMAIN cs :
       j < k => ~Less(cs[j].suspicion, cs[k].suspicion) /\ cs[j].key # cs[k].key
  /\ cs \in Seq(Candidates) /\ cs = CandidatesOf(EvaluationsOf(Window, ins, p))

\* A ranking has the candidates it should, in the order it should.
LEMMA RankingIsSound ==
  ASSUME NEW ins, ins \in Seq(ToSet(ins)), \A i \in ToSet(ins) : SignalInput(i),
         ~DuplicateKeys(ins),
         NEW p, Policy(p), NEW b, b = rank_metric_shifts(Window, ins, p),
         NEW evs, evs = b.evaluations, NEW cs, cs = b.candidates
  PROVE  SoundlyRanked(ins, p, evs, cs)
<1>1. /\ evs = EvaluationsOf(Window, ins, p) /\ evs \in Seq(Evaluations)
      /\ \A k \in DOMAIN evs : Evaluates(evs[k])
      /\ cs = CandidatesOf(evs)
  BY RankingHolds
<1>2. /\ \A k \in DOMAIN evs : \E i \in ToSet(ins) : evs[k] = evaluate_signal(Window, i, p)
      /\ \A i \in ToSet(ins) : \E k \in DOMAIN evs : evs[k] = evaluate_signal(Window, i, p)
      /\ \A j, k \in DOMAIN evs : j < k => evs[j].key < evs[k].key
  BY <1>1, RankingLists
<1>3. /\ cs \in Seq(Candidates)
      /\ \A k \in DOMAIN cs : \E i \in DOMAIN evs : cs[k] = evs[i].candidate
      /\ \A i \in DOMAIN evs : evs[i].candidate # NoCandidate =>
           \E k \in DOMAIN cs : cs[k] = evs[i].candidate
  BY <1>1, CandidatesListed
<1>4. \A j, k \in DOMAIN cs : j < k => ~BySuspicion(cs[k], cs[j]) /\ cs[j].key # cs[k].key
  BY <1>1, <1>2, CandidatesOrdered
<1>5. ASSUME NEW i \in ToSet(ins), NEW e, e = evaluate_signal(Window, i, p)
      PROVE  /\ e.key = i.key /\ Evaluates(e)
             /\ e.candidate # NoCandidate <=> ScorableBy(i, p)
             /\ e.candidate # NoCandidate => HasMedians(e.candidate, i)
  <2>1. SignalInput(i)
    OBVIOUS
  <2>2. QED
    BY <1>5, <2>1, SignalEvaluated, SignalScored
<1>6. {e.key : e \in ToSet(evs)} = {i.key : i \in ToSet(ins)}
  <2>1. ASSUME NEW e \in ToSet(evs) PROVE \E i \in ToSet(ins) : e.key = i.key
    <3>1. PICK k \in DOMAIN evs : e = evs[k]
      BY DEF ToSet
    <3>2. QED
      BY <1>2, <1>5, <3>1
  <2>2. ASSUME NEW i \in ToSet(ins) PROVE \E e \in ToSet(evs) : i.key = e.key
    <3>1. PICK k \in DOMAIN evs : evs[k] = evaluate_signal(Window, i, p)
      BY <1>2
    <3>2. evs[k] \in ToSet(evs) /\ evs[k].key = i.key
      BY <1>5, <3>1 DEF ToSet
    <3>3. QED
      BY <3>2
  <2>3. QED
    BY <2>1, <2>2

\* Every candidate is that of a signal of its key.
<1>7. ASSUME NEW c \in ToSet(cs)
      PROVE  \E i \in ToSet(ins) : /\ c = evaluate_signal(Window, i, p).candidate
                                   /\ ScorableBy(i, p) /\ c.key = i.key
                                   /\ HasMedians(c, i) /\ Scores(c)
  <2>1. PICK k \in DOMAIN cs : c = cs[k]
    BY DEF ToSet
  <2>2. c \in Candidates
    BY <1>3, <2>1
  <2>3. PICK j \in DOMAIN evs : c = evs[j].candidate
    BY <1>3, <2>1
  <2>4. PICK i \in ToSet(ins) : evs[j] = evaluate_signal(Window, i, p)
    BY <1>2
  <2>5. c # NoCandidate
    BY <2>2, NoCandidateIsNone
  <2>6. PICK e : e = evs[j]
    OBVIOUS
  <2>7. /\ e.key = i.key /\ Evaluates(e)
        /\ e.candidate # NoCandidate <=> ScorableBy(i, p)
        /\ e.candidate # NoCandidate => HasMedians(e.candidate, i)
    BY <1>5, <2>4, <2>6
  <2>8. QED
    BY <2>3, <2>4, <2>5, <2>6, <2>7 DEF Evaluates
<1>8. {c.key : c \in ToSet(cs)} = {i.key : i \in {j \in ToSet(ins) : ScorableBy(j, p)}}
  <2>1. ASSUME NEW i \in ToSet(ins), ScorableBy(i, p)
        PROVE  \E c \in ToSet(cs) : c.key = i.key
    <3>1. PICK j \in DOMAIN evs : evs[j] = evaluate_signal(Window, i, p)
      BY <1>2
    <3>2. PICK e : e = evs[j]
      OBVIOUS
    <3>3. e.key = i.key /\ Evaluates(e) /\ e.candidate # NoCandidate
      BY <1>5, <2>1, <3>1, <3>2
    <3>4. PICK k \in DOMAIN cs : cs[k] = e.candidate
      BY <1>3, <3>2, <3>3
    <3>5. cs[k] \in ToSet(cs) /\ cs[k].key = i.key
      BY <3>3, <3>4 DEF ToSet, Evaluates
    <3>6. QED
      BY <3>5
  <2>2. QED
    BY <1>7, <2>1
<1>9. \A i, j \in ToSet(ins) : i.key = j.key => i = j
  BY DEF ToSet, DuplicateKeys
<1>10. ASSUME NEW i \in ToSet(ins), NEW c \in ToSet(cs), c.key = i.key
       PROVE  HasMedians(c, i) /\ Scores(c)
  <2>1. PICK j \in ToSet(ins) : c.key = j.key /\ HasMedians(c, j) /\ Scores(c)
    BY <1>7
  <2>2. i = j
    BY <1>9, <1>10, <2>1
  <2>3. QED
    BY <2>1, <2>2
<1>11. \A j, k \in DOMAIN cs :
         j < k => ~Less(cs[j].suspicion, cs[k].suspicion) /\ cs[j].key # cs[k].key
  BY <1>4 DEF BySuspicion
<1>12. QED
  BY <1>1, <1>3, <1>6, <1>8, <1>10, <1>11 DEF SoundlyRanked

\* The decision is the one the scores and the margin demand.
LEMMA DecisionIsJustified ==
  ASSUME NEW ins, ins \in Seq(ToSet(ins)), \A i \in ToSet(ins) : SignalInput(i),
         ~DuplicateKeys(ins),
         NEW p, Policy(p), p.margin \in Fractions, NEW b, b = rank_metric_shifts(Window, ins, p),
         NEW cs, cs = b.candidates,
         NEW strong \in BOOLEAN, strong <=> \E c \in ToSet(cs) : ~Less(c.suspicion, p.score),
         NEW clear \in BOOLEAN,
         clear <=> \A c \in ToSet(cs) : c.key # cs[1].key =>
                     ~Less(Minus(cs[1].suspicion, c.suspicion), p.margin)
  PROVE  /\ b.result = "ranking" <=> (cs # <<>> /\ strong /\ clear)
         /\ b.result = "abstention" =>
              b.reason = IF cs = <<>> THEN "insufficient_evidence"
                         ELSE IF ~strong THEN "weak_evidence" ELSE "ambiguous_evidence"
<1>1. /\ cs \in Seq(Candidates) /\ cs = CandidatesOf(EvaluationsOf(Window, ins, p))
      /\ \A j, k \in DOMAIN cs :
           j < k => ~Less(cs[j].suspicion, cs[k].suspicion) /\ cs[j].key # cs[k].key
  BY RankingIsSound DEF SoundlyRanked
<1>2. PICK weak \in BOOLEAN : weak <=> Less(TopScore(cs), p.score)
  BY DEF Less
<1>3. PICK unclear \in BOOLEAN : unclear <=> Ambiguous(p, cs)
  BY DEF Ambiguous
<1>4. /\ cs = <<>> => b.result = "abstention" /\ b.reason = "insufficient_evidence"
      /\ cs # <<>> /\ weak => b.result = "abstention" /\ b.reason = "weak_evidence"
      /\ cs # <<>> /\ ~weak /\ unclear => b.result = "abstention" /\ b.reason = "ambiguous_evidence"
      /\ cs # <<>> /\ ~weak /\ ~unclear => b.result = "ranking"
  BY <1>1, <1>2, <1>3, RankingDecides
<1>5. ASSUME cs # <<>> PROVE (strong <=> ~weak) /\ (clear <=> ~unclear)
  <2>1. PICK n \in Nat \ {0} : n = Len(cs) /\ DOMAIN cs = 1..n
    BY <1>1, <1>5
  <2>2. \A k \in 1..n : cs[k].suspicion \in Fractions /\ cs[k] \in ToSet(cs)
    <3>1. ASSUME NEW k \in 1..n PROVE cs[k].suspicion \in Fractions /\ cs[k] \in ToSet(cs)
      <4>1. cs[k] \in Candidates
        BY <1>1, <2>1
      <4>2. QED
        BY <2>1, <4>1 DEF Candidates, ToSet
    <3>2. QED
      BY <3>1
  <2>3. \A c \in ToSet(cs) : \E k \in 1..n : c = cs[k]
    BY <2>1 DEF ToSet
  <2>4. 1 \in 1..n /\ \A k \in 1..n : k = 1 \/ 1 < k
    BY <2>1
  <2>5. \A k \in 1..n : 1 < k => ~Less(cs[1].suspicion, cs[k].suspicion) /\ cs[1].key # cs[k].key
    BY <1>1, <2>1, <2>4
  <2>6. p.score \in Fractions
    BY DEF Policy
  <2>7. strong <=> ~weak
    <3>1. TopScore(cs) = cs[1].suspicion
      BY <1>5 DEF TopScore
    <3>2. ASSUME NEW k \in 1..n, ~Less(cs[k].suspicion, p.score)
          PROVE  ~Less(cs[1].suspicion, p.score)
      <4>1. CASE k = 1
        BY <3>2, <4>1
      <4>2. CASE 1 < k
        <5>1. Less(cs[1].suspicion, p.score) =>
                Less(cs[1].suspicion, cs[k].suspicion) \/ Less(cs[k].suspicion, p.score)
          BY <2>2, <2>4, <2>6, LessOrders
        <5>2. QED
          BY <2>5, <3>2, <4>2, <5>1
      <4>3. QED
        BY <2>4, <4>1, <4>2
    <3>3. QED
      BY <1>2, <2>2, <2>3, <2>4, <3>1, <3>2
  <2>8. clear <=> ~unclear
    <3>1. CASE n = 1
      <4>1. \A c \in ToSet(cs) : c = cs[1]
        <5>1. \A k \in 1..n : k = 1
          BY <3>1
        <5>2. QED
          BY <2>3, <5>1
      <4>2. clear
        BY <4>1
      <4>3. ~unclear
        BY <1>3, <2>1, <3>1 DEF Ambiguous
      <4>4. QED
        BY <4>2, <4>3
    <3>2. CASE n > 1
      <4>1. 2 \in 1..n /\ \A k \in 1..n : k = 1 \/ k = 2 \/ 2 < k
        BY <3>2
      <4>2. unclear <=> Less(Minus(cs[1].suspicion, cs[2].suspicion), p.margin)
        BY <1>3, <2>1, <3>2 DEF Ambiguous, LeadOf
      <4>3. ASSUME unclear PROVE ~clear
        BY <2>2, <2>5, <4>1, <4>2, <4>3
      <4>4. ASSUME ~unclear, NEW k \in 1..n, cs[k].key # cs[1].key
            PROVE  ~Less(Minus(cs[1].suspicion, cs[k].suspicion), p.margin)
        <5>1. CASE k = 2
          BY <4>2, <4>4, <5>1
        <5>2. CASE 2 < k
          <6>1. ~Less(cs[2].suspicion, cs[k].suspicion)
            BY <1>1, <2>1, <4>1, <5>2
          <6>2. PICK x \in Fractions, y \in Fractions, z \in Fractions :
                  x = cs[1].suspicion /\ y = cs[2].suspicion /\ z = cs[k].suspicion
            BY <2>2, <2>4, <4>1
          <6>3. ~Less(y, z) /\ ~Less(Minus(x, y), p.margin)
            BY <4>2, <4>4, <6>1, <6>2
          <6>4. ~Less(Minus(x, z), p.margin)
            BY <6>3, LeadGrows
          <6>5. QED
            BY <6>2, <6>4
        <5>3. QED
          BY <4>1, <4>4, <5>1, <5>2
      <4>5. ASSUME ~unclear PROVE clear
        BY <2>3, <4>4, <4>5
      <4>6. QED
        BY <4>3, <4>5
    <3>3. n = 1 \/ n > 1
      <4>1. n \in Int /\ n > 0
        BY <2>1
      <4>2. QED
        BY <4>1
    <3>4. QED
      BY <3>1, <3>2, <3>3
  <2>9. QED
    BY <2>7, <2>8
<1>6. QED
  BY <1>4, <1>5

-----------------------------------------------------------------------------

\* What was compiled is the ranking of the inputs and the ledger of that.
RankedFrom ==
  Compiled =>
    /\ inputs \in Telemetries /\ ~DuplicateKeys(inputs)
    /\ baseline = rank_metric_shifts(Window, inputs, policy)
    /\ ledger = compile_metric_shift_ledger(Context, Window, baseline) /\ ledger # Invalid

\* Every stage keeps the ranking and its ledger.
LEMMA RankedFromStep == Held /\ RankedFrom /\ [Next]_vars => RankedFrom'
<1> SUFFICES ASSUME Held, RankedFrom, [Next]_vars, Compiled'
             PROVE  /\ inputs' \in Telemetries /\ ~DuplicateKeys(inputs')
                    /\ baseline' = rank_metric_shifts(Window, inputs', policy')
                    /\ ledger' = compile_metric_shift_ledger(Context, Window, baseline')
                    /\ ledger' # Invalid
  BY DEF RankedFrom
<1>1. CASE Compiled /\ UNCHANGED <<policy, inputs, baseline, ledger>>
  BY <1>1 DEF RankedFrom
<1>2. CASE Compile
  <2>1. pc = "compile" /\ pc' # "failed" /\ UNCHANGED <<policy, inputs>>
    BY <1>2 DEF Compile, Compiled
  <2>2. inputs \in Telemetries
    BY <2>1 DEF Held
  <2>3. QED
    BY <1>2, <2>1, <2>2 DEF Compile, Fail, Goto
<1>3. Compile \/ (Compiled /\ UNCHANGED <<policy, inputs, baseline, ledger>>)
  <2>1. pc' \in {"propose", "parse", "verify", "persist"}
    BY DEF Compiled
  <2>2. ~Load /\ ~LoadFails /\ ~ProposeFails
    BY <2>1 DEF Load, LoadFails, ProposeFails, Goto, Fail, Requeue
  <2>3. CASE UNCHANGED vars
    BY <2>1, <2>3 DEF vars, Compiled
  <2>4. CASE Propose
    BY <2>4 DEF Propose, Compiled
  <2>5. CASE Parse
    BY <2>5 DEF Parse, Compiled
  <2>6. CASE Verify
    BY <2>6 DEF Verify, Compiled
  <2>7. QED
    BY <2>2, <2>3, <2>4, <2>5, <2>6 DEF Next
<1>4. QED
  BY <1>1, <1>2, <1>3

\* Such a ranking is sound and its decision justified.
LEMMA RankingsFollow == Held /\ RankedFrom => RankingJustified
<1> SUFFICES ASSUME Held, RankedFrom, Compiled PROVE RankingSound /\ DecisionJustified
  BY DEF RankingJustified, RankingSound, DecisionJustified
<1>1. PICK ins : ins = inputs
  OBVIOUS
<1>2. PICK p : p = policy
  OBVIOUS
<1>3. PICK b : b = baseline
  OBVIOUS
<1>4. PICK cs : cs = b.candidates
  OBVIOUS
<1>5. /\ ins \in Telemetries /\ ~DuplicateKeys(ins) /\ p \in Policies
      /\ b = rank_metric_shifts(Window, ins, p)
  BY <1>1, <1>2, <1>3 DEF RankedFrom, Held
<1>6. ins \in Seq(ToSet(ins)) /\ (\A i \in ToSet(ins) : SignalInput(i)) /\ Policy(p)
  BY <1>5, InputsSound
<1>7. p.margin \in Fractions
  <2>1. p.margin \in [n : Nat, d : Nat \ {0}]
    BY <1>5, AnalysisAssumption
  <2>2. QED
    BY <2>1 DEF Fractions
<1>8. RankingSound
  <2>0. PICK evs : evs = b.evaluations
    OBVIOUS
  <2>1. /\ {e.key : e \in ToSet(evs)} = {i.key : i \in ToSet(ins)}
        /\ {c.key : c \in ToSet(cs)} = {i.key : i \in {j \in ToSet(ins) : ScorableBy(j, p)}}
        /\ \A i \in ToSet(ins) : \A c \in ToSet(cs) :
             c.key = i.key => HasMedians(c, i) /\ Scores(c)
        /\ \A j, k \in DOMAIN cs :
             j < k => ~Less(cs[j].suspicion, cs[k].suspicion) /\ cs[j].key # cs[k].key
    <3>1. SoundlyRanked(ins, p, evs, cs)
      BY <1>4, <1>5, <1>6, <2>0, RankingIsSound
    <3>2. QED
      BY <3>1 DEF SoundlyRanked
  <2>2. \A j : Scorable(j) <=> ScorableBy(j, p)
    BY <1>2 DEF Scorable, ScorableBy
  <2>3. {j \in ToSet(ins) : Scorable(j)} = {j \in ToSet(ins) : ScorableBy(j, p)}
    BY <2>2
  <2>4. \A c : Scores(c) => (c.signed.n > 0) = (c.post_median > c.pre_median)
    BY DEF Scores
  <2>5. \A i \in ToSet(ins) : \A c \in ToSet(cs) :
          c.key = i.key =>
            /\ IsMedian2(c.pre_median, i.points, Points(i, Window.start, Window.injection))
            /\ IsMedian2(c.post_median, i.points, Points(i, Window.injection, Window.end))
            /\ (c.signed.n > 0) = (c.post_median > c.pre_median)
    BY <2>1, <2>4 DEF HasMedians
  <2>6. QED
    BY <1>1, <1>3, <1>4, <2>0, <2>1, <2>3, <2>5 DEF RankingSound
<1>9. DecisionJustified
  <2>1. PICK strong \in BOOLEAN : strong <=> \E c \in ToSet(cs) : ~Less(c.suspicion, p.score)
    OBVIOUS
  <2>2. PICK clear \in BOOLEAN :
          clear <=> \A c \in ToSet(cs) : c.key # cs[1].key =>
                      ~Less(Minus(cs[1].suspicion, c.suspicion), p.margin)
    OBVIOUS
  <2>3. /\ b.result = "ranking" <=> (cs # <<>> /\ strong /\ clear)
        /\ b.result = "abstention" =>
             b.reason = IF cs = <<>> THEN "insufficient_evidence"
                        ELSE IF ~strong THEN "weak_evidence" ELSE "ambiguous_evidence"
    BY <1>4, <1>5, <1>6, <1>7, <2>1, <2>2, DecisionIsJustified
  <2>4. PICK scores : scores = {c.suspicion : c \in ToSet(cs)}
    OBVIOUS
  <2>5. scores = {} <=> cs = <<>>
    <3>1. cs \in Seq(Candidates)
      BY <1>4, <1>5, <1>6, RankingIsSound DEF SoundlyRanked
    <3>2. scores = {} <=> DOMAIN cs = {}
      BY <2>4 DEF ToSet
    <3>3. QED
      BY <3>1, <3>2
  <2>6. strong <=> \E s \in scores : ~Less(s, p.score)
    BY <2>1, <2>4
  <2>7. QED
    BY <1>2, <1>3, <1>4, <2>2, <2>3, <2>4, <2>5, <2>6 DEF DecisionJustified
<1>10. QED
  BY <1>8, <1>9

\* A ranking's candidates are the signals with enough points, with true medians
\* and in the order of their scores, and it names a signal or abstains as the
\* scores and the margin demand: for all telemetry and policies
\* (rank_metric_shifts).
THEOREM RankingsAreJustified == Spec => []RankingJustified
<1>1. Init => Held /\ RankedFrom
  BY HeldInit DEF Init, RankedFrom, Compiled
<1>2. Held /\ RankedFrom /\ [Next]_vars => (Held /\ RankedFrom)'
  BY HeldStep, RankedFromStep
<1>3. Held /\ RankedFrom => RankingJustified
  BY RankingsFollow
<1>4. QED
  BY <1>1, <1>2, <1>3, PTL DEF Spec


-----------------------------------------------------------------------------
(* The order of the signals. *)

\* A reversed sequence has the same elements.
LEMMA ReversedHas ==
  ASSUME NEW A, NEW s \in Seq(A), NEW r, r = Reverse(s)
  PROVE  /\ r \in Seq(A) /\ Len(r) = Len(s)
         /\ Within(r, s) /\ Within(s, r)
         /\ \A j, k \in DOMAIN r : j # k =>
              \E x, y \in DOMAIN s : x # y /\ r[j] = s[x] /\ r[k] = s[y]
<1>1. PICK n \in Nat : n = Len(s) /\ DOMAIN s = 1..n
  OBVIOUS
<1>2. /\ r \in Seq(A) /\ DOMAIN r = 1..n /\ Len(r) = n
      /\ \A k \in 1..n : n - k + 1 \in 1..n /\ r[k] = s[n - k + 1]
  BY <1>1 DEF Reverse
<1>3. \A k \in 1..n : n - k + 1 \in 1..n /\ s[k] = r[n - k + 1]
  BY <1>1, <1>2
<1>4. Within(r, s) /\ Within(s, r)
  BY <1>1, <1>2, <1>3, ZenonT(40) DEF Within
<1>5. ASSUME NEW j \in 1..n, NEW k \in 1..n, j # k
      PROVE  \E x, y \in 1..n : x # y /\ r[j] = s[x] /\ r[k] = s[y]
  <2>1. n - j + 1 # n - k + 1
    BY <1>5
  <2>2. QED
    BY <1>2, <2>1
<1>6. ASSUME NEW j \in DOMAIN r, NEW k \in DOMAIN r, j # k
      PROVE  \E x, y \in DOMAIN s : x # y /\ r[j] = s[x] /\ r[k] = s[y]
  <2>1. j \in 1..n /\ k \in 1..n
    BY <1>2
  <2>2. PICK x \in 1..n, y \in 1..n : x # y /\ r[j] = s[x] /\ r[k] = s[y]
    BY <1>5, <1>6, <2>1
  <2>3. x \in DOMAIN s /\ y \in DOMAIN s
    BY <1>1
  <2>4. QED
    BY <2>2, <2>3
<1>7. Len(r) = Len(s)
  BY <1>1, <1>2
<1>8. QED
  BY <1>2, <1>4, <1>6, <1>7

\* The pairs of evaluations of which the first has the smaller key.
KeyOrder == {p \in Evaluations \X Evaluations : p[1].key < p[2].key}

\* Keys order evaluations strictly.
LEMMA KeyOrderAsymmetric ==
  /\ Asymmetric(KeyOrder)
  /\ \A x, y \in Evaluations : x.key < y.key => <<x, y>> \in KeyOrder
<1>1. \A x, y : <<x, y>> \in KeyOrder <=> x \in Evaluations /\ y \in Evaluations /\ x.key < y.key
  BY DEF KeyOrder
<1>2. \A x \in Evaluations : x.key \in Int
  BY DEF Evaluations
<1>3. QED
  BY <1>1, <1>2 DEF Asymmetric

\* A ranking evaluates each of its signals.
LEMMA EvaluationsCounted ==
  ASSUME NEW ins, ins \in Seq(ToSet(ins)), \A i \in ToSet(ins) : SignalInput(i),
         NEW p, Policy(p), NEW evs, evs = EvaluationsOf(Window, ins, p)
  PROVE  evs \in Seq(Evaluations) /\ Len(evs) = Len(ins)
<1>1. PICK raws : raws = [k \in DOMAIN ins |-> evaluate_signal(Window, ins[k], p)]
  OBVIOUS
<1>2. PICK n \in Nat : n = Len(ins) /\ DOMAIN ins = 1..n
  OBVIOUS
<1>3. ASSUME NEW k \in 1..n PROVE evaluate_signal(Window, ins[k], p) \in Evaluations
  <2>1. SignalInput(ins[k])
    BY <1>2
  <2>2. QED
    BY <2>1, SignalEvaluated
<1>4. raws \in Seq(Evaluations) /\ Len(raws) = n
  BY <1>1, <1>2, <1>3
<1>5. PICK before : before = {q \in (DOMAIN raws) \X (DOMAIN raws) : raws[q[1]].key < raws[q[2]].key}
  OBVIOUS
<1>6. \A x \in Evaluations : x.key \in Int
  BY DEF Evaluations
<1>7. WeakOrder(Len(raws), before)
  BY <1>4, <1>5, <1>6, KeysOrder
<1>8. evs = Sorted(raws, before)
  BY <1>1, <1>5 DEF EvaluationsOf, SortedByKey
<1>9. evs \in Seq(Evaluations) /\ Len(evs) = Len(raws)
  BY <1>4, <1>7, <1>8, SortedElements
<1>10. QED
  BY <1>2, <1>4, <1>9

\* The order in which the signals are listed does not show in their evaluations.
LEMMA EvaluationsIgnoreOrder ==
  ASSUME NEW ins, ins \in Seq(ToSet(ins)), \A i \in ToSet(ins) : SignalInput(i),
         ~DuplicateKeys(ins), NEW p, Policy(p)
  PROVE  EvaluationsOf(Window, Reverse(ins), p) = EvaluationsOf(Window, ins, p)
<1>1. PICK rs : rs = Reverse(ins)
  OBVIOUS
<1>2. /\ rs \in Seq(ToSet(ins)) /\ Len(rs) = Len(ins)
      /\ Within(rs, ins) /\ Within(ins, rs)
      /\ \A j, k \in DOMAIN rs : j # k =>
           \E x, y \in DOMAIN ins : x # y /\ rs[j] = ins[x] /\ rs[k] = ins[y]
  BY <1>1, ReversedHas
<1>3. ToSet(rs) = ToSet(ins)
  BY <1>2 DEF ToSet, Within
<1>4. ~DuplicateKeys(rs)
  BY <1>2 DEF DuplicateKeys
<1>5. PICK es : es = EvaluationsOf(Window, ins, p)
  OBVIOUS
<1>6. PICK fs : fs = EvaluationsOf(Window, rs, p)
  OBVIOUS
<1>7. /\ \A k \in DOMAIN es : \E i \in ToSet(ins) : es[k] = evaluate_signal(Window, i, p)
      /\ \A i \in ToSet(ins) : \E k \in DOMAIN es : es[k] = evaluate_signal(Window, i, p)
      /\ \A j, k \in DOMAIN es : j < k => es[j].key < es[k].key
  BY <1>5, RankingLists
<1>8. rs \in Seq(ToSet(rs)) /\ \A i \in ToSet(rs) : SignalInput(i)
  BY <1>2, <1>3
<1>9. /\ \A k \in DOMAIN fs : \E i \in ToSet(rs) : fs[k] = evaluate_signal(Window, i, p)
      /\ \A i \in ToSet(rs) : \E k \in DOMAIN fs : fs[k] = evaluate_signal(Window, i, p)
      /\ \A j, k \in DOMAIN fs : j < k => fs[j].key < fs[k].key
  BY <1>4, <1>6, <1>8, RankingLists
<1>10. Within(es, fs) /\ Within(fs, es)
  BY <1>3, <1>7, <1>9 DEF Within
<1>11. es \in Seq(Evaluations) /\ Len(es) = Len(ins)
  BY <1>5, EvaluationsCounted
<1>12. fs \in Seq(Evaluations) /\ Len(fs) = Len(rs)
  BY <1>6, <1>8, EvaluationsCounted
<1>13. Ascends(es, KeyOrder) /\ Ascends(fs, KeyOrder)
  <2>1. \A k \in DOMAIN es : es[k] \in Evaluations
    BY <1>11
  <2>2. \A k \in DOMAIN fs : fs[k] \in Evaluations
    BY <1>12
  <2>3. Ascends(es, KeyOrder)
    BY <1>7, <2>1, KeyOrderAsymmetric, Zenon DEF Ascends
  <2>4. Ascends(fs, KeyOrder)
    BY <1>9, <2>2, KeyOrderAsymmetric, Zenon DEF Ascends
  <2>5. QED
    BY <2>3, <2>4
<1>14. es = fs
  BY <1>2, <1>10, <1>11, <1>12, <1>13, KeyOrderAsymmetric, OneOrder
<1>15. QED
  BY <1>1, <1>5, <1>6, <1>14


\* Signals listed backwards are ranked alike.
LEMMA OrdersIrrelevant == Held /\ RankedFrom => OrderIrrelevant
<1> SUFFICES ASSUME Held, RankedFrom, Compiled,
                    NEW turned, turned = rank_metric_shifts(Window, Reverse(inputs), policy)
             PROVE  /\ turned = baseline
                    /\ compile_metric_shift_ledger(Context, Window, turned) = ledger
  BY DEF OrderIrrelevant
<1>1. /\ inputs \in Telemetries /\ ~DuplicateKeys(inputs) /\ policy \in Policies
      /\ baseline = rank_metric_shifts(Window, inputs, policy)
      /\ ledger = compile_metric_shift_ledger(Context, Window, baseline)
  BY DEF RankedFrom, Held
<1>2. inputs \in Seq(ToSet(inputs)) /\ (\A i \in ToSet(inputs) : SignalInput(i)) /\ Policy(policy)
  BY <1>1, InputsSound
<1>3. EvaluationsOf(Window, Reverse(inputs), policy) = EvaluationsOf(Window, inputs, policy)
  BY <1>1, <1>2, EvaluationsIgnoreOrder
<1>4. rank_metric_shifts(Window, Reverse(inputs), policy) =
        rank_metric_shifts(Window, inputs, policy)
  BY <1>3, Zenon DEF rank_metric_shifts
<1>5. QED
  BY <1>1, <1>4

-----------------------------------------------------------------------------
(* The unit of a signal. *)

\* Values that are doubled have twice the median.
LEMMA MedianDoubles ==
  ASSUME NEW values \in Seq(Int), values # <<>>
  PROVE  Twice(values) \in Seq(Int) /\ Twice(values) # <<>>
         /\ Median2(Twice(values)) = 2 * Median2(values)
<1>1. PICK n \in Nat : n = Len(values) /\ DOMAIN values = 1..n /\ n > 0
  OBVIOUS
<1>2. PICK ws : ws = Twice(values)
  OBVIOUS
<1>3. ws = [k \in 1..n |-> 2 * values[k]]
  BY <1>1, <1>2 DEF Twice
<1>4. \A k \in 1..n : values[k] \in Int
  BY <1>1
<1>5. ws \in Seq(Int) /\ Len(ws) = n /\ DOMAIN ws = 1..n
  BY <1>3, <1>4
<1>6. PICK before :
        before = {p \in (DOMAIN values) \X (DOMAIN values) : values[p[1]] < values[p[2]]}
  OBVIOUS
<1>7. before = {p \in (DOMAIN ws) \X (DOMAIN ws) : ws[p[1]] < ws[p[2]]}
  <2>1. \A p \in (1..n) \X (1..n) : values[p[1]] < values[p[2]] <=> ws[p[1]] < ws[p[2]]
    <3>1. \A j, k \in 1..n : values[j] < values[k] <=> ws[j] < ws[k]
      BY <1>3, <1>4
    <3>2. QED
      BY <3>1
  <2>2. QED
    BY <1>1, <1>5, <1>6, <2>1
<1>8. WeakOrder(Len(values), before)
  BY <1>6, ValuesOrdered
<1>9. PICK at : at = Places(n, before)
  OBVIOUS
<1>10. at \in [1..n -> 1..n]
  <2>1. WeakOrder(n, before)
    BY <1>1, <1>8
  <2>2. QED
    BY <1>9, <2>1, PlacesList
<1>11. Sorted(values, before) = [k \in 1..n |-> values[at[k]]]
  <2>1. Sorted(values, before) = [k \in 1..Len(values) |-> values[Places(Len(values), before)[k]]]
    BY <1>8, SortedPlaces
  <2>2. QED
    BY <1>1, <1>9, <2>1
<1>12. Sorted(ws, before) = [k \in 1..n |-> ws[at[k]]]
  <2>1. WeakOrder(Len(ws), before)
    BY <1>1, <1>5, <1>8
  <2>2. Sorted(ws, before) = [k \in 1..Len(ws) |-> ws[Places(Len(ws), before)[k]]]
    BY <1>5, <2>1, SortedPlaces
  <2>3. QED
    BY <1>5, <1>9, <2>2
<1>13. PICK s : s = Sorted(values, before)
  OBVIOUS
<1>14. PICK t : t = Sorted(ws, before)
  OBVIOUS
<1>15. Len(s) = n /\ Len(t) = n
  BY <1>11, <1>12, <1>13, <1>14
<1>16. \A k \in 1..n : s[k] \in Int /\ t[k] = 2 * s[k]
  <2>1. \A k \in 1..n : at[k] \in 1..n
    BY <1>10
  <2>2. QED
    BY <1>3, <1>4, <1>11, <1>12, <1>13, <1>14, <2>1
<1>17. (n + 1) \div 2 \in 1..n /\ n \div 2 + 1 \in 1..n
  BY <1>1
<1>18. Median2(values) = s[(n + 1) \div 2] + s[n \div 2 + 1]
  BY <1>6, <1>13, <1>15 DEF Median2
<1>19. Median2(ws) = t[(n + 1) \div 2] + t[n \div 2 + 1]
  BY <1>7, <1>14, <1>15 DEF Median2
<1>20. Median2(ws) = 2 * Median2(values)
  BY <1>16, <1>17, <1>18, <1>19
<1>21. ws # <<>>
  BY <1>1, <1>5
<1>22. QED
  BY <1>2, <1>5, <1>20, <1>21

Twofold(u, x) == u = 2 * x

\* The greatest of three doubled numbers is double the greatest.
LEMMA MaxThreeDoubles ==
  ASSUME NEW x \in Int, NEW y \in Int, NEW z \in Int,
         NEW u, Twofold(u, x), NEW v, Twofold(v, y), NEW w, Twofold(w, z),
         NEW m \in Int, m = Max({x, y, z})
  PROVE  Max({u, v, w}) = 2 * m
<1>1. u = 2 * x /\ v = 2 * y /\ w = 2 * z
  BY DEF Twofold
<1>2. \E k \in {x, y, z} : \A i \in {x, y, z} : k >= i
  <2>1. CASE x >= y /\ x >= z
    BY <2>1
  <2>2. CASE y >= x /\ y >= z
    BY <2>2
  <2>3. CASE z >= y /\ z >= x
    BY <2>3
  <2>4. QED
    BY <2>1, <2>2, <2>3
<1>3. m \in {x, y, z} /\ \A i \in {x, y, z} : m >= i
  BY <1>2 DEF Max
<1>4. PICK M : M = Max({u, v, w})
  OBVIOUS
<1>5. 2 * m \in {u, v, w} /\ \A i \in {u, v, w} : 2 * m >= i
  BY <1>1, <1>3
<1>6. M \in {u, v, w} /\ \A i \in {u, v, w} : M >= i
  BY <1>4, <1>5 DEF Max
<1>7. M = 2 * m
  BY <1>1, <1>3, <1>6
<1>8. QED
  BY <1>4, <1>7

\* The same for two numbers.
LEMMA MaxTwoDoubles ==
  ASSUME NEW x \in Int, NEW y \in Int,
         NEW u, Twofold(u, x), NEW v, Twofold(v, y),
         NEW m \in Int, m = Max({x, y})
  PROVE  Max({u, v}) = 2 * m
<1>1. u = 2 * x /\ v = 2 * y
  BY DEF Twofold
<1>2. m \in {x, y} /\ \A i \in {x, y} : m >= i
  BY DEF Max
<1>3. PICK M : M = Max({u, v})
  OBVIOUS
<1>4. 2 * m \in {u, v} /\ \A i \in {u, v} : 2 * m >= i
  BY <1>1, <1>2
<1>5. M \in {u, v} /\ \A i \in {u, v} : M >= i
  BY <1>3, <1>4 DEF Max
<1>6. M = 2 * m
  BY <1>1, <1>2, <1>5
<1>7. QED
  BY <1>3, <1>6

\* A scale doubles with its unit.
LEMMA ScaleDoubles ==
  ASSUME NEW median \in Int, NEW mad \in Int, NEW floor \in Nat \ {0}, NEW relative \in Nat
  PROVE  ScaleOf(2 * median, 2 * mad, 2 * floor, relative) = 2 * ScaleOf(median, mad, floor, relative)
<1>1. PICK a \in Int : a = AbsOf(median)
  BY DEF AbsOf
<1>2. AbsOf(2 * median) = 2 * a
  BY <1>1 DEF AbsOf
<1>3. PICK f \in Int : f = 2 * floor
  OBVIOUS
<1>4. PICK m \in Int : m = Max({a, f})
  BY MaxOfTwo
<1>5. Max({2 * a, 2 * f}) = 2 * m
  <2>1. PICK u, v : u = 2 * a /\ v = 2 * f
    OBVIOUS
  <2>2. Twofold(u, a) /\ Twofold(v, f)
    BY <2>1 DEF Twofold
  <2>3. Max({u, v}) = 2 * m
    BY <1>4, <2>2, MaxTwoDoubles
  <2>4. QED
    BY <2>1, <2>3
<1>6. PICK x \in Int : x = RobustFactor * mad /\ 2 * x = RobustFactor * (2 * mad)
  BY DEF RobustFactor
<1>7. PICK y \in Int : y = ScaleUnit * floor /\ 2 * y = ScaleUnit * (2 * floor)
  BY DEF ScaleUnit
<1>8. PICK z \in Int : z = (ScaleUnit \div 4) * relative * m
                       /\ 2 * z = (ScaleUnit \div 4) * relative * (2 * m)
  <2>1. PICK q \in Int : q = (ScaleUnit \div 4) * relative
    BY DEF ScaleUnit
  <2>2. 2 * (q * m) = q * (2 * m) /\ q * m \in Int
    OBVIOUS
  <2>3. QED
    BY <2>1, <2>2
<1>9. ScaleOf(median, mad, floor, relative) = Max({x, y, z})
  BY <1>1, <1>3, <1>4, <1>6, <1>7, <1>8 DEF ScaleOf
<1>10. ScaleOf(2 * median, 2 * mad, 2 * floor, relative) = Max({2 * x, 2 * y, 2 * z})
  BY <1>2, <1>3, <1>5, <1>6, <1>7, <1>8 DEF ScaleOf
<1>11. Max({2 * x, 2 * y, 2 * z}) = 2 * Max({x, y, z})
  <2>1. PICK u, v, w : u = 2 * x /\ v = 2 * y /\ w = 2 * z
    OBVIOUS
  <2>2. Twofold(u, x) /\ Twofold(v, y) /\ Twofold(w, z)
    BY <2>1 DEF Twofold
  <2>3. PICK c \in Int : c = Max({x, y, z})
    BY MaxOfThree
  <2>4. Max({u, v, w}) = 2 * c
    BY <2>2, <2>3, MaxThreeDoubles
  <2>5. QED
    BY <2>1, <2>3, <2>4
<1>12. QED
  BY <1>9, <1>10, <1>11

\* A doubled signal has the same points, with twice the values.
LEMMA SignalDoubles ==
  ASSUME NEW i, SignalInput(i), NEW d, d = Doubled(i)
  PROVE  /\ SignalInput(d) /\ d.key = i.key /\ d.floor = 2 * i.floor
         /\ d.points = Twice(i.points) /\ DOMAIN d.points = DOMAIN i.points
<1>1. d = [i EXCEPT !.points = Twice(i.points), !.floor = 2 * i.floor]
  BY DEF Doubled
<1>2. {"key", "points", "floor"} \subseteq DOMAIN i
  BY DEF SignalInput
<1>3. d.key = i.key /\ d.floor = 2 * i.floor /\ d.points = Twice(i.points) /\ DOMAIN d = DOMAIN i
  BY <1>1, <1>2
<1>4. DOMAIN d.points = DOMAIN i.points /\ \A t \in DOMAIN i.points : d.points[t] = 2 * i.points[t]
  BY <1>3 DEF Twice
<1>5. SignalInput(d)
  <2>1. \A t \in DOMAIN i.points : t \in Int /\ i.points[t] \in Int
    BY DEF SignalInput
  <2>2. \A t \in DOMAIN d.points : t \in Int /\ d.points[t] \in Int
    BY <1>4, <2>1
  <2>3. d.key \in Int /\ IsFiniteSet(DOMAIN d.points)
    BY <1>3, <1>4 DEF SignalInput
  <2>4. d.floor \in Nat \ {0}
    <3>1. i.floor \in Nat \ {0}
      BY DEF SignalInput
    <3>2. QED
      BY <1>3, <3>1
  <2>5. QED
    BY <1>2, <1>3, <2>2, <2>3, <2>4 DEF SignalInput
<1>6. QED
  BY <1>3, <1>4, <1>5

\* The values observed in a part of the window double with the unit.
LEMMA ValuesDouble ==
  ASSUME NEW i, SignalInput(i), NEW d, d = Doubled(i), NEW a \in Int, NEW b \in Int
  PROVE  ValuesIn(d.points, a, b) = Twice(ValuesIn(i.points, a, b))
<1>1. d.points = Twice(i.points) /\ DOMAIN d.points = DOMAIN i.points
  BY SignalDoubles
<1>2. PICK T : T = {t \in DOMAIN i.points : a <= t /\ t < b}
  OBVIOUS
<1>3. T \in SUBSET Int /\ T \subseteq DOMAIN i.points
  BY <1>2 DEF SignalInput
<1>4. IsFiniteSet(T)
  BY <1>3, FS_Subset DEF SignalInput
<1>5. PICK n \in Nat : n = Cardinality(T)
  BY <1>4, FS_CardinalityType
<1>6. PICK at : at = Ascending(T)
  OBVIOUS
<1>7. at \in [1..n -> T]
  BY <1>3, <1>4, <1>5, <1>6, AscendingLists
<1>8. ValuesIn(i.points, a, b) = [k \in 1..n |-> i.points[at[k]]]
  <2>1. Kept(i.points, T) = [k \in 1..n |-> i.points[at[k]]]
    BY <1>3, <1>4, <1>5, <1>6, KeptLists
  <2>2. QED
    BY <1>2, <2>1 DEF ValuesIn
<1>9. ValuesIn(d.points, a, b) = [k \in 1..n |-> d.points[at[k]]]
  <2>1. Kept(d.points, T) = [k \in 1..n |-> d.points[at[k]]]
    BY <1>3, <1>4, <1>5, <1>6, KeptLists
  <2>2. ValuesIn(d.points, a, b) = Kept(d.points, T)
    BY <1>1, <1>2 DEF ValuesIn
  <2>3. QED
    BY <2>1, <2>2
<1>10. \A k \in 1..n : d.points[at[k]] = 2 * i.points[at[k]]
  <2>1. \A k \in 1..n : at[k] \in DOMAIN i.points
    BY <1>3, <1>7
  <2>2. QED
    BY <1>1, <2>1 DEF Twice
<1>11. QED
  BY <1>8, <1>9, <1>10 DEF Twice

\* A signal in half the unit has the same score.
LEMMA ScoreDoubles ==
  ASSUME NEW i, SignalInput(i), NEW d, d = Doubled(i), NEW p, Policy(p),
         NEW pre \in Seq(Int), NEW post \in Seq(Int), pre # <<>>, post # <<>>,
         NEW c, c = score_candidate(i, p, pre, post),
         NEW e, e = score_candidate(d, p, Twice(pre), Twice(post))
  PROVE  e.key = c.key /\ SameScore(e.suspicion, c.suspicion)
<1>1. PICK a \in Int : a = Median2(pre)
  BY MedianWhole
<1>2. PICK b \in Int : b = Median2(post)
  BY MedianWhole
<1>3. Median2(Twice(pre)) = 2 * a /\ Median2(Twice(post)) = 2 * b
  BY <1>1, <1>2, MedianDoubles
<1>4. PICK spread : spread = [k \in DOMAIN pre |-> AbsOf(2 * pre[k] - a)]
  OBVIOUS
<1>5. PICK n \in Nat : n = Len(pre) /\ n > 0 /\ DOMAIN pre = 1..n
  OBVIOUS
<1>6. \A k \in 1..n : pre[k] \in Int /\ AbsOf(2 * pre[k] - a) \in Int
                      /\ AbsOf(2 * (2 * pre[k]) - 2 * a) = 2 * AbsOf(2 * pre[k] - a)
  <2>1. ASSUME NEW x \in Int
        PROVE  AbsOf(x) \in Int /\ AbsOf(2 * x) = 2 * AbsOf(x)
    BY DEF AbsOf
  <2>2. ASSUME NEW k \in 1..n
        PROVE  2 * pre[k] - a \in Int /\ 2 * (2 * pre[k]) - 2 * a = 2 * (2 * pre[k] - a)
    <3>1. pre[k] \in Int
      BY <1>5
    <3>2. QED
      BY <3>1
  <2>3. ASSUME NEW k \in 1..n
        PROVE  /\ pre[k] \in Int /\ AbsOf(2 * pre[k] - a) \in Int
               /\ AbsOf(2 * (2 * pre[k]) - 2 * a) = 2 * AbsOf(2 * pre[k] - a)
    <3>1. PICK x \in Int : x = 2 * pre[k] - a /\ 2 * (2 * pre[k]) - 2 * a = 2 * x
      BY <2>2
    <3>2. AbsOf(x) \in Int /\ AbsOf(2 * x) = 2 * AbsOf(x)
      BY <2>1
    <3>3. pre[k] \in Int
      BY <1>5
    <3>4. QED
      BY <3>1, <3>2, <3>3
  <2>4. QED
    BY <2>3
<1>7. spread \in Seq(Int) /\ spread # <<>>
  <2>1. spread \in Seq(Int) /\ Len(spread) = n
    BY <1>4, <1>5, <1>6
  <2>2. QED
    BY <1>5, <2>1
<1>8. PICK mad \in Int : mad = Median2(spread)
  BY <1>7, MedianWhole
<1>9. [k \in DOMAIN Twice(pre) |-> AbsOf(2 * Twice(pre)[k] - 2 * a)] = Twice(spread)
  <2>1. Twice(pre) = [k \in 1..n |-> 2 * pre[k]]
    BY <1>5 DEF Twice
  <2>2. Twice(spread) = [k \in 1..n |-> 2 * spread[k]]
    BY <1>4, <1>5 DEF Twice
  <2>3. \A k \in 1..n : spread[k] = AbsOf(2 * pre[k] - a)
    BY <1>4, <1>5
  <2>4. \A k \in 1..n : AbsOf(2 * Twice(pre)[k] - 2 * a) = 2 * spread[k]
    BY <1>6, <2>1, <2>3
  <2>5. DOMAIN Twice(pre) = 1..n
    BY <2>1
  <2>6. QED
    BY <2>2, <2>4, <2>5
<1>10. Median2(Twice(spread)) = 2 * mad
  BY <1>7, <1>8, MedianDoubles
<1>11. i.floor \in Nat \ {0} /\ p.relative \in Nat
  BY DEF SignalInput, Policy
<1>12. PICK scale \in Nat \ {0} : scale = ScaleOf(a, mad, i.floor, p.relative)
  BY <1>11, ScalePositive
<1>13. ScaleOf(2 * a, 2 * mad, 2 * i.floor, p.relative) = 2 * scale
  <2>1. PICK floor \in Nat \ {0}, relative \in Nat : floor = i.floor /\ relative = p.relative
    BY <1>11
  <2>2. ScaleOf(2 * a, 2 * mad, 2 * floor, relative) = 2 * ScaleOf(a, mad, floor, relative)
    BY ScaleDoubles
  <2>3. QED
    BY <1>12, <2>1, <2>2
<1>14. d.key = i.key /\ d.floor = 2 * i.floor
  BY SignalDoubles
<1>15. c.key = i.key /\ c.suspicion = AbsScore(SignedScore(a, b, scale))
  BY <1>1, <1>2, <1>4, <1>8, <1>12 DEF score_candidate
<1>16. e.key = i.key /\ e.suspicion = AbsScore(SignedScore(2 * a, 2 * b, 2 * scale))
  <2>1. PICK twice : twice = Twice(pre)
    OBVIOUS
  <2>2. Median2([k \in DOMAIN twice |-> AbsOf(2 * twice[k] - 2 * a)]) = 2 * mad
    BY <1>9, <1>10, <2>1
  <2>3. Median2(twice) = 2 * a
    BY <1>3, <2>1
  <2>4. e = score_candidate(d, p, twice, Twice(post))
    BY <2>1
  <2>5. QED
    BY <1>3, <1>13, <1>14, <2>2, <2>3, <2>4 DEF score_candidate
<1>17. PICK x \in Int : x = 2000 * (b - a)
  OBVIOUS
<1>18. PICK y \in Int : y = AbsOf(x) /\ AbsOf(2 * x) = 2 * y
  BY DEF AbsOf
<1>19. c.suspicion = [n |-> y, d |-> scale]
  <2>1. SignedScore(a, b, scale) = [n |-> x, d |-> scale]
    BY <1>17 DEF SignedScore, ScaleUnit
  <2>2. QED
    BY <1>15, <1>18, <2>1 DEF AbsScore
<1>20. e.suspicion = [n |-> 2 * y, d |-> 2 * scale]
  <2>1. SignedScore(2 * a, 2 * b, 2 * scale) = [n |-> 2 * x, d |-> 2 * scale]
    BY <1>17 DEF SignedScore, ScaleUnit
  <2>2. QED
    <3>1. PICK s : s = [n |-> 2 * x, d |-> 2 * scale]
      OBVIOUS
    <3>2. s.n = 2 * x /\ [s EXCEPT !.n = 2 * y] = [n |-> 2 * y, d |-> 2 * scale]
      BY <3>1
    <3>3. AbsScore(s) = [s EXCEPT !.n = 2 * y]
      BY <1>18, <3>2 DEF AbsScore
    <3>4. QED
      BY <1>16, <2>1, <3>1, <3>2, <3>3
<1>21. SameScore(e.suspicion, c.suspicion)
  <2>1. (2 * y) * scale = y * (2 * scale)
    OBVIOUS
  <2>2. QED
    BY <1>19, <1>20, <2>1 DEF SameScore, Less
<1>22. QED
  BY <1>14, <1>15, <1>16, <1>21

\* Evaluations that agree on whether there is a candidate, and on its score.
Twins(e, f) ==
  /\ e.key = f.key
  /\ e.candidate = NoCandidate <=> f.candidate = NoCandidate
  /\ f.candidate # NoCandidate => SameScore(e.candidate.suspicion, f.candidate.suspicion)

\* An evaluation in half the unit is the twin of the one in the unit.
LEMMA EvaluationDoubles ==
  ASSUME NEW i, SignalInput(i), NEW p, Policy(p)
  PROVE  Twins(evaluate_signal(Window, Doubled(i), p), evaluate_signal(Window, i, p))
<1>1. PICK d : d = Doubled(i)
  OBVIOUS
<1>2. SignalInput(d) /\ d.key = i.key
  BY <1>1, SignalDoubles
<1>3. Window.start \in Int /\ Window.injection \in Int /\ Window.end \in Int
  BY AnalysisAssumption
<1>4. PICK pre \in Seq(Int) : pre = PreValues(Window, i)
  BY <1>3, ValuesListed DEF PreValues
<1>5. PICK post \in Seq(Int) : post = PostValues(Window, i)
  BY <1>3, ValuesListed DEF PostValues
<1>6. PreValues(Window, d) = Twice(pre) /\ PostValues(Window, d) = Twice(post)
  BY <1>1, <1>3, <1>4, <1>5, ValuesDouble DEF PreValues, PostValues
<1>7. Len(Twice(pre)) = Len(pre) /\ Len(Twice(post)) = Len(post)
  <2>1. \A s \in Seq(Int) : Len(Twice(s)) = Len(s)
    BY DEF Twice
  <2>2. QED
    BY <2>1
<1>8. PICK eligible \in BOOLEAN : eligible = Enough(Len(pre), Len(post), p)
  BY DEF Enough
<1>9. PICK e : e = evaluate_signal(Window, i, p)
  OBVIOUS
<1>10. PICK f : f = evaluate_signal(Window, d, p)
  OBVIOUS
<1>11. /\ e.key = i.key /\ e.eligible = eligible
       /\ e.candidate = IF eligible THEN score_candidate(i, p, pre, post) ELSE NoCandidate
  BY <1>4, <1>5, <1>8, <1>9 DEF evaluate_signal
<1>12. /\ f.key = i.key /\ f.eligible = eligible
       /\ f.candidate = IF eligible THEN score_candidate(d, p, Twice(pre), Twice(post)) ELSE NoCandidate
  BY <1>2, <1>6, <1>7, <1>8, <1>10 DEF evaluate_signal
<1>13. Evaluates(e) /\ Evaluates(f)
  BY <1>2, <1>9, <1>10, SignalEvaluated
<1>14. ASSUME eligible PROVE SameScore(f.candidate.suspicion, e.candidate.suspicion)
  <2>1. pre # <<>> /\ post # <<>>
    <3>1. Enough(Len(pre), Len(post), p)
      BY <1>8, <1>14
    <3>2. Len(pre) >= 1 /\ Len(post) >= 1
      BY <3>1 DEF Enough, Policy
    <3>3. QED
      BY <3>2
  <2>2. PICK c : c = score_candidate(i, p, pre, post)
    OBVIOUS
  <2>3. PICK g : g = score_candidate(d, p, Twice(pre), Twice(post))
    OBVIOUS
  <2>4. SameScore(g.suspicion, c.suspicion)
    BY <1>1, <2>1, <2>2, <2>3, ScoreDoubles
  <2>5. QED
    BY <1>11, <1>12, <1>14, <2>2, <2>3, <2>4
<1>15. QED
  BY <1>1, <1>9, <1>10, <1>11, <1>12, <1>13, <1>14 DEF Twins, Evaluates

\* Sequences that are sorted in one order keep their elements side by side.
LEMMA SortedTogether ==
  ASSUME NEW A, NEW s \in Seq(A), NEW t \in Seq(A), Len(s) = Len(t),
         NEW before, WeakOrder(Len(s), before),
         NEW x, x = Sorted(s, before), NEW y, y = Sorted(t, before)
  PROVE  /\ DOMAIN x = DOMAIN y
         /\ \A k \in DOMAIN x : \E i \in DOMAIN s : x[k] = s[i] /\ y[k] = t[i]
<1>1. PICK n \in Nat : n = Len(s) /\ n = Len(t) /\ DOMAIN s = 1..n
  OBVIOUS
<1>2. PICK at : at = Places(n, before)
  OBVIOUS
<1>3. WeakOrder(n, before) /\ WeakOrder(Len(t), before)
  BY <1>1
<1>4. at \in [1..n -> 1..n]
  BY <1>2, <1>3, PlacesList
<1>5. x = [k \in 1..n |-> s[at[k]]]
  <2>1. Sorted(s, before) = [k \in 1..Len(s) |-> s[Places(Len(s), before)[k]]]
    BY SortedPlaces
  <2>2. QED
    BY <1>1, <1>2, <2>1
<1>6. y = [k \in 1..n |-> t[at[k]]]
  <2>1. Sorted(t, before) = [k \in 1..Len(t) |-> t[Places(Len(t), before)[k]]]
    BY <1>3, SortedPlaces
  <2>2. QED
    BY <1>1, <1>2, <2>1
<1>7. \A k \in 1..n : at[k] \in DOMAIN s /\ x[k] = s[at[k]] /\ y[k] = t[at[k]]
  BY <1>1, <1>4, <1>5, <1>6
<1>8. QED
  BY <1>5, <1>6, <1>7

\* Sequences of evaluations, twins side by side.
AllTwins(fs, es) == DOMAIN fs = DOMAIN es /\ \A k \in DOMAIN es : Twins(fs[k], es[k])

\* Twins are sorted alike.
LEMMA TwinsSorted ==
  ASSUME NEW es \in Seq(Evaluations), NEW fs \in Seq(Evaluations), AllTwins(fs, es)
  PROVE  AllTwins(SortedByKey(fs), SortedByKey(es))
<1>1. PICK before : before = {p \in (DOMAIN es) \X (DOMAIN es) : es[p[1]].key < es[p[2]].key}
  OBVIOUS
<1>2. \A x \in Evaluations : x.key \in Int
  BY DEF Evaluations
<1>3. WeakOrder(Len(es), before)
  BY <1>1, <1>2, KeysOrder
<1>4. DOMAIN fs = DOMAIN es /\ \A k \in DOMAIN es : fs[k].key = es[k].key
  BY DEF AllTwins, Twins
<1>5. before = {p \in (DOMAIN fs) \X (DOMAIN fs) : fs[p[1]].key < fs[p[2]].key}
  BY <1>1, <1>4
<1>6. PICK x : x = Sorted(es, before)
  OBVIOUS
<1>7. PICK y : y = Sorted(fs, before)
  OBVIOUS
<1>8. Len(es) = Len(fs)
  BY <1>4
<1>9. /\ DOMAIN x = DOMAIN y
      /\ \A k \in DOMAIN x : \E i \in DOMAIN es : x[k] = es[i] /\ y[k] = fs[i]
  BY <1>3, <1>6, <1>7, <1>8, SortedTogether
<1>10. AllTwins(y, x)
  BY <1>9 DEF AllTwins
<1>11. x = SortedByKey(es) /\ y = SortedByKey(fs)
  BY <1>1, <1>5, <1>6, <1>7 DEF SortedByKey
<1>12. QED
  BY <1>10, <1>11

\* Kept takes the same places of both.
LEMMA KeptTogether ==
  ASSUME NEW A, NEW s \in Seq(A), NEW t \in Seq(A), NEW K \in SUBSET (DOMAIN s),
         NEW x, x = Kept(s, K), NEW y, y = Kept(t, K)
  PROVE  /\ DOMAIN x = DOMAIN y
         /\ \A k \in DOMAIN x : \E i \in K : x[k] = s[i] /\ y[k] = t[i]
<1>1. IsFiniteSet(K) /\ K \in SUBSET Int
  <2>1. PICK m \in Nat : DOMAIN s = 1..m
    OBVIOUS
  <2>2. IsFiniteSet(1..m)
    BY <2>1, FiniteInterval
  <2>3. QED
    BY <2>1, <2>2, FS_Subset
<1>2. PICK at : at = Ascending(K)
  OBVIOUS
<1>3. PICK n \in Nat : n = Cardinality(K)
  BY <1>1, FS_CardinalityType
<1>4. at \in [1..n -> K]
  BY <1>1, <1>2, <1>3, AscendingLists
<1>5. x = [k \in 1..n |-> s[at[k]]]
  <2>1. Kept(s, K) = [k \in 1..Cardinality(K) |-> s[Ascending(K)[k]]]
    BY <1>1, KeptLists
  <2>2. QED
    BY <1>2, <1>3, <2>1
<1>6. y = [k \in 1..n |-> t[at[k]]]
  <2>1. Kept(t, K) = [k \in 1..Cardinality(K) |-> t[Ascending(K)[k]]]
    BY <1>1, KeptLists
  <2>2. QED
    BY <1>2, <1>3, <2>1
<1>7. \A k \in 1..n : at[k] \in K /\ x[k] = s[at[k]] /\ y[k] = t[at[k]]
  BY <1>4, <1>5, <1>6
<1>8. QED
  BY <1>5, <1>6, <1>7

\* Numbers that are the same compare alike.
LEMMA SameCompares ==
  ASSUME NEW a \in Fractions, NEW b \in Fractions, SameScore(a, b), NEW c \in Fractions
  PROVE  (Less(a, c) <=> Less(b, c)) /\ (Less(c, a) <=> Less(c, b))
<1>1. /\ Less(a, c) => Less(a, b) \/ Less(b, c)
      /\ Less(b, c) => Less(b, a) \/ Less(a, c)
      /\ Less(c, a) => Less(c, b) \/ Less(b, a)
      /\ Less(c, b) => Less(c, a) \/ Less(a, b)
  BY LessOrders
<1>2. QED
  BY <1>1 DEF SameScore

\* What is farther ahead has a greater lead.
LEMMA LeadRises ==
  ASSUME NEW a \in Fractions, NEW b \in Fractions, NEW c \in Fractions, NEW m \in Fractions,
         ~Less(c, a), ~Less(Minus(a, b), m)
  PROVE  ~Less(Minus(c, b), m)
<1>1. PICK an \in Int, bn \in Int, cn \in Int, mn \in Int :
        an = a.n /\ bn = b.n /\ cn = c.n /\ mn = m.n
  BY DEF Fractions
<1>2. PICK ad \in Int, bd \in Int, cd \in Int, md \in Int :
        ad = a.d /\ bd = b.d /\ cd = c.d /\ md = m.d /\ ad > 0 /\ bd > 0 /\ cd > 0 /\ md > 0
  BY DEF Fractions
<1>3. cn * ad - an * cd >= 0
  BY <1>1, <1>2 DEF Less
<1>4. (an * bd - bn * ad) * md - mn * (ad * bd) >= 0
  BY <1>1, <1>2 DEF Less, Minus
<1>5. ((an * bd - bn * ad) * md - mn * (ad * bd)) * cd >= 0
  BY <1>2, <1>4
<1>6. bd * md > 0
  BY <1>2
<1>7. (cn * ad - an * cd) * (bd * md) >= 0
  BY <1>3, <1>6
<1>8. ((cn * bd - bn * cd) * md - mn * (cd * bd)) * ad =
        ((an * bd - bn * ad) * md - mn * (ad * bd)) * cd + (cn * ad - an * cd) * (bd * md)
  OBVIOUS
<1>9. PICK q \in Int : q = (cn * bd - bn * cd) * md - mn * (cd * bd)
  OBVIOUS
<1>10. q * ad >= 0
  BY <1>5, <1>7, <1>8, <1>9
<1>11. q >= 0
  BY <1>2, <1>10
<1>12. (cn * bd - bn * cd) * md - mn * (cd * bd) >= 0
  BY <1>9, <1>11
<1>13. QED
  BY <1>1, <1>2, <1>12 DEF Less, Minus

\* Twins have leads that compare alike with any margin.
LEMMA SameLead ==
  ASSUME NEW a \in Fractions, NEW x \in Fractions, SameScore(a, x),
         NEW b \in Fractions, NEW y \in Fractions, SameScore(b, y), NEW m \in Fractions
  PROVE  Less(Minus(a, b), m) <=> Less(Minus(x, y), m)
<1>1. ~Less(a, x) /\ ~Less(x, a) /\ ~Less(b, y) /\ ~Less(y, b)
  BY DEF SameScore
<1>2. ~Less(Minus(a, b), m) => ~Less(Minus(x, b), m)
  BY <1>1, LeadRises
<1>3. ~Less(Minus(x, b), m) => ~Less(Minus(x, y), m)
  BY <1>1, LeadGrows
<1>4. ~Less(Minus(x, y), m) => ~Less(Minus(a, y), m)
  BY <1>1, LeadRises
<1>5. ~Less(Minus(a, y), m) => ~Less(Minus(a, b), m)
  BY <1>1, LeadGrows
<1>6. QED
  BY <1>2, <1>3, <1>4, <1>5

\* The candidates of twins are twins, place by place.
LEMMA CandidatesAlike ==
  ASSUME NEW es \in Seq(Evaluations), \A k \in DOMAIN es : Evaluates(es[k]),
         NEW fs \in Seq(Evaluations), \A k \in DOMAIN fs : Evaluates(fs[k]),
         AllTwins(fs, es),
         NEW cs, cs = CandidatesOf(es), NEW ds, ds = CandidatesOf(fs)
  PROVE  /\ DOMAIN ds = DOMAIN cs
         /\ \A k \in DOMAIN cs : ds[k].key = cs[k].key
                                 /\ SameScore(ds[k].suspicion, cs[k].suspicion)
<1>1. PICK K : K = {k \in DOMAIN es : es[k].candidate # NoCandidate}
  OBVIOUS
<1>2. /\ DOMAIN fs = DOMAIN es /\ \A k \in DOMAIN es : Twins(fs[k], es[k])
      /\ K = {k \in DOMAIN fs : fs[k].candidate # NoCandidate}
  BY <1>1 DEF AllTwins, Twins
<1>3. K \in SUBSET (DOMAIN es)
  BY <1>1
<1>4. PICK s : s = Kept(es, K)
  OBVIOUS
<1>5. PICK t : t = Kept(fs, K)
  OBVIOUS
<1>6. DOMAIN s = DOMAIN t /\ \A k \in DOMAIN s : \E i \in K : s[k] = es[i] /\ t[k] = fs[i]
  BY <1>3, <1>4, <1>5, KeptTogether
<1>7. s \in Seq(Evaluations)
  BY <1>3, <1>4, KeptElements
<1>8. PICK n \in Nat : DOMAIN s = 1..n /\ n = Len(s)
  BY <1>7
<1>9. ASSUME NEW k \in 1..n
      PROVE  /\ s[k].candidate \in Candidates /\ t[k].candidate \in Candidates
             /\ t[k].candidate.key = s[k].candidate.key
             /\ SameScore(t[k].candidate.suspicion, s[k].candidate.suspicion)
  <2>1. PICK i \in K : s[k] = es[i] /\ t[k] = fs[i]
    BY <1>6, <1>8
  <2>2. /\ i \in DOMAIN es /\ i \in DOMAIN fs
        /\ es[i].candidate # NoCandidate /\ fs[i].candidate # NoCandidate
    BY <1>1, <1>2
  <2>3. Twins(fs[i], es[i]) /\ Evaluates(es[i]) /\ Evaluates(fs[i])
    BY <1>2, <2>2
  <2>4. QED
    BY <2>1, <2>2, <2>3 DEF Twins, Evaluates
<1>10. PICK found : found = [k \in DOMAIN s |-> s[k].candidate]
  OBVIOUS
<1>11. PICK other : other = [k \in DOMAIN t |-> t[k].candidate]
  OBVIOUS
<1>12. /\ found \in Seq(Candidates) /\ DOMAIN found = 1..n /\ Len(found) = n
       /\ other \in Seq(Candidates) /\ DOMAIN other = 1..n /\ Len(other) = n
  <2>1. found = [k \in 1..n |-> s[k].candidate] /\ other = [k \in 1..n |-> t[k].candidate]
    BY <1>6, <1>8, <1>10, <1>11
  <2>2. QED
    BY <1>9, <2>1
<1>13. \A k \in 1..n : /\ found[k] \in Candidates /\ other[k] \in Candidates
                       /\ other[k].key = found[k].key
                       /\ SameScore(other[k].suspicion, found[k].suspicion)
  BY <1>6, <1>8, <1>9, <1>10, <1>11
<1>14. ASSUME NEW j \in 1..n, NEW k \in 1..n
       PROVE  BySuspicion(other[j], other[k]) <=> BySuspicion(found[j], found[k])
  <2>1. PICK a \in Fractions, b \in Fractions, x \in Fractions, y \in Fractions :
          /\ a = found[j].suspicion /\ b = found[k].suspicion
          /\ x = other[j].suspicion /\ y = other[k].suspicion
    <3>1. /\ found[j] \in Candidates /\ found[k] \in Candidates
          /\ other[j] \in Candidates /\ other[k] \in Candidates
      BY <1>13
    <3>2. QED
      BY <3>1 DEF Candidates
  <2>2. SameScore(x, a) /\ SameScore(y, b)
    BY <1>13, <2>1
  <2>3. (Less(x, y) <=> Less(a, y)) /\ (Less(y, x) <=> Less(y, a))
    BY <2>2, SameCompares
  <2>4. (Less(y, a) <=> Less(b, a)) /\ (Less(a, y) <=> Less(a, b))
    BY <2>2, SameCompares
  <2>5. other[j].key = found[j].key /\ other[k].key = found[k].key
    BY <1>13
  <2>6. QED
    BY <2>1, <2>3, <2>4, <2>5 DEF BySuspicion
<1>15. PICK before :
         before = {p \in (DOMAIN found) \X (DOMAIN found) : BySuspicion(found[p[1]], found[p[2]])}
  OBVIOUS
<1>16. before = {p \in (DOMAIN other) \X (DOMAIN other) : BySuspicion(other[p[1]], other[p[2]])}
  <2>1. \A p \in (1..n) \X (1..n) : BySuspicion(other[p[1]], other[p[2]])
                                     <=> BySuspicion(found[p[1]], found[p[2]])
    BY <1>14
  <2>2. QED
    BY <1>12, <1>15, <2>1
<1>17. WeakOrder(Len(found), before)
  <2>1. \A i, j \in DOMAIN found : <<i, j>> \in before <=> BySuspicion(found[i], found[j])
    BY <1>15
  <2>2. \A i \in DOMAIN found : found[i] \in Candidates
    BY <1>12
  <2>3. 1..Len(found) = DOMAIN found
    BY <1>12
  <2>4. \A i, j \in DOMAIN found : <<i, j>> \in before => <<j, i>> \notin before
    BY <2>1, <2>2, SuspicionOrders
  <2>5. \A i, j, k \in DOMAIN found :
          <<i, j>> \in before => <<i, k>> \in before \/ <<k, j>> \in before
    BY <2>1, <2>2, SuspicionOrders
  <2>6. QED
    BY <2>3, <2>4, <2>5, Zenon DEF WeakOrder
<1>18. cs = Sorted(found, before)
  <2>1. DOMAIN found = DOMAIN s
    BY <1>10
  <2>2. QED
    BY <1>1, <1>4, <1>10, <1>15, <2>1 DEF CandidatesOf
<1>19. ds = Sorted(other, before)
  <2>1. DOMAIN other = DOMAIN t
    BY <1>11
  <2>2. QED
    BY <1>2, <1>5, <1>11, <1>16, <2>1 DEF CandidatesOf
<1>20. /\ DOMAIN cs = DOMAIN ds
       /\ \A k \in DOMAIN cs : \E i \in DOMAIN found : cs[k] = found[i] /\ ds[k] = other[i]
  <2>1. Len(found) = Len(other) /\ found \in Seq(Candidates) /\ other \in Seq(Candidates)
    BY <1>12
  <2>2. QED
    BY <1>17, <1>18, <1>19, <2>1, SortedTogether
<1>21. QED
  BY <1>12, <1>13, <1>20

\* In half the unit the decision, the order and the scores stay the same.
LEMMA UnitsIrrelevant == Held /\ RankedFrom => UnitFree
<1> SUFFICES ASSUME Held, RankedFrom, Compiled,
                    NEW twice, twice = [k \in DOMAIN inputs |-> Doubled(inputs[k])],
                    NEW other, other = rank_metric_shifts(Window, twice, policy)
             PROVE  /\ other.result = baseline.result
                    /\ KeysOf(other.candidates) = KeysOf(baseline.candidates)
                    /\ \A k \in DOMAIN baseline.candidates :
                         SameScore(other.candidates[k].suspicion, baseline.candidates[k].suspicion)
  BY DEF UnitFree
<1>1. PICK p : p = policy
  OBVIOUS
<1>2. PICK ins : ins = inputs
  OBVIOUS
<1>3. PICK b : b = baseline
  OBVIOUS
<1>4. /\ ins \in Telemetries /\ ~DuplicateKeys(ins) /\ p \in Policies
      /\ b = rank_metric_shifts(Window, ins, p)
  BY <1>1, <1>2, <1>3 DEF RankedFrom, Held
<1>5. ins \in Seq(ToSet(ins)) /\ (\A i \in ToSet(ins) : SignalInput(i)) /\ Policy(p)
  BY <1>4, InputsSound
<1>6. p.margin \in Fractions /\ p.score \in Fractions
  <2>1. p.margin \in [n : Nat, d : Nat \ {0}]
    BY <1>4, AnalysisAssumption
  <2>2. QED
    BY <1>5, <2>1 DEF Fractions, Policy
<1>7. PICK n \in Nat : n = Len(ins) /\ DOMAIN ins = 1..n
  BY <1>5
<1>8. /\ twice = [k \in 1..n |-> Doubled(ins[k])]
      /\ \A k \in 1..n : SignalInput(ins[k]) /\ twice[k] = Doubled(ins[k]) /\ SignalInput(twice[k])
  <2>1. \A k \in 1..n : SignalInput(ins[k])
    BY <1>5, <1>7
  <2>2. twice = [k \in 1..n |-> Doubled(ins[k])]
    BY <1>2, <1>7
  <2>3. QED
    BY <2>1, <2>2, SignalDoubles
<1>9. twice \in Seq(ToSet(twice)) /\ \A i \in ToSet(twice) : SignalInput(i)
  <2>1. DOMAIN twice = 1..n
    BY <1>8
  <2>2. \A k \in 1..n : twice[k] \in ToSet(twice)
    BY <2>1 DEF ToSet
  <2>3. twice = [k \in 1..n |-> twice[k]]
    BY <1>8
  <2>4. twice \in Seq(ToSet(twice))
    BY <2>2, <2>3
  <2>5. \A i \in ToSet(twice) : SignalInput(i)
    BY <1>8, <2>1 DEF ToSet
  <2>6. QED
    BY <2>4, <2>5
<1>10. PICK raws : raws = [k \in DOMAIN ins |-> evaluate_signal(Window, ins[k], p)]
  OBVIOUS
<1>11. PICK news : news = [k \in DOMAIN twice |-> evaluate_signal(Window, twice[k], p)]
  OBVIOUS
<1>12. raws \in Seq(Evaluations) /\ news \in Seq(Evaluations) /\ AllTwins(news, raws)
  <2>1. raws = [k \in 1..n |-> evaluate_signal(Window, ins[k], p)]
    BY <1>7, <1>10
  <2>2. DOMAIN twice = 1..n
    BY <1>8
  <2>3. news = [k \in 1..n |-> evaluate_signal(Window, twice[k], p)]
    BY <1>11, <2>2
  <2>4. \A k \in 1..n : /\ evaluate_signal(Window, ins[k], p) \in Evaluations
                        /\ evaluate_signal(Window, twice[k], p) \in Evaluations
    BY <1>5, <1>8, SignalEvaluated
  <2>5. \A k \in 1..n : Twins(news[k], raws[k])
    <3>1. ASSUME NEW k \in 1..n PROVE Twins(news[k], raws[k])
      <4>1. Twins(evaluate_signal(Window, Doubled(ins[k]), p), evaluate_signal(Window, ins[k], p))
        BY <1>5, <1>8, EvaluationDoubles
      <4>2. QED
        BY <1>8, <2>1, <2>3, <4>1
    <3>2. QED
      BY <3>1
  <2>6. raws \in Seq(Evaluations) /\ news \in Seq(Evaluations)
    <3>1. raws \in [1..n -> Evaluations] /\ news \in [1..n -> Evaluations]
      BY <2>1, <2>3, <2>4
    <3>2. QED
      BY <3>1
  <2>7. QED
    BY <2>1, <2>3, <2>5, <2>6 DEF AllTwins
<1>13. PICK es : es = EvaluationsOf(Window, ins, p)
  OBVIOUS
<1>14. PICK fs : fs = EvaluationsOf(Window, twice, p)
  OBVIOUS
<1>15. AllTwins(fs, es)
  BY <1>10, <1>11, <1>12, <1>13, <1>14, TwinsSorted DEF EvaluationsOf
<1>16. PICK cs : cs = b.candidates
  OBVIOUS
<1>17. PICK ds : ds = other.candidates
  OBVIOUS
<1>18. /\ es \in Seq(Evaluations) /\ \A k \in DOMAIN es : Evaluates(es[k])
       /\ cs = CandidatesOf(es)
  BY <1>4, <1>5, <1>13, <1>16, RankingHolds
<1>19. /\ fs \in Seq(Evaluations) /\ \A k \in DOMAIN fs : Evaluates(fs[k])
       /\ ds = CandidatesOf(fs)
  <2>1. other = rank_metric_shifts(Window, twice, p)
    BY <1>1
  <2>2. QED
    BY <1>5, <1>9, <1>14, <1>17, <2>1, RankingHolds
<1>20. /\ DOMAIN ds = DOMAIN cs
       /\ \A k \in DOMAIN cs : ds[k].key = cs[k].key
                               /\ SameScore(ds[k].suspicion, cs[k].suspicion)
  BY <1>15, <1>18, <1>19, CandidatesAlike
<1>21. cs \in Seq(Candidates) /\ ds \in Seq(Candidates)
  BY <1>18, <1>19, CandidatesListed
<1>22. PICK m \in Nat : /\ DOMAIN cs = 1..m /\ DOMAIN ds = 1..m
                        /\ Len(cs) = m /\ Len(ds) = m
  BY <1>20, <1>21
<1>23. \A k \in 1..m : cs[k].suspicion \in Fractions /\ ds[k].suspicion \in Fractions
  <2>1. \A k \in 1..m : cs[k] \in Candidates /\ ds[k] \in Candidates
    BY <1>21, <1>22
  <2>2. QED
    BY <2>1 DEF Candidates
<1>24. cs = <<>> <=> ds = <<>>
  BY <1>21, <1>22
<1>25. cs # <<>> => (Less(TopScore(ds), p.score) <=> Less(TopScore(cs), p.score))
  <2>1. SUFFICES ASSUME cs # <<>> PROVE Less(TopScore(ds), p.score) <=> Less(TopScore(cs), p.score)
    OBVIOUS
  <2>2. 1 \in 1..m
    BY <1>21, <1>22, <2>1
  <2>3. PICK x \in Fractions, y \in Fractions : x = ds[1].suspicion /\ y = cs[1].suspicion
    BY <1>23, <2>2
  <2>4. SameScore(x, y)
    BY <1>20, <1>22, <2>2, <2>3
  <2>5. Less(x, p.score) <=> Less(y, p.score)
    BY <1>6, <2>4, SameCompares
  <2>6. TopScore(ds) = x /\ TopScore(cs) = y
    BY <1>24, <2>1, <2>3 DEF TopScore
  <2>7. QED
    BY <2>5, <2>6
<1>26. Ambiguous(p, ds) <=> Ambiguous(p, cs)
  <2>1. CASE m > 1
    <3>1. 1 \in 1..m /\ 2 \in 1..m
      BY <2>1
    <3>2. PICK a \in Fractions, x \in Fractions, b2 \in Fractions, y \in Fractions :
            a = ds[1].suspicion /\ x = cs[1].suspicion /\ b2 = ds[2].suspicion /\ y = cs[2].suspicion
      BY <1>23, <3>1
    <3>3. SameScore(a, x) /\ SameScore(b2, y)
      BY <1>20, <1>22, <3>1, <3>2
    <3>4. Less(Minus(a, b2), p.margin) <=> Less(Minus(x, y), p.margin)
      BY <1>6, <3>3, SameLead
    <3>5. LeadOf(ds) = Minus(a, b2) /\ LeadOf(cs) = Minus(x, y)
      BY <3>2 DEF LeadOf
    <3>6. QED
      BY <1>22, <2>1, <3>4, <3>5 DEF Ambiguous
  <2>2. CASE ~(m > 1)
    BY <1>22, <2>2 DEF Ambiguous
  <2>3. QED
    BY <2>1, <2>2
<1>27. other.result = b.result
  <2>1. PICK few \in BOOLEAN : few <=> cs = <<>>
    OBVIOUS
  <2>2. PICK weak \in BOOLEAN : weak <=> Less(TopScore(cs), p.score)
    BY DEF Less
  <2>3. PICK unclear \in BOOLEAN : unclear <=> Ambiguous(p, cs)
    BY DEF Ambiguous
  <2>4. b.result = IF few \/ weak \/ unclear THEN "abstention" ELSE "ranking"
    BY <1>4, <1>13, <1>18, <2>1, <2>2, <2>3, RankingDecides
  <2>5. other.result = IF few \/ weak \/ unclear THEN "abstention" ELSE "ranking"
    <3>1. other = rank_metric_shifts(Window, twice, p)
      BY <1>1
    <3>2. /\ ds = <<>> => other.result = "abstention"
          /\ ds # <<>> /\ Less(TopScore(ds), p.score) => other.result = "abstention"
          /\ ds # <<>> /\ ~Less(TopScore(ds), p.score) /\ Ambiguous(p, ds) =>
               other.result = "abstention"
          /\ ds # <<>> /\ ~Less(TopScore(ds), p.score) /\ ~Ambiguous(p, ds) =>
               other.result = "ranking"
      BY <1>14, <1>19, <3>1, RankingDecides
    <3>3. QED
      BY <1>24, <1>25, <1>26, <2>1, <2>2, <2>3, <3>2
  <2>6. QED
    BY <2>4, <2>5
<1>28. KeysOf(ds) = KeysOf(cs)
  <2>1. KeysOf(ds) = [k \in 1..m |-> ds[k].key] /\ KeysOf(cs) = [k \in 1..m |-> cs[k].key]
    BY <1>22 DEF KeysOf
  <2>2. \A k \in 1..m : ds[k].key = cs[k].key
    BY <1>20, <1>22
  <2>3. QED
    BY <2>1, <2>2
<1>29. QED
  BY <1>3, <1>16, <1>17, <1>20, <1>27, <1>28

\* Neither the order in which signals are listed nor the unit one is measured in
\* changes the decision or the order of the candidates, whatever the telemetry
\* and the policy (rank_metric_shifts, _score_candidate).
THEOREM RankingsAreNeutral == Spec => []RankingNeutral
<1>1. Init => Held /\ RankedFrom
  BY HeldInit DEF Init, RankedFrom, Compiled
<1>2. Held /\ RankedFrom /\ [Next]_vars => (Held /\ RankedFrom)'
  BY HeldStep, RankedFromStep
<1>3. Held /\ RankedFrom => RankingNeutral
  BY OrdersIrrelevant, UnitsIrrelevant DEF RankingNeutral
<1>4. QED
  BY <1>1, <1>2, <1>3, PTL DEF Spec

-----------------------------------------------------------------------------
(***************************************************************************)
(* What the stages accept of one another, and what the validators refuse.   *)
(***************************************************************************)

-----------------------------------------------------------------------------
(* What one stage computes the next accepts. *)

\* What the constructor of a policy demands besides.
Demands(p) == Policy(p) /\ p.score.n >= 0 /\ p.margin \in Fractions /\ p.margin.n >= 0

\* The median of distances is none below zero.
LEMMA MedianNatural ==
  ASSUME NEW values \in Seq(Nat), values # <<>>
  PROVE  Median2(values) \in Nat
<1>1. PICK n \in Nat : n = Len(values) /\ n > 0 /\ DOMAIN values = 1..n
  OBVIOUS
<1>2. PICK before : before = {p \in (DOMAIN values) \X (DOMAIN values) : values[p[1]] < values[p[2]]}
  OBVIOUS
<1>3. PICK s : s = Sorted(values, before)
  OBVIOUS
<1>4. WeakOrder(Len(values), before)
  <2>1. values \in Seq(Int)
    OBVIOUS
  <2>2. QED
    BY <1>2, <2>1, ValuesOrdered
<1>5. s \in Seq(Nat) /\ Len(s) = Len(values)
  BY <1>3, <1>4, SortedElements
<1>6. Len(s) = n
  BY <1>1, <1>5
<1>7. (n + 1) \div 2 \in 1..n /\ n \div 2 + 1 \in 1..n
  BY <1>1
<1>8. Median2(values) = s[(Len(s) + 1) \div 2] + s[Len(s) \div 2 + 1]
  BY <1>2, <1>3 DEF Median2
<1>9. QED
  BY <1>5, <1>6, <1>7, <1>8

\* A candidate passes the checks of the ledger's validator.
LEMMA CandidateIsValid ==
  ASSUME NEW i, SignalInput(i), NEW p, Policy(p),
         NEW pre \in Seq(Int), NEW post \in Seq(Int), pre # <<>>, post # <<>>,
         NEW c, c = score_candidate(i, p, pre, post),
         NEW e, e.key = i.key, e.floor = i.floor, e.pre_count = Len(pre), e.post_count = Len(post)
  PROVE  ValidCandidate(c, e, p)
<1>1. PICK a \in Int : a = Median2(pre)
  BY MedianWhole
<1>2. PICK b \in Int : b = Median2(post)
  BY MedianWhole
<1>3. PICK spread : spread = [k \in DOMAIN pre |-> AbsOf(2 * pre[k] - a)]
  OBVIOUS
<1>4. spread \in Seq(Nat) /\ spread # <<>>
  <2>1. PICK n \in Nat : n = Len(pre) /\ n > 0 /\ DOMAIN pre = 1..n
    OBVIOUS
  <2>2. \A k \in 1..n : AbsOf(2 * pre[k] - a) \in Nat
    BY <2>1, SMTT(40) DEF AbsOf
  <2>3. spread \in Seq(Nat) /\ Len(spread) = n
    BY <1>3, <2>1, <2>2
  <2>4. QED
    BY <2>1, <2>3
<1>5. PICK mad \in Nat : mad = Median2(spread)
  BY <1>4, MedianNatural
<1>6. i.floor \in Nat \ {0} /\ i.key \in Int /\ p.relative \in Nat
  BY DEF SignalInput, Policy
<1>7. PICK scale \in Nat \ {0} : scale = ScaleOf(a, mad, i.floor, p.relative)
  <2>1. mad \in Int
    OBVIOUS
  <2>2. QED
    BY <1>6, <2>1, ScalePositive
<1>8. PICK signed : signed = SignedScore(a, b, scale)
  OBVIOUS
<1>9. PICK suspicion : suspicion = AbsScore(signed)
  OBVIOUS
<1>10. suspicion.n >= 0
  <2>1. PICK x \in Int : x = (ScaleUnit \div 2) * (b - a)
    BY DEF ScaleUnit
  <2>2. signed = [n |-> x, d |-> scale]
    BY <1>8, <2>1 DEF SignedScore
  <2>3. suspicion = [n |-> AbsOf(x), d |-> scale]
    BY <1>9, <2>2 DEF AbsScore
  <2>4. QED
    BY <2>3 DEF AbsOf
<1>11. c = [key |-> i.key, pre_count |-> Len(pre), post_count |-> Len(post),
            pre_median |-> a, post_median |-> b, pre_mad |-> mad,
            floor |-> i.floor, relative |-> p.relative,
            scale |-> scale, signed |-> signed, suspicion |-> suspicion]
  BY <1>1, <1>2, <1>3, <1>5, <1>7, <1>8, <1>9 DEF score_candidate
<1>12. /\ c.key = i.key /\ c.pre_count = Len(pre) /\ c.post_count = Len(post)
       /\ c.pre_median = a /\ c.post_median = b /\ c.pre_mad = mad /\ c.floor = i.floor
       /\ c.relative = p.relative /\ c.scale = scale /\ c.signed = signed
       /\ c.suspicion = suspicion
  BY <1>11
<1>13. c.pre_mad >= 0 /\ c.floor > 0 /\ c.scale > 0 /\ c.suspicion.n >= 0
  BY <1>6, <1>10, <1>12
<1>14. QED
  BY <1>7, <1>8, <1>9, <1>12, <1>13 DEF ValidCandidate

\* So does every evaluation.
LEMMA EvaluationIsValid ==
  ASSUME NEW i, SignalInput(i), NEW p, Policy(p), NEW e, e = evaluate_signal(Window, i, p)
  PROVE  ValidEvaluation(e, p)
<1>1. Window.start \in Int /\ Window.injection \in Int /\ Window.end \in Int
  BY AnalysisAssumption
<1>2. PICK pre \in Seq(Int) : pre = PreValues(Window, i)
  BY <1>1, ValuesListed DEF PreValues
<1>3. PICK post \in Seq(Int) : post = PostValues(Window, i)
  BY <1>1, ValuesListed DEF PostValues
<1>4. PICK eligible \in BOOLEAN : eligible = Enough(Len(pre), Len(post), p)
  BY DEF Enough
<1>5. PICK c : c = IF eligible THEN score_candidate(i, p, pre, post) ELSE NoCandidate
  OBVIOUS
<1>6. e = [key |-> i.key, floor |-> i.floor, pre_count |-> Len(pre), post_count |-> Len(post),
           eligible |-> eligible, candidate |-> c]
  BY <1>2, <1>3, <1>4, <1>5 DEF evaluate_signal
<1>7. /\ e.key = i.key /\ e.floor = i.floor /\ e.pre_count = Len(pre)
      /\ e.post_count = Len(post) /\ e.eligible = eligible /\ e.candidate = c
  BY <1>6
<1>8. ASSUME eligible PROVE ValidCandidate(c, e, p)
  <2>1. pre # <<>> /\ post # <<>>
    <3>1. Enough(Len(pre), Len(post), p)
      BY <1>4, <1>8
    <3>2. Len(pre) >= 1 /\ Len(post) >= 1
      BY <3>1 DEF Enough, Policy
    <3>3. QED
      BY <3>2
  <2>2. c = score_candidate(i, p, pre, post)
    BY <1>5, <1>8
  <2>3. QED
    BY <1>7, <2>1, <2>2, CandidateIsValid
<1>9. Evaluates(e)
  BY SignalEvaluated
<1>10. (c # NoCandidate) = eligible
  <2>1. c # NoCandidate <=> eligible
    BY <1>7, <1>9 DEF Evaluates
  <2>2. QED
    BY <2>1
<1>11. e.floor > 0 /\ e.pre_count >= 0 /\ e.post_count >= 0
  BY <1>7 DEF SignalInput
<1>12. QED
  BY <1>4, <1>7, <1>8, <1>10, <1>11 DEF ValidEvaluation

\* Sorting by key leaves alone what ascends already.
LEMMA SortedIdle ==
  ASSUME NEW evs \in Seq(Evaluations), \A j, k \in DOMAIN evs : j < k => evs[j].key < evs[k].key
  PROVE  SortedByKey(evs) = evs
<1>1. PICK s : s = SortedByKey(evs)
  OBVIOUS
<1>2. \A x \in Evaluations : x.key \in Int
  BY DEF Evaluations
<1>3. Distinct(evs, "key")
  <2>1. ASSUME NEW j \in DOMAIN evs, NEW k \in DOMAIN evs, j # k PROVE evs[j].key # evs[k].key
    <3>1. evs[j].key \in Int /\ evs[k].key \in Int
      BY <1>2
    <3>2. j < k \/ k < j
      BY <2>1
    <3>3. QED
      BY <3>1, <3>2
  <2>2. QED
    BY <2>1 DEF Distinct
<1>4. PICK before : before = {p \in (DOMAIN evs) \X (DOMAIN evs) : evs[p[1]].key < evs[p[2]].key}
  OBVIOUS
<1>5. WeakOrder(Len(evs), before)
  BY <1>2, <1>4, KeysOrder
<1>6. s = Sorted(evs, before)
  BY <1>1, <1>4 DEF SortedByKey
<1>7. s \in Seq(Evaluations) /\ Len(s) = Len(evs) /\ Within(s, evs) /\ Within(evs, s)
  <2>1. /\ s \in Seq(Evaluations) /\ Len(s) = Len(evs)
        /\ \A k \in DOMAIN s : \E i \in DOMAIN evs : s[k] = evs[i]
        /\ \A i \in DOMAIN evs : \E k \in DOMAIN s : s[k] = evs[i]
    BY <1>5, <1>6, SortedElements
  <2>2. QED
    BY <2>1 DEF Within
<1>8. \A j, k \in DOMAIN s : j < k => s[j].key < s[k].key
  BY <1>1, <1>2, <1>3, KeysAscend
<1>9. Ascends(s, KeyOrder) /\ Ascends(evs, KeyOrder)
  <2>1. \A k \in DOMAIN s : s[k] \in Evaluations
    BY <1>7
  <2>2. \A k \in DOMAIN evs : evs[k] \in Evaluations
    OBVIOUS
  <2>3. Ascends(s, KeyOrder)
    BY <1>8, <2>1, KeyOrderAsymmetric, Zenon DEF Ascends
  <2>4. Ascends(evs, KeyOrder)
    BY <2>2, KeyOrderAsymmetric, Zenon DEF Ascends
  <2>5. QED
    BY <2>3, <2>4
<1>10. s = evs
  BY <1>7, <1>9, KeyOrderAsymmetric, OneOrder
<1>11. QED
  BY <1>1, <1>10

\* Evaluations as a ranking lists them.
Listed(evs, p) ==
  /\ evs \in Seq(Evaluations)
  /\ \A k \in DOMAIN evs : Evaluates(evs[k]) /\ ValidEvaluation(evs[k], p)
  /\ \A j, k \in DOMAIN evs : j < k => evs[j].key < evs[k].key

\* A ranking evaluates its signals into such a list.
LEMMA RankingListed ==
  ASSUME NEW ins, ins \in Seq(ToSet(ins)), \A i \in ToSet(ins) : SignalInput(i),
         ~DuplicateKeys(ins),
         NEW p, Policy(p), NEW evs, evs = EvaluationsOf(Window, ins, p)
  PROVE  Listed(evs, p)
<1>1. /\ \A k \in DOMAIN evs : \E i \in ToSet(ins) : evs[k] = evaluate_signal(Window, i, p)
      /\ \A j, k \in DOMAIN evs : j < k => evs[j].key < evs[k].key
  BY RankingLists
<1>2. evs \in Seq(Evaluations)
  BY EvaluationsCounted
<1>3. ASSUME NEW k \in DOMAIN evs PROVE Evaluates(evs[k]) /\ ValidEvaluation(evs[k], p)
  <2>1. PICK i \in ToSet(ins) : evs[k] = evaluate_signal(Window, i, p)
    BY <1>1
  <2>2. SignalInput(i)
    OBVIOUS
  <2>3. QED
    BY <2>1, <2>2, SignalEvaluated, EvaluationIsValid
<1>4. QED
  BY <1>1, <1>2, <1>3 DEF Listed

\* No lead is below zero.
LEMMA LeadNatural ==
  ASSUME NEW a \in Fractions, NEW b \in Fractions, ~Less(a, b)
  PROVE  /\ Minus(a, b).n >= 0 /\ Minus(a, b) # NoScore /\ Minus(a, b) # Infinite
<1>1. PICK an \in Int, bn \in Int, ad \in Int, bd \in Int :
        an = a.n /\ bn = b.n /\ ad = a.d /\ bd = b.d
  BY DEF Fractions
<1>2. an * bd - bn * ad >= 0
  BY <1>1 DEF Less
<1>3. PICK x : x = Minus(a, b)
  OBVIOUS
<1>4. x = [n |-> an * bd - bn * ad, d |-> ad * bd]
  BY <1>1, <1>3 DEF Minus
<1>5. x.n = an * bd - bn * ad /\ "n" \in DOMAIN x
  BY <1>4
<1>6. x # NoScore /\ x # Infinite
  <2>1. "n" \notin DOMAIN NoScore /\ "n" \notin DOMAIN Infinite
    BY DEF NoScore, Infinite
  <2>2. QED
    BY <1>5, <2>1
<1>7. QED
  BY <1>2, <1>3, <1>5, <1>6

\* The decision the candidates lead to.
DecisionOf(p, cs) ==
  IF ExpectedReason(p, cs) = "none"
  THEN Decision("ranking", "none", cs, IF Len(cs) = 1 THEN NoScore ELSE LeadOf(cs))
  ELSE Decision("abstention", ExpectedReason(p, cs), cs, NoScore)

\* What the candidates of a ranking are like.
Placed(cs) ==
  /\ cs \in Seq(Candidates)
  /\ \A k \in DOMAIN cs : cs[k].suspicion.n >= 0
  /\ \A j, k \in DOMAIN cs :
       j < k => ~Less(cs[j].suspicion, cs[k].suspicion) /\ cs[j].key # cs[k].key

\* The candidates of such a list are placed like that.
LEMMA CandidatesPlaced ==
  ASSUME NEW p, NEW evs, Listed(evs, p), NEW cs, cs = CandidatesOf(evs)
  PROVE  Placed(cs)
<1>1. /\ evs \in Seq(Evaluations) /\ \A k \in DOMAIN evs : Evaluates(evs[k])
      /\ \A j, k \in DOMAIN evs : j < k => evs[j].key < evs[k].key
  BY DEF Listed
<1>2. /\ cs \in Seq(Candidates)
      /\ \A k \in DOMAIN cs : \E i \in DOMAIN evs : cs[k] = evs[i].candidate
  BY <1>1, CandidatesListed
<1>3. ASSUME NEW k \in DOMAIN cs PROVE cs[k].suspicion.n >= 0
  <2>1. PICK i \in DOMAIN evs : cs[k] = evs[i].candidate
    BY <1>2
  <2>2. cs[k] # NoCandidate
    BY <1>2, NoCandidateIsNone
  <2>3. ValidCandidate(evs[i].candidate, evs[i], p)
    <3>1. ValidEvaluation(evs[i], p) /\ Evaluates(evs[i])
      BY DEF Listed
    <3>2. QED
      BY <2>1, <2>2, <3>1 DEF ValidEvaluation, Evaluates
  <2>4. QED
    BY <2>1, <2>3 DEF ValidCandidate
<1>4. \A j, k \in DOMAIN cs : j < k => ~BySuspicion(cs[k], cs[j]) /\ cs[j].key # cs[k].key
  BY <1>1, CandidatesOrdered
<1>5. QED
  BY <1>2, <1>3, <1>4 DEF Placed, BySuspicion

\* The ledger records what the ranking decided.
LEMMA DecisionRecorded ==
  ASSUME NEW ins, NEW p, Demands(p), NEW b, b = rank_metric_shifts(Window, ins, p),
         NEW cs, cs = CandidatesOf(EvaluationsOf(Window, ins, p)), Placed(cs)
  PROVE  decision(b, p, cs) = DecisionOf(p, cs)
<1>1. PICK evs : evs = EvaluationsOf(Window, ins, p)
  OBVIOUS
<1>2. PICK top : top = TopScore(cs)
  OBVIOUS
<1>3. PICK second : second = SecondScore(cs)
  OBVIOUS
<1>4. PICK lead : lead = IF Len(cs) = 1 THEN Infinite ELSE LeadOf(cs)
  OBVIOUS
<1> DEFINE Abstain(r) == [result |-> "abstention", reason |-> r, count |-> Len(cs),
                          top |-> top, second |-> second,
                          policy |-> p, evaluations |-> evs, candidates |-> cs]
           ranking == [result |-> "ranking", lead |-> lead,
                       policy |-> p, evaluations |-> evs, candidates |-> cs]
<1>5. b = IF cs = <<>> THEN Abstain("insufficient_evidence")
          ELSE IF Less(top, p.score) THEN Abstain("weak_evidence")
          ELSE IF Ambiguous(p, cs) THEN Abstain("ambiguous_evidence")
          ELSE ranking
  BY <1>1, <1>2, <1>3, <1>4, Zenon DEF rank_metric_shifts
<1>6. PICK reason : reason = ExpectedReason(p, cs)
  OBVIOUS
<1>7. reason = IF cs = <<>> THEN "insufficient_evidence"
               ELSE IF Less(top, p.score) THEN "weak_evidence"
               ELSE IF Ambiguous(p, cs) THEN "ambiguous_evidence" ELSE "none"
  BY <1>2, <1>6 DEF ExpectedReason
<1>8. b = IF reason = "none" THEN ranking ELSE Abstain(reason)
  <2> HIDE DEF Abstain, ranking
  <2>1. QED
    BY <1>5, <1>7
<1>9. CASE reason # "none"
  <2>1. b = Abstain(reason)
    BY <1>8, <1>9
  <2>2. /\ b.result = "abstention" /\ b.reason = reason /\ b.count = Len(cs)
        /\ b.top = top /\ b.second = second /\ b.candidates = cs
    BY <2>1
  <2>3. AbstentionAgrees(b, p, cs)
    BY <1>2, <1>3, <1>6, <2>2 DEF AbstentionAgrees
  <2>4. decision(b, p, cs) = Decision("abstention", reason, cs, NoScore)
    BY <2>2, <2>3 DEF decision
  <2>5. QED
    BY <1>6, <1>9, <2>4 DEF DecisionOf
<1>10. CASE reason = "none"
  <2>1. b = ranking
    BY <1>8, <1>10
  <2>2. b.result = "ranking" /\ b.lead = lead /\ b.candidates = cs
    BY <2>1
  <2>3. cs # <<>> /\ ~Less(top, p.score) /\ ~Ambiguous(p, cs)
    BY <1>7, <1>10
  <2>4. PICK n \in Nat : n = Len(cs) /\ n > 0 /\ DOMAIN cs = 1..n
    BY <2>3 DEF Placed
  <2>5. ASSUME n # 1
        PROVE  lead = LeadOf(cs) /\ lead.n >= 0 /\ ~Less(lead, p.margin)
    <3>1. lead = LeadOf(cs)
      BY <1>4, <2>4, <2>5
    <3>2. /\ 1 \in DOMAIN cs /\ 2 \in DOMAIN cs
          /\ cs[1].suspicion \in Fractions /\ cs[2].suspicion \in Fractions
      <4>1. 1 \in DOMAIN cs /\ 2 \in DOMAIN cs
        BY <2>4, <2>5
      <4>2. cs[1] \in Candidates /\ cs[2] \in Candidates
        BY <4>1 DEF Placed
      <4>3. QED
        BY <4>1, <4>2 DEF Candidates
    <3>3. ~Less(cs[1].suspicion, cs[2].suspicion)
      BY <3>2 DEF Placed
    <3>4. LeadOf(cs).n >= 0
      BY <3>2, <3>3, LeadNatural DEF LeadOf
    <3>5. ~Less(LeadOf(cs), p.margin)
      BY <2>3, <2>4, <2>5 DEF Ambiguous
    <3>6. QED
      BY <3>1, <3>4, <3>5
  <2>6. n = 1 => lead = Infinite
    BY <1>4, <2>4
  <2>7. RankingAgrees(b, p, cs)
    BY <1>2, <2>2, <2>3, <2>4, <2>5, <2>6 DEF RankingAgrees
  <2>8. decision(b, p, cs) =
          Decision("ranking", "none", cs, IF Len(cs) = 1 THEN NoScore ELSE lead)
    BY <2>2, <2>7 DEF decision
  <2>9. decision(b, p, cs) =
          Decision("ranking", "none", cs, IF Len(cs) = 1 THEN NoScore ELSE LeadOf(cs))
    <3>1. CASE n = 1
      BY <2>4, <2>8, <3>1
    <3>2. CASE n # 1
      BY <2>4, <2>5, <2>8, <3>2
    <3>3. QED
      BY <3>1, <3>2
  <2>10. QED
    BY <1>6, <1>10, <2>9 DEF DecisionOf
<1>11. QED
  BY <1>9, <1>10

\* The validator of ledgers and their serialiser agree to that decision.
LEMMA DecisionAccepted ==
  ASSUME NEW p, Demands(p), NEW cs, Placed(cs), NEW d, d = DecisionOf(p, cs)
  PROVE  d # Invalid /\ ledger_decision(d, p, cs) /\ DecisionSerialises(d)
<1>1. PICK top : top = TopScore(cs)
  OBVIOUS
<1>2. PICK second : second = SecondScore(cs)
  OBVIOUS
<1>3. PICK reason : reason = ExpectedReason(p, cs)
  OBVIOUS
<1>4. PICK kind : kind = IF reason = "none" THEN "ranking" ELSE "abstention"
  OBVIOUS
<1>5. PICK lead : lead = IF reason = "none" /\ Len(cs) # 1 THEN LeadOf(cs) ELSE NoScore
  OBVIOUS
<1>6. d = [kind |-> kind, reason |-> reason, keys |-> KeysOf(cs), count |-> Len(cs),
           top |-> top, second |-> second, lead |-> lead]
  <2>1. CASE reason = "none" /\ Len(cs) = 1
    BY <1>1, <1>2, <1>3, <1>4, <1>5, <2>1 DEF DecisionOf, Decision
  <2>2. CASE reason = "none" /\ Len(cs) # 1
    BY <1>1, <1>2, <1>3, <1>4, <1>5, <2>2 DEF DecisionOf, Decision
  <2>3. CASE reason # "none"
    BY <1>1, <1>2, <1>3, <1>4, <1>5, <2>3 DEF DecisionOf, Decision
  <2>4. QED
    BY <2>1, <2>2, <2>3
<1>7. /\ d.kind = kind /\ d.reason = reason /\ d.keys = KeysOf(cs) /\ d.count = Len(cs)
      /\ d.top = top /\ d.second = second /\ d.lead = lead
  BY <1>6
<1>8. PICK n \in Nat : n = Len(cs) /\ DOMAIN cs = 1..n /\ (n = 0 <=> cs = <<>>)
  BY DEF Placed
<1>9. \A k \in 1..n : cs[k].suspicion \in Fractions /\ cs[k].suspicion.n >= 0
  <2>1. ASSUME NEW k \in 1..n PROVE cs[k].suspicion \in Fractions /\ cs[k].suspicion.n >= 0
    <3>1. cs[k] \in Candidates /\ cs[k].suspicion.n >= 0
      BY <1>8 DEF Placed
    <3>2. QED
      BY <3>1 DEF Candidates
  <2>2. QED
    BY <2>1
<1>10. top = NoScore \/ top.n >= 0
  BY <1>1, <1>8, <1>9 DEF TopScore
<1>11. second = NoScore \/ second.n >= 0
  BY <1>2, <1>8, <1>9 DEF SecondScore
<1>12. reason = "none" => cs # <<>> /\ ~Less(top, p.score) /\ ~Ambiguous(p, cs)
  BY <1>1, <1>3 DEF ExpectedReason
<1>13. ASSUME reason = "none", n # 1
       PROVE  /\ lead = LeadOf(cs) /\ lead.n >= 0 /\ lead # NoScore
              /\ ~Less(lead, p.margin)
  <2>1. lead = LeadOf(cs)
    BY <1>5, <1>8, <1>13
  <2>2. n > 1
    BY <1>8, <1>12, <1>13
  <2>3. ~Less(cs[1].suspicion, cs[2].suspicion)
    BY <1>8, <2>2 DEF Placed
  <2>4. LeadOf(cs).n >= 0 /\ LeadOf(cs) # NoScore
    BY <1>9, <2>2, <2>3, LeadNatural DEF LeadOf
  <2>5. ~Less(LeadOf(cs), p.margin)
    BY <1>8, <1>12, <1>13, <2>2 DEF Ambiguous
  <2>6. QED
    BY <2>1, <2>4, <2>5
<1>14. reason # "none" \/ n = 1 => lead = NoScore
  BY <1>5, <1>8
<1>15. d # Invalid
  <2>1. "kind" \in DOMAIN d
    BY <1>6
  <2>2. "kind" \notin DOMAIN Invalid
    BY DEF Invalid
  <2>3. QED
    BY <2>1, <2>2
<1>16. ledger_decision(d, p, cs)
  <2>1. CASE reason = "none"
    <3>1. kind = "ranking"
      BY <1>4, <2>1
    <3>2. QED
      BY <1>1, <1>2, <1>7, <1>8, <1>12, <1>13, <1>14, <2>1, <3>1 DEF ledger_decision
  <2>2. CASE reason # "none"
    <3>1. kind = "abstention"
      BY <1>4, <2>2
    <3>2. QED
      BY <1>1, <1>2, <1>3, <1>7, <1>14, <2>2, <3>1 DEF ledger_decision
  <2>3. QED
    BY <2>1, <2>2
<1>17. DecisionSerialises(d)
  <2>1. (d.kind = "ranking") = (d.reason = "none")
    <3>1. d.kind = "ranking" <=> d.reason = "none"
      BY <1>4, <1>7
    <3>2. QED
      BY <3>1
  <2>2. PICK keys : keys = KeysOf(cs)
    OBVIOUS
  <2>3. keys = [k \in 1..n |-> cs[k].key]
    BY <1>8, <2>2 DEF KeysOf
  <2>4. \A k \in 1..n : cs[k].key \in Int
    <3>1. \A k \in 1..n : cs[k] \in Candidates
      BY <1>8 DEF Placed
    <3>2. QED
      BY <3>1 DEF Candidates
  <2>5. keys \in Seq(Int) /\ Len(keys) = n
    BY <2>3, <2>4
  <2>6. \A j, k \in 1..n : j < k => cs[j].key # cs[k].key
    BY <1>8 DEF Placed
  <2>7. IsInjective(keys)
    <3>1. \A j, k \in 1..n : keys[j] = keys[k] => j = k
      BY <2>3, <2>6
    <3>2. DOMAIN keys = 1..n
      BY <2>3
    <3>3. QED
      BY <3>1, <3>2 DEF IsInjective
  <2>8. \A score \in {d.lead, d.second, d.top} \ {NoScore} : score.n >= 0
    <3>1. lead = NoScore \/ lead.n >= 0
      BY <1>13, <1>14
    <3>2. QED
      BY <1>7, <1>10, <1>11, <3>1
  <2>9. QED
    BY <1>7, <1>8, <2>1, <2>2, <2>5, <2>7, <2>8 DEF DecisionSerialises
<1>18. QED
  BY <1>15, <1>16, <1>17

\* An entry holds its evaluation, and the id says what it was computed from.
LEMMA EntryHolds ==
  ASSUME NEW p, NEW d, NEW e \in Evaluations, NEW x, x = EntryOf(Context, Window, p, d, e)
  PROVE  /\ Evaluation(x) = e
         /\ x.relative = p.relative
         /\ x.key = e.key /\ x.floor = e.floor /\ x.pre_count = e.pre_count
         /\ x.post_count = e.post_count /\ x.eligible = e.eligible /\ x.candidate = e.candidate
         /\ x.id = evidence_id(entry_payload(Context, Window, p, d, e))
<1>1. PICK id : id = evidence_id(entry_payload(Context, Window, p, d, e))
  OBVIOUS
<1>2. x = [id |-> id, relative |-> p.relative,
           key |-> e.key, floor |-> e.floor, pre_count |-> e.pre_count,
           post_count |-> e.post_count, eligible |-> e.eligible, candidate |-> e.candidate]
  BY <1>1 DEF EntryOf
<1>3. /\ DOMAIN x = {"id", "relative", "key", "floor", "pre_count", "post_count",
                     "eligible", "candidate"}
      /\ x.relative = p.relative /\ x.id = id
      /\ x.key = e.key /\ x.floor = e.floor /\ x.pre_count = e.pre_count
      /\ x.post_count = e.post_count /\ x.eligible = e.eligible /\ x.candidate = e.candidate
  BY <1>2
<1>4. PICK F : F = {"key", "floor", "pre_count", "post_count", "eligible", "candidate"}
  OBVIOUS
<1>5. DOMAIN x \ {"id", "relative"} = F
  BY <1>3, <1>4
<1>6. Evaluation(x) = [f \in F |-> x[f]]
  BY <1>5 DEF Evaluation
<1>7. e = [f \in F |-> e[f]]
  BY <1>4 DEF Evaluations
<1>8. \A f \in F : x[f] = e[f]
  BY <1>3, <1>4
<1>9. Evaluation(x) = e
  BY <1>6, <1>7, <1>8
<1>10. QED
  BY <1>1, <1>3, <1>9

\* The ledger of a ranking.
LedgerOf(p, d, evs) ==
  [schema |-> SchemaVersion, context |-> Context, window |-> Window, policy |-> p,
   decision |-> d, entries |-> EntriesOf(Context, Window, p, d, evs)]

\* What such a ledger holds.
LEMMA LedgerHolds ==
  ASSUME NEW p, NEW d, NEW evs \in Seq(Evaluations), NEW l, l = LedgerOf(p, d, evs)
  PROVE  /\ l.schema = SchemaVersion /\ l.context = Context /\ l.window = Window
         /\ l.policy = p /\ l.decision = d
         /\ l.entries \in Seq(ToSet(l.entries)) /\ Len(l.entries) = Len(evs)
         /\ \A k \in DOMAIN evs : l.entries[k] = EntryOf(Context, Window, p, d, evs[k])
         /\ [k \in DOMAIN l.entries |-> Evaluation(l.entries[k])] = evs
<1>1. PICK entries : entries = EntriesOf(Context, Window, p, d, evs)
  OBVIOUS
<1>2. /\ l.schema = SchemaVersion /\ l.context = Context /\ l.window = Window
      /\ l.policy = p /\ l.decision = d /\ l.entries = entries
  BY <1>1 DEF LedgerOf
<1>3. PICK n \in Nat : n = Len(evs) /\ DOMAIN evs = 1..n
  OBVIOUS
<1>4. entries = [k \in 1..n |-> EntryOf(Context, Window, p, d, evs[k])]
  BY <1>1, <1>3 DEF EntriesOf
<1>5. DOMAIN entries = 1..n /\ \A k \in 1..n : entries[k] = EntryOf(Context, Window, p, d, evs[k])
  BY <1>4
<1>6. entries \in Seq(ToSet(entries)) /\ Len(entries) = n
  <2>1. \A k \in 1..n : entries[k] \in ToSet(entries)
    BY <1>5 DEF ToSet
  <2>2. entries = [k \in 1..n |-> entries[k]]
    BY <1>4
  <2>3. QED
    BY <2>1, <2>2
<1>7. \A k \in 1..n : Evaluation(entries[k]) = evs[k]
  <2>1. ASSUME NEW k \in 1..n PROVE Evaluation(entries[k]) = evs[k]
    <3>1. evs[k] \in Evaluations
      BY <1>3
    <3>2. QED
      BY <1>5, <3>1, EntryHolds
  <2>2. QED
    BY <2>1
<1>8. [k \in DOMAIN entries |-> Evaluation(entries[k])] = evs
  <2>1. evs = [k \in 1..n |-> evs[k]]
    BY <1>3
  <2>2. QED
    BY <1>5, <1>7, <2>1
<1>9. QED
  BY <1>2, <1>3, <1>5, <1>6, <1>8

\* The validator accepts such a list.
LEMMA ListedValid ==
  ASSUME NEW p, NEW evs, Listed(evs, p)
  PROVE  ValidEvaluations(evs, p)
<1>1. /\ evs \in Seq(Evaluations)
      /\ \A k \in DOMAIN evs : ValidEvaluation(evs[k], p)
      /\ \A j, k \in DOMAIN evs : j < k => evs[j].key < evs[k].key
  BY DEF Listed
<1>2. ASSUME NEW j \in DOMAIN evs, NEW k \in DOMAIN evs, j # k PROVE evs[j].key # evs[k].key
  <2>1. evs[j] \in Evaluations /\ evs[k] \in Evaluations
    BY <1>1
  <2>2. evs[j].key \in Int /\ evs[k].key \in Int
    BY <2>1 DEF Evaluations
  <2>3. j < k \/ k < j
    BY <1>1, <1>2
  <2>4. QED
    BY <1>1, <2>2, <2>3
<1>3. QED
  BY <1>1, <1>2 DEF ValidEvaluations, DuplicateKeys

\* Every entry about one of these evaluations can be encoded.
Encodable(evs) == \A k \in DOMAIN evs : Encodes(Context, {evs[k].key})

\* No record of a hash is the mark of a failure.
LEMMA DigestFails ==
  ASSUME NEW payload, NEW c, NEW keys
  PROVE  Digest(payload, c, keys) # Invalid <=> Encodes(c, keys)
<1>1. "sha256" \in DOMAIN [sha256 |-> payload] /\ "sha256" \notin DOMAIN Invalid
  BY DEF Invalid
<1>2. [sha256 |-> payload] # Invalid
  BY <1>1
<1>3. QED
  BY <1>2 DEF Digest

\* A digest that could be computed tells what was hashed.
LEMMA DigestTells ==
  ASSUME NEW a, NEW ca, NEW ka, NEW b, NEW cb, NEW kb,
         Digest(a, ca, ka) # Invalid, Digest(a, ca, ka) = Digest(b, cb, kb)
  PROVE  a = b
<1>1. Encodes(ca, ka) /\ Encodes(cb, kb)
  BY DigestFails
<1>2. [sha256 |-> a] = [sha256 |-> b]
  BY <1>1 DEF Digest
<1>3. QED
  <2>1. [sha256 |-> a].sha256 = [sha256 |-> b].sha256
    BY <1>2
  <2>2. QED
    BY <2>1

\* So does an identity, of either kind.
LEMMA IdentityTells ==
  ASSUME NEW a, NEW b
  PROVE  /\ evidence_id(a) # Invalid /\ evidence_id(a) = evidence_id(b) => a = b
         /\ change_evidence_id(a) # Invalid /\ change_evidence_id(a) = change_evidence_id(b)
              => a = b
<1>1. ASSUME evidence_id(a) # Invalid, evidence_id(a) = evidence_id(b) PROVE a = b
  <2>1. \E c, keys : evidence_id(a) = Digest(a, c, keys)
    BY Zenon DEF evidence_id
  <2>2. \E c, keys : evidence_id(b) = Digest(b, c, keys)
    BY Zenon DEF evidence_id
  <2>3. QED
    BY <1>1, <2>1, <2>2, DigestTells
<1>2. ASSUME change_evidence_id(a) # Invalid, change_evidence_id(a) = change_evidence_id(b)
      PROVE  a = b
  <2>1. \E c, keys : change_evidence_id(a) = Digest(a, c, keys)
    BY Zenon DEF change_evidence_id
  <2>2. \E c, keys : change_evidence_id(b) = Digest(b, c, keys)
    BY Zenon DEF change_evidence_id
  <2>3. QED
    BY <1>2, <2>1, <2>2, DigestTells
<1>3. QED
  BY <1>1, <1>2

\* An entry has an id if and only if it and the ranked signals can be encoded.
LEMMA EntryIdentified ==
  ASSUME NEW p, NEW evs, Listed(evs, p),
         NEW cs, cs = CandidatesOf(evs), NEW d, d = DecisionOf(p, cs), NEW k \in DOMAIN evs,
         NEW id, id = evidence_id(entry_payload(Context, Window, p, d, evs[k]))
  PROVE  /\ Encodable(evs) => id # Invalid
         /\ id # Invalid => Encodes(Context, {evs[k].key})
<1>1. PICK keys : keys = {evs[k].key} \cup ToSet(d.keys)
  OBVIOUS
<1>2. id # Invalid <=> Encodes(Context, keys)
  <2>1. PICK payload : payload = entry_payload(Context, Window, p, d, evs[k])
    OBVIOUS
  <2>2. payload.context = Context /\ payload.evaluation = evs[k] /\ payload.decision = d
    BY <2>1 DEF entry_payload
  <2>3. id = Digest(payload, Context, keys)
    BY <1>1, <2>1, <2>2 DEF evidence_id
  <2>4. QED
    BY <2>3, DigestFails
<1>3. d.keys = KeysOf(cs)
  BY DEF DecisionOf, Decision
<1>4. /\ evs \in Seq(Evaluations) /\ \A i \in DOMAIN evs : Evaluates(evs[i])
  BY DEF Listed
<1>5. /\ cs \in Seq(Candidates)
      /\ \A j \in DOMAIN cs : \E i \in DOMAIN evs : cs[j] = evs[i].candidate
      /\ \A i \in DOMAIN evs : evs[i].candidate # NoCandidate =>
           \E j \in DOMAIN cs : cs[j] = evs[i].candidate
  BY <1>4, CandidatesListed
<1>6. ASSUME NEW x \in keys PROVE \E i \in DOMAIN evs : x = evs[i].key
  <2>1. CASE x = evs[k].key
    BY <2>1
  <2>2. CASE x \in ToSet(d.keys)
    <3>1. PICK j \in DOMAIN cs : x = cs[j].key
      BY <1>3, <2>2 DEF ToSet, KeysOf
    <3>2. PICK i \in DOMAIN evs : cs[j] = evs[i].candidate
      BY <1>5
    <3>3. cs[j] \in Candidates
      BY <1>5
    <3>4. evs[i].candidate # NoCandidate
      BY <3>2, <3>3, NoCandidateIsNone
    <3>5. evs[i].candidate.key = evs[i].key
      BY <1>4, <3>4 DEF Evaluates
    <3>6. QED
      BY <3>1, <3>2, <3>5
  <2>3. QED
    BY <1>1, <2>1, <2>2
<1>7. ASSUME Encodable(evs) PROVE Encodes(Context, keys)
  <2>1. Context \notin UnencodableContexts
    BY <1>7 DEF Encodable, Encodes
  <2>2. \A x \in keys : x \notin UnencodableKeys
    BY <1>6, <1>7 DEF Encodable, Encodes
  <2>3. QED
    BY <2>1, <2>2 DEF Encodes
<1>8. Encodes(Context, keys) => Encodes(Context, {evs[k].key})
  BY <1>1 DEF Encodes
<1>9. QED
  BY <1>2, <1>7, <1>8

\* Such a ledger is valid if and only if its entries can be encoded; then it is
\* serialised, unless it is empty and its context cannot be encoded.
LEMMA LedgerAccepted ==
  ASSUME NEW p, Demands(p), NEW evs, Listed(evs, p),
         NEW cs, cs = CandidatesOf(evs), NEW d, d = DecisionOf(p, cs),
         NEW l, l = LedgerOf(p, d, evs)
  PROVE  /\ ValidLedger(l) <=> Encodable(evs)
         /\ Encodable(evs) => LedgerSerialises(l)
         /\ Encodable(evs) => (ledger_json(l) = Unserialisable <=> Context \in UnencodableContexts)
<1>1. /\ evs \in Seq(Evaluations)
      /\ \A k \in DOMAIN evs : ValidEvaluation(evs[k], p)
      /\ \A k \in DOMAIN evs : Evaluates(evs[k])
      /\ \A j, k \in DOMAIN evs : j < k => evs[j].key < evs[k].key
  BY DEF Listed
<1>2. /\ l.schema = SchemaVersion /\ l.context = Context /\ l.window = Window
      /\ l.policy = p /\ l.decision = d
      /\ l.entries \in Seq(ToSet(l.entries)) /\ Len(l.entries) = Len(evs)
      /\ \A k \in DOMAIN evs : l.entries[k] = EntryOf(Context, Window, p, d, evs[k])
      /\ [k \in DOMAIN l.entries |-> Evaluation(l.entries[k])] = evs
  BY <1>1, LedgerHolds
<1>3. SortedByKey(evs) = evs
  BY <1>1, SortedIdle
<1>4. DOMAIN l.entries = DOMAIN evs
  BY <1>1, <1>2
<1>5. d # Invalid /\ ledger_decision(d, p, cs) /\ DecisionSerialises(d)
  BY CandidatesPlaced, DecisionAccepted
<1>6. ValidWindow(Window) /\ ValidPolicy(p)
  <2>1. ValidWindow(Window)
    BY AnalysisAssumption
  <2>2. QED
    BY <2>1 DEF ValidPolicy, Demands, Policy
<1>7. ValidEvaluations(evs, p)
  BY ListedValid
<1>8. ASSUME NEW k \in DOMAIN evs, NEW x, x = l.entries[k]
      PROVE  /\ x.relative = p.relative
             /\ x.key = evs[k].key
             /\ EntrySerialises(x)
  <2>1. evs[k] \in Evaluations
    BY <1>1
  <2>2. /\ x.relative = p.relative
        /\ x.key = evs[k].key /\ x.floor = evs[k].floor /\ x.pre_count = evs[k].pre_count
        /\ x.post_count = evs[k].post_count /\ x.eligible = evs[k].eligible
        /\ x.candidate = evs[k].candidate
    BY <1>2, <1>8, <2>1, EntryHolds
  <2>3. ValidEvaluation(evs[k], p) /\ p.relative >= 0
    BY <1>1 DEF Demands, Policy
  <2>4. ASSUME x.candidate # NoCandidate
        PROVE  /\ CandidateSerialises(x.candidate)
               /\ \A f \in {"key", "pre_count", "post_count", "floor", "relative"} :
                    x.candidate[f] = x[f]
    <3>1. ValidCandidate(x.candidate, evs[k], p)
      BY <2>2, <2>3, <2>4 DEF ValidEvaluation
    <3>2. evs[k].pre_count >= 0 /\ evs[k].post_count >= 0
      BY <2>3 DEF ValidEvaluation
    <3>3. CandidateSerialises(x.candidate)
      BY <2>3, <3>1, <3>2 DEF ValidCandidate, CandidateSerialises
    <3>4. /\ x.candidate.key = x.key /\ x.candidate.pre_count = x.pre_count
          /\ x.candidate.post_count = x.post_count /\ x.candidate.floor = x.floor
          /\ x.candidate.relative = x.relative
      BY <2>2, <3>1 DEF ValidCandidate
    <3>5. QED
      BY <3>3, <3>4
  <2>5. x.eligible = (x.candidate # NoCandidate)
    <3>1. (evs[k].candidate # NoCandidate) = evs[k].eligible
      BY <2>3 DEF ValidEvaluation
    <3>2. QED
      BY <2>2, <3>1
  <2>6. x.floor > 0 /\ x.relative >= 0 /\ x.pre_count >= 0 /\ x.post_count >= 0
    BY <2>2, <2>3 DEF ValidEvaluation
  <2>7. EntrySerialises(x)
    BY <2>4, <2>5, <2>6 DEF EntrySerialises
  <2>8. QED
    BY <2>2, <2>7
<1>0. ASSUME NEW k \in DOMAIN evs
      PROVE  /\ Encodable(evs) => l.entries[k].id # Invalid
             /\ l.entries[k].id # Invalid => Encodes(Context, {evs[k].key})
  <2>1. evs[k] \in Evaluations
    BY <1>1
  <2>2. l.entries[k].id = evidence_id(entry_payload(Context, Window, p, d, evs[k]))
    BY <1>2, <2>1, EntryHolds
  <2>3. QED
    BY <2>2, EntryIdentified
<1>9. ASSUME Encodable(evs) PROVE ValidLedger(l)
  <2>2. l.entries = EntriesOf(Context, Window, p, d, evs)
    BY DEF LedgerOf
  <2>3. \A k \in DOMAIN l.entries : l.entries[k].id # Invalid /\ l.entries[k].relative = p.relative
    BY <1>4, <1>8, <1>0, <1>9
  <2>4. /\ SortedByKey([k \in DOMAIN l.entries |-> Evaluation(l.entries[k])]) = evs
        /\ CandidatesOf(SortedByKey([k \in DOMAIN l.entries |-> Evaluation(l.entries[k])])) = cs
    BY <1>2, <1>3
  <2>5. /\ l.schema = SchemaVersion /\ ValidWindow(l.window) /\ ValidPolicy(l.policy)
        /\ \A k \in DOMAIN l.entries :
             l.entries[k].id # Invalid /\ l.entries[k].relative = l.policy.relative
        /\ ledger_decision(l.decision, l.policy, cs)
        /\ l.entries = EntriesOf(l.context, l.window, l.policy, l.decision, evs)
        /\ ValidEvaluations([k \in DOMAIN l.entries |-> Evaluation(l.entries[k])], l.policy)
    BY <1>2, <1>5, <1>6, <1>7, <2>2, <2>3
  <2>6. KeysOf([k \in DOMAIN l.entries |-> Evaluation(l.entries[k])]) = KeysOf(evs)
    BY <1>2
  <2>7. QED
    BY <2>4, <2>5, <2>6, Zenon DEF ValidLedger
<1>10. ASSUME Encodable(evs) PROVE LedgerSerialises(l)
  <2>1. ASSUME NEW k \in DOMAIN l.entries
        PROVE  /\ EntrySerialises(l.entries[k])
               /\ l.entries[k].relative = l.policy.relative
               /\ k > 1 => l.entries[k - 1].key < l.entries[k].key
    <3>1. k \in DOMAIN evs
      BY <1>4
    <3>2. EntrySerialises(l.entries[k]) /\ l.entries[k].relative = l.policy.relative
      BY <1>2, <1>8, <3>1
    <3>3. ASSUME k > 1 PROVE l.entries[k - 1].key < l.entries[k].key
      <4>1. k - 1 \in DOMAIN evs /\ k - 1 < k
        BY <1>1, <3>1, <3>3
      <4>2. l.entries[k - 1].key = evs[k - 1].key /\ l.entries[k].key = evs[k].key
        BY <1>8, <3>1, <4>1
      <4>3. QED
        BY <1>1, <3>1, <4>1, <4>2
    <3>4. QED
      BY <3>2, <3>3
  <2>2. QED
    BY <1>2, <1>5, <1>6, <1>9, <1>10, <2>1 DEF LedgerSerialises
<1>11. ValidLedger(l) => Encodable(evs)
  <2>1. ASSUME ValidLedger(l), NEW k \in DOMAIN evs PROVE Encodes(Context, {evs[k].key})
    <3>1. l.entries[k].id # Invalid
      BY <1>4, <2>1 DEF ValidLedger
    <3>2. QED
      BY <1>0, <3>1
  <2>2. QED
    BY <2>1 DEF Encodable
<1>12. ASSUME Encodable(evs)
       PROVE  ledger_json(l) = Unserialisable <=> Context \in UnencodableContexts
  <2>1. ASSUME NEW x \in ToSet(KeysOf(l.entries)) PROVE x \notin UnencodableKeys
    <3>1. PICK k \in DOMAIN evs : x = l.entries[k].key
      BY <1>4, <2>1 DEF ToSet, KeysOf
    <3>2. x = evs[k].key
      BY <1>8, <3>1
    <3>3. QED
      BY <1>12, <3>2 DEF Encodable, Encodes
  <2>2. Encodes(l.context, ToSet(KeysOf(l.entries))) <=> Context \notin UnencodableContexts
    BY <1>2, <2>1 DEF Encodes
  <2>3. "schema" \notin DOMAIN Unserialisable
    BY DEF Unserialisable
  <2>4. ASSUME Context \notin UnencodableContexts PROVE ledger_json(l) # Unserialisable
    <3>1. "schema" \in DOMAIN ledger_json(l)
      BY <1>10, <1>12, <2>2, <2>4 DEF ledger_json, LedgerOf
    <3>2. QED
      BY <2>3, <3>1
  <2>5. ASSUME Context \in UnencodableContexts PROVE ledger_json(l) = Unserialisable
    BY <2>2, <2>5 DEF ledger_json
  <2>6. QED
    BY <2>4, <2>5
<1>13. QED
  BY <1>9, <1>10, <1>11, <1>12

-----------------------------------------------------------------------------
(* What the verifier returns is serialised. *)

\* Nothing is cited where no predicate cites anything.
LEMMA NothingCited ==
  ASSUME NEW results, NEW field, \A k \in DOMAIN results : results[k][field] = <<>>
  PROVE  Cited(results, field) = <<>>
<1>1. PICK sequences : sequences = [k \in DOMAIN results |-> results[k][field]]
  OBVIOUS
<1>2. \A j \in DOMAIN sequences : DOMAIN sequences[j] = {}
  <2>1. ASSUME NEW j \in DOMAIN sequences PROVE DOMAIN sequences[j] = {}
    <3>1. sequences[j] = <<>>
      BY <1>1
    <3>2. QED
      BY <3>1
  <2>2. QED
    BY <2>1
<1>3. PICK places : places = UNION {{j} \X DOMAIN sequences[j] : j \in DOMAIN sequences}
  OBVIOUS
<1>4. places = {}
  BY <1>2, <1>3
<1>5. PICK order : order = {p \in places \X places :
                  p[1][1] < p[2][1] \/ (p[1][1] = p[2][1] /\ p[1][2] < p[2][2])}
  OBVIOUS
<1>6. PICK at : at = Ordered(places, order)
  OBVIOUS
<1>7. DOMAIN at = {}
  <2>1. Cardinality(places) = 0
    BY <1>4, FS_EmptySet
  <2>2. DOMAIN at = 1..0
    BY <1>6, <2>1 DEF Ordered
  <2>3. QED
    BY <2>2
<1>8. Joined(sequences) = [k \in DOMAIN at |-> sequences[at[k][1]][at[k][2]]]
  BY <1>3, <1>5, <1>6, Zenon DEF Joined
<1>9. Joined(sequences) = <<>>
  BY <1>7, <1>8
<1>10. QED
  BY <1>1, <1>9 DEF Cited

\* The verifier composes as the serialiser expects.
LEMMA ComposedAsExpected ==
  ASSUME NEW composition \in {"all", "any"}, NEW results
  PROVE  /\ change_compose(composition, results) = ExpectedVerdict(composition, results)
         /\ compose(composition, results) = ExpectedVerdict(composition, results)
<1>1. change_compose(composition, results) = ExpectedVerdict(composition, results)
  BY DEF change_compose, ExpectedVerdict
<1>2. QED
  BY <1>1, ComposeAlike

\* Where every predicate is unknown the whole is.
LEMMA UnknownExpected ==
  ASSUME NEW composition, NEW results, DOMAIN results # {},
         \A k \in DOMAIN results : results[k].verdict = "unknown"
  PROVE  ExpectedVerdict(composition, results) = "unknown"
<1>1. {results[k].verdict : k \in DOMAIN results} = {"unknown"}
  OBVIOUS
<1>2. QED
  BY <1>1 DEF ExpectedVerdict

\* An answer about a signal of the ledger is one the serialiser accepts.
LEMMA PredicateAccepted ==
  ASSUME NEW q, q.direction \in {"increase", "decrease"},
         NEW e, e # NoEntry, NEW minimum, NEW r, r = evaluate_predicate(q, e, minimum)
  PROVE  /\ PredicateSerialises(r) /\ r.pid = q.pid
         /\ r.reason \notin GateReasons /\ r.reason # "signal_not_found"
<1>1. \A x : <<x>> # <<>> /\ ToSet(<<x>>) \cap ToSet(<<>>) = {}
             /\ ToSet(<<>>) \cap ToSet(<<x>>) = {} /\ ToSet(<<>>) \cap ToSet(<<>>) = {}
  BY DEF ToSet
<1>2. ASSUME NEW reason, NEW observed, r = Unknown(q, reason, observed)
      PROVE  /\ r.pid = q.pid /\ r.verdict = "unknown" /\ r.reason = reason
             /\ r.observed = observed /\ r.supporting = <<>> /\ r.contradicting = <<>>
  BY <1>2 DEF Unknown, Result
<1>3. CASE r = Unknown(q, "insufficient_evidence", "none")
  <2>1. /\ r.pid = q.pid /\ r.verdict = "unknown" /\ r.reason = "insufficient_evidence"
        /\ r.observed = "none" /\ r.supporting = <<>> /\ r.contradicting = <<>>
    BY <1>2, <1>3
  <2>2. QED
    BY <1>1, <2>1 DEF PredicateSerialises, GateReasons
<1>4. CASE r = Unknown(q, "no_directional_shift", "none")
  <2>1. /\ r.pid = q.pid /\ r.verdict = "unknown" /\ r.reason = "no_directional_shift"
        /\ r.observed = "none" /\ r.supporting = <<>> /\ r.contradicting = <<>>
    BY <1>2, <1>4
  <2>2. QED
    BY <1>1, <2>1 DEF PredicateSerialises, GateReasons
<1>5. CASE r = Unknown(q, "weak_evidence", Observed(e.candidate))
  <2>1. /\ r.pid = q.pid /\ r.verdict = "unknown" /\ r.reason = "weak_evidence"
        /\ r.observed = Observed(e.candidate)
        /\ r.supporting = <<>> /\ r.contradicting = <<>>
    BY <1>2, <1>5
  <2>2. r.observed # "none"
    BY <2>1 DEF Observed
  <2>3. QED
    BY <1>1, <2>1, <2>2 DEF PredicateSerialises, GateReasons, Directionless
<1>6. CASE r = Decided(q, e)
  <2>1. /\ r.observed = Observed(e.candidate)
        /\ r.verdict = IF Observed(e.candidate) = q.direction THEN "supported" ELSE "refuted"
        /\ r.supporting = IF Observed(e.candidate) = q.direction THEN <<e.id>> ELSE <<>>
        /\ r.contradicting = IF Observed(e.candidate) = q.direction THEN <<>> ELSE <<e.id>>
    BY <1>6, DecidedCitesEntry
  <2>2. r.pid = q.pid /\ r.reason = "none"
    BY <1>6 DEF Decided, Result
  <2>3. r.observed # "none"
    BY <2>1 DEF Observed
  <2>4. CASE Observed(e.candidate) = q.direction
    <3>1. r.verdict = "supported" /\ r.supporting = <<e.id>> /\ r.contradicting = <<>>
      BY <2>1, <2>4
    <3>2. QED
      BY <1>1, <2>2, <2>3, <3>1 DEF PredicateSerialises, GateReasons
  <2>5. CASE Observed(e.candidate) # q.direction
    <3>1. r.verdict = "refuted" /\ r.supporting = <<>> /\ r.contradicting = <<e.id>>
      BY <2>1, <2>5
    <3>2. QED
      BY <1>1, <2>2, <2>3, <3>1 DEF PredicateSerialises, GateReasons
  <2>6. QED
    BY <2>4, <2>5
<1>7. QED
  BY <1>3, <1>4, <1>5, <1>6 DEF evaluate_predicate

\* An answer to a document that is not decided at all is accepted too.
LEMMA GateAccepted ==
  ASSUME NEW q, NEW reason \in GateReasons, NEW r, r = Unknown(q, reason, "none")
  PROVE  /\ PredicateSerialises(r) /\ r.pid = q.pid /\ r.verdict = "unknown"
         /\ r.reason = reason /\ r.observed = "none"
         /\ r.supporting = <<>> /\ r.contradicting = <<>>
<1>1. /\ r.pid = q.pid /\ r.verdict = "unknown" /\ r.reason = reason
      /\ r.observed = "none" /\ r.supporting = <<>> /\ r.contradicting = <<>>
  BY DEF Unknown, Result
<1>2. reason # "none" /\ reason # "weak_evidence"
  BY DEF GateReasons
<1>3. ToSet(r.supporting) \cap ToSet(r.contradicting) = {}
  BY <1>1 DEF ToSet
<1>4. QED
  BY <1>1, <1>2, <1>3 DEF PredicateSerialises

\* Every predicate is about a signal of the ledger.
Covered(d, l) ==
  \A k \in DOMAIN d.predicates : \E j \in DOMAIN l.entries :
    l.entries[j].key = d.predicates[k].key

\* The serialiser accepts what is found in a ledger that covers the document.
LEMMA VerificationAccepted ==
  ASSUME NEW l, NEW cs, NEW p, Bound(l, cs, p), NEW d, Parsed(d), ValidDocument(d),
         Covered(d, l), NEW v, v = verify_hypothesis(d, l)
  PROVE  /\ VerificationSerialises(v)
         /\ \A k \in DOMAIN v.results : v.results[k].reason # "signal_not_found"
<1>1. PICK ps : ps = d.predicates
  OBVIOUS
<1>2. PICK n \in Nat : n = Len(ps) /\ n > 0 /\ DOMAIN ps = 1..n
  BY <1>1 DEF Parsed
<1>3. PICK reason : reason = DocumentReason(d, l)
  OBVIOUS
<1>4. PICK results : results = [k \in 1..n |->
                       IF reason # "none" THEN Unknown(ps[k], reason, "none")
                       ELSE evaluate_predicate(ps[k], EntryFor(l, ps[k].key), l.policy.score)]
  OBVIOUS
<1>5. /\ v.composition = d.composition /\ v.reason = reason /\ v.results = results
      /\ v.verdict = IF reason # "none" THEN "unknown" ELSE compose(d.composition, results)
      /\ v.supporting = Cited(results, "supporting")
      /\ v.contradicting = Cited(results, "contradicting")
  BY <1>1, <1>2, <1>3, <1>4 DEF verify_hypothesis
<1>6. DOMAIN results = 1..n
  BY <1>4
<1>7. results # <<>>
  BY <1>2, <1>6
<1>8. reason = "none" \/ reason \in GateReasons
  BY <1>3 DEF DocumentReason, GateReasons
<1>9. d.composition \in {"all", "any"}
  BY DEF Parsed
<1>10. \A k \in 1..n : ps[k].direction \in {"increase", "decrease"}
  <2>1. ASSUME NEW k \in 1..n PROVE ps[k].direction \in {"increase", "decrease"}
    <3>1. ps[k] \in MetricClaims
      BY <1>1, <1>2 DEF Parsed
    <3>2. QED
      BY <3>1 DEF MetricClaims
  <2>2. QED
    BY <2>1
<1>11. ASSUME NEW k \in 1..n, NEW r, r = results[k]
       PROVE  /\ PredicateSerialises(r) /\ r.pid = ps[k].pid
              /\ r.reason # "signal_not_found"
              /\ reason = "none" => r.reason \notin GateReasons
              /\ reason # "none" =>
                   /\ r.verdict = "unknown" /\ r.reason = reason /\ r.observed = "none"
                   /\ r.supporting = <<>> /\ r.contradicting = <<>>
  <2>1. CASE reason # "none"
    <3>1. r = Unknown(ps[k], reason, "none")
      BY <1>4, <1>11, <2>1
    <3>2. reason # "signal_not_found"
      BY <1>8, <2>1 DEF GateReasons
    <3>3. QED
      BY <1>8, <2>1, <3>1, <3>2, GateAccepted
  <2>2. CASE reason = "none"
    <3>1. PICK j \in DOMAIN l.entries : l.entries[j].key = ps[k].key
      BY <1>1, <1>2 DEF Covered
    <3>2. PICK e : e = EntryFor(l, ps[k].key)
      OBVIOUS
    <3>3. e = l.entries[j]
      BY <3>1, <3>2, EntryFound DEF Bound
    <3>4. e # NoEntry
      <4>1. "key" \in DOMAIN e
        BY <3>3 DEF Bound
      <4>2. "key" \notin DOMAIN NoEntry
        BY DEF NoEntry
      <4>3. QED
        BY <4>1, <4>2
    <3>5. r = evaluate_predicate(ps[k], e, l.policy.score)
      BY <1>4, <1>11, <2>2, <3>2
    <3>6. QED
      BY <1>10, <2>2, <3>4, <3>5, PredicateAccepted
  <2>3. QED
    BY <2>1, <2>2
<1>12. Distinct(results, "pid")
  <2>1. Distinct(ps, "pid")
    BY <1>1 DEF ValidDocument
  <2>2. \A k \in 1..n : results[k].pid = ps[k].pid
    BY <1>11
  <2>3. QED
    BY <1>2, <1>6, <2>1, <2>2 DEF Distinct
<1>13. CASE reason = "none"
  <2>1. v.verdict = ExpectedVerdict(v.composition, results)
    BY <1>5, <1>9, <1>13, ComposedAsExpected
  <2>2. \A k \in DOMAIN results : results[k].reason \notin GateReasons
    BY <1>6, <1>11, <1>13
  <2>3. \A k \in DOMAIN results : PredicateSerialises(results[k])
    BY <1>6, <1>11
  <2>4. VerificationSerialises(v)
    BY <1>5, <1>7, <1>12, <1>13, <2>1, <2>2, <2>3 DEF VerificationSerialises
  <2>5. QED
    BY <1>5, <1>6, <1>11, <2>4
<1>14. CASE reason # "none"
  <2>1. \A k \in DOMAIN results :
          /\ results[k].verdict = "unknown" /\ results[k].reason = reason
          /\ results[k].observed = "none"
          /\ results[k].supporting = <<>> /\ results[k].contradicting = <<>>
    BY <1>6, <1>11, <1>14
  <2>2. Cited(results, "supporting") = <<>> /\ Cited(results, "contradicting") = <<>>
    BY <2>1, NothingCited
  <2>3. ExpectedVerdict(v.composition, results) = "unknown"
    <3>1. DOMAIN results # {}
      BY <1>2, <1>6
    <3>2. QED
      BY <2>1, <3>1, UnknownExpected
  <2>4. \A k \in DOMAIN results : PredicateSerialises(results[k])
    BY <1>6, <1>11
  <2>5. VerificationSerialises(v)
    BY <1>5, <1>7, <1>8, <1>12, <1>14, <2>1, <2>2, <2>3, <2>4 DEF VerificationSerialises
  <2>6. QED
    BY <1>5, <1>6, <1>11, <2>5
<1>15. QED
  BY <1>13, <1>14

-----------------------------------------------------------------------------
(* Each stage accepts what the one before it computed. *)

\* A ranking and the ledger compiled from it.
RankedAs(b, l, p) ==
  /\ Listed(b.evaluations, p) /\ Encodable(b.evaluations) /\ Placed(b.candidates)
  /\ b.policy = p /\ b.candidates = CandidatesOf(b.evaluations)
  /\ l = LedgerOf(p, DecisionOf(p, b.candidates), b.evaluations)

\* The evaluations of a ranking can be encoded when its signals can.
LEMMA SignalsEncodable ==
  ASSUME NEW ins, ins \in Seq(ToSet(ins)), \A i \in ToSet(ins) : SignalInput(i),
         ~DuplicateKeys(ins), NEW p, Policy(p), NEW evs, evs = EvaluationsOf(Window, ins, p)
  PROVE  Encodable(evs) <=> \A i \in ToSet(ins) : Encodes(Context, {i.key})
<1>1. /\ \A k \in DOMAIN evs : \E i \in ToSet(ins) : evs[k] = evaluate_signal(Window, i, p)
      /\ \A i \in ToSet(ins) : \E k \in DOMAIN evs : evs[k] = evaluate_signal(Window, i, p)
      /\ \A j, k \in DOMAIN evs : j < k => evs[j].key < evs[k].key
  BY RankingLists
<1>2. \A i : evaluate_signal(Window, i, p).key = i.key
  BY DEF evaluate_signal
<1>3. \A k \in DOMAIN evs : \E i \in ToSet(ins) : evs[k].key = i.key
  BY <1>1, <1>2
<1>4. \A i \in ToSet(ins) : \E k \in DOMAIN evs : evs[k].key = i.key
  BY <1>1, <1>2
<1>5. QED
  BY <1>3, <1>4, Zenon DEF Encodable

\* A ranking compiles if and only if its signals can be encoded.
LEMMA RankingCompiles ==
  ASSUME NEW ins, ins \in Seq(ToSet(ins)), \A i \in ToSet(ins) : SignalInput(i),
         ~DuplicateKeys(ins), NEW p, Demands(p),
         NEW b, b = rank_metric_shifts(Window, ins, p),
         NEW l, l = compile_metric_shift_ledger(Context, Window, b)
  PROVE  /\ l # Invalid <=> \A i \in ToSet(ins) : Encodes(Context, {i.key})
         /\ l # Invalid => RankedAs(b, l, p)
         /\ b.result = "ranking" => b.candidates # <<>>
<1>1. PICK evs : evs = b.evaluations
  OBVIOUS
<1>2. PICK cs : cs = b.candidates
  OBVIOUS
<1>3. Policy(p)
  BY DEF Demands
<1>4. b.policy = p /\ evs = EvaluationsOf(Window, ins, p) /\ cs = CandidatesOf(evs)
  BY <1>1, <1>2, <1>3, RankingHolds
<1>5. Listed(evs, p)
  BY <1>3, <1>4, RankingListed
<1>6. Placed(cs)
  BY <1>4, <1>5, CandidatesPlaced
<1>7. PICK d : d = DecisionOf(p, cs)
  OBVIOUS
<1>8. decision(b, p, cs) = d /\ d # Invalid
  BY <1>4, <1>6, <1>7, DecisionRecorded, DecisionAccepted
<1>9. PICK m : m = LedgerOf(p, d, evs)
  OBVIOUS
<1>10. ValidLedger(m) <=> Encodable(evs)
  BY <1>4, <1>5, <1>7, <1>9, LedgerAccepted
<1>11. SortedByKey(evs) = evs
  BY <1>5, SortedIdle DEF Listed
<1>12. ValidWindow(Window) /\ ValidPolicy(p) /\ ValidEvaluations(evs, p)
  <2>1. ValidWindow(Window)
    BY AnalysisAssumption
  <2>2. ValidPolicy(p)
    BY DEF ValidPolicy, Demands, Policy
  <2>3. QED
    BY <1>5, <2>1, <2>2, ListedValid
<1>13. l = IF Encodable(evs) THEN m ELSE Invalid
  <2>1. m = [schema |-> SchemaVersion, context |-> Context, window |-> Window,
             policy |-> p, decision |-> d, entries |-> EntriesOf(Context, Window, p, d, evs)]
    BY <1>9 DEF LedgerOf
  <2>2. validate_metric_evidence_ledger(m) = IF Encodable(evs) THEN m ELSE Invalid
    BY <1>10 DEF validate_metric_evidence_ledger
  <2>3. QED
    BY <1>1, <1>4, <1>8, <1>11, <1>12, <2>1, <2>2 DEF compile_metric_shift_ledger
<1>14. m # Invalid
  <2>1. "schema" \in DOMAIN m
    BY <1>9 DEF LedgerOf
  <2>2. "schema" \notin DOMAIN Invalid
    BY DEF Invalid
  <2>3. QED
    BY <2>1, <2>2
<1>15. ASSUME b.result = "ranking" PROVE cs # <<>>
  <2>1. cs = <<>> => b.result = "abstention"
    BY <1>4, RankingDecides
  <2>2. QED
    BY <1>15, <2>1
<1>16. Encodable(evs) <=> \A i \in ToSet(ins) : Encodes(Context, {i.key})
  BY <1>3, <1>4, SignalsEncodable
<1>17. l # Invalid => l = m /\ Encodable(evs)
  BY <1>13
<1>18. l # Invalid => RankedAs(b, l, p)
  BY <1>1, <1>2, <1>4, <1>5, <1>6, <1>7, <1>9, <1>17 DEF RankedAs
<1>19. QED
  BY <1>2, <1>13, <1>14, <1>15, <1>16, <1>18

\* Its evidence and the ranking itself are serialised, and so is its ledger unless
\* the context cannot be encoded.
LEMMA EvidenceAccepted ==
  ASSUME NEW p, Demands(p), NEW b, NEW l, RankedAs(b, l, p),
         b.result = "ranking" => b.candidates # <<>>
  PROVE  /\ ledger_json(l) = Unserialisable <=> Context \in UnencodableContexts
         /\ \A k \in DOMAIN l.entries :
              metric_evidence_entry_json(l.entries[k]) # Unserialisable
         /\ baseline_ranking_json(b) # Unserialisable
<1>1. PICK evs : evs = b.evaluations
  OBVIOUS
<1>2. PICK cs : cs = b.candidates
  OBVIOUS
<1>3. PICK d : d = DecisionOf(p, cs)
  OBVIOUS
<1>4. /\ Listed(evs, p) /\ Encodable(evs) /\ Placed(cs) /\ b.policy = p
      /\ cs = CandidatesOf(evs) /\ l = LedgerOf(p, d, evs)
  BY <1>1, <1>2, <1>3 DEF RankedAs
<1>5. ledger_json(l) = Unserialisable <=> Context \in UnencodableContexts
  BY <1>3, <1>4, LedgerAccepted
<1>6. LedgerSerialises(l)
  BY <1>3, <1>4, LedgerAccepted
<1>7. ASSUME NEW k \in DOMAIN l.entries
      PROVE  metric_evidence_entry_json(l.entries[k]) # Unserialisable
  <2>1. PICK e : e = l.entries[k]
    OBVIOUS
  <2>2. EntrySerialises(e)
    BY <1>6, <2>1 DEF LedgerSerialises
  <2>3. "key" \in DOMAIN e /\ e.key \notin UnencodableKeys
    <3>1. evs \in Seq(Evaluations)
      BY <1>4 DEF Listed
    <3>2. /\ Len(l.entries) = Len(evs) /\ l.entries \in Seq(ToSet(l.entries))
          /\ \A j \in DOMAIN evs : l.entries[j] = EntryOf(Context, Window, p, d, evs[j])
      BY <1>4, <3>1, LedgerHolds
    <3>3. k \in DOMAIN evs
      BY <3>1, <3>2
    <3>4. e = EntryOf(Context, Window, p, d, evs[k])
      BY <2>1, <3>2, <3>3
    <3>5. evs[k].key \notin UnencodableKeys
      BY <1>4, <3>3 DEF Encodable, Encodes
    <3>6. QED
      BY <3>4, <3>5 DEF EntryOf
  <2>4. DOMAIN EntryPayload(e) = DOMAIN e
    BY DEF EntryPayload
  <2>5. "key" \notin DOMAIN Unserialisable
    BY DEF Unserialisable
  <2>6. metric_evidence_entry_json(e) = EntryPayload(e)
    BY <2>2, <2>3 DEF metric_evidence_entry_json
  <2>7. QED
    BY <2>1, <2>3, <2>4, <2>5, <2>6
<1>8. ASSUME NEW k \in DOMAIN cs
      PROVE  CandidateSerialises(cs[k]) /\ cs[k].key \notin UnencodableKeys
  <2>1. /\ evs \in Seq(Evaluations) /\ \A j \in DOMAIN evs : Evaluates(evs[j])
        /\ \A j \in DOMAIN evs : ValidEvaluation(evs[j], p)
    BY <1>4 DEF Listed
  <2>2. PICK j \in DOMAIN evs : cs[k] = evs[j].candidate
    BY <1>4, <2>1, CandidatesListed
  <2>3. cs[k] # NoCandidate
    <3>1. cs[k] \in Candidates
      BY <1>4 DEF Placed
    <3>2. QED
      BY <3>1, NoCandidateIsNone
  <2>4. ValidCandidate(cs[k], evs[j], p) /\ evs[j].pre_count >= 0 /\ evs[j].post_count >= 0
    <3>1. ValidEvaluation(evs[j], p)
      BY <2>1
    <3>2. evs[j].eligible
      BY <2>1, <2>2, <2>3 DEF Evaluates
    <3>3. QED
      BY <2>2, <3>1, <3>2 DEF ValidEvaluation
  <2>5. CandidateSerialises(cs[k])
    BY <2>4 DEF ValidCandidate, CandidateSerialises, Demands, Policy
  <2>6. cs[k].key = evs[j].key
    BY <2>4 DEF ValidCandidate
  <2>7. QED
    BY <1>4, <2>5, <2>6 DEF Encodable, Encodes
<1>9. baseline_ranking_json(b) # Unserialisable
  <2>0. ToSet(KeysOf(cs)) \cap UnencodableKeys = {}
    BY <1>8 DEF ToSet, KeysOf
  <2>1. ValidPolicy(p)
    BY DEF ValidPolicy, Demands, Policy
  <2>2. \E kind, reason, lead, top, second :
          baseline_ranking_json(b) =
            [schema |-> "baseline-ranking.v1", kind |-> kind, policy |-> b.policy,
             candidates |-> b.candidates, reason |-> reason, lead |-> lead,
             top |-> top, second |-> second]
    BY <1>2, <1>4, <1>8, <2>0, <2>1 DEF baseline_ranking_json
  <2>3. "schema" \in DOMAIN baseline_ranking_json(b)
    BY <2>2
  <2>4. "schema" \notin DOMAIN Unserialisable
    BY DEF Unserialisable
  <2>5. QED
    BY <2>3, <2>4
<1>10. QED
  BY <1>5, <1>7, <1>9

\* The parser lets through only what it was given, about signals of the ledger.
LEMMA ParserCovers ==
  ASSUME NEW r, NEW l, NEW d, d = parse_metric_hypothesis(r, ToSet(KeysOf(l.entries))),
         "rejected" \notin DOMAIN d
  PROVE  d = r /\ ValidDocument(d) /\ Covered(d, l)
<1>1. PICK allowed : allowed = ToSet(KeysOf(l.entries))
  OBVIOUS
<1>2. \A code : "rejected" \in DOMAIN Rejected(code)
  BY DEF Rejected
<1>3. d = r /\ ValidDocument(r) /\ \A k \in DOMAIN r.predicates : r.predicates[k].key \in allowed
  <2>1. (\E code : d = Rejected(code))
        \/ (d = r /\ ValidDocument(r) /\ \A k \in DOMAIN r.predicates : r.predicates[k].key \in allowed)
    BY <1>1 DEF parse_metric_hypothesis
  <2>2. QED
    BY <1>2, <2>1
<1>4. ASSUME NEW x \in allowed PROVE \E j \in DOMAIN l.entries : l.entries[j].key = x
  <2>1. PICK j \in DOMAIN KeysOf(l.entries) : x = KeysOf(l.entries)[j]
    BY <1>1 DEF ToSet
  <2>2. QED
    BY <2>1 DEF KeysOf
<1>5. QED
  BY <1>3, <1>4 DEF Covered

\* No stage but the parser refuses anything for its content, except that the keys
\* of signals and the text of a model may not encode.
Agreed ==
  /\ pc \notin {"failed", "requeued"} => failure = "none"
  /\ failure = "invalid_evidence_ledger" => Unwritable # {}
  /\ failure = "canonical_serialization_failed" => ~raw.encodable
  /\ stored # None => raw.encodable /\ pc \notin {"propose", "parse", "verify"}
  /\ pc = "verify" => document = raw
  /\ pc = "verify" \/ verification # None => ValidDocument(document) /\ Covered(document, ledger)

\* Every policy that can be chosen makes such demands.
LEMMA PolicyDemands ==
  ASSUME NEW p \in Policies PROVE Demands(p)
<1>1. /\ p.points \in Nat \ {0} /\ p.relative \in Nat
      /\ p.score \in [n : Nat, d : Nat \ {0}] /\ p.margin \in [n : Nat, d : Nat \ {0}]
  BY AnalysisAssumption
<1>2. /\ p.score \in Fractions /\ p.score.n >= 0
      /\ p.margin \in Fractions /\ p.margin.n >= 0
  BY <1>1 DEF Fractions
<1>3. QED
  BY <1>1, <1>2 DEF Demands, Policy

\* What was compiled is the ledger of a ranking.
LEMMA CompiledAsRanked ==
  Held /\ RankedFrom /\ Compiled =>
    /\ Unwritable = {} /\ RankedAs(baseline, ledger, policy)
    /\ baseline.result = "ranking" => baseline.candidates # <<>>
<1> SUFFICES ASSUME Held, RankedFrom, Compiled
             PROVE  /\ Unwritable = {} /\ RankedAs(baseline, ledger, policy)
                    /\ baseline.result = "ranking" => baseline.candidates # <<>>
  OBVIOUS
<1>1. /\ inputs \in Telemetries /\ ~DuplicateKeys(inputs) /\ policy \in Policies
      /\ baseline = rank_metric_shifts(Window, inputs, policy)
      /\ ledger = compile_metric_shift_ledger(Context, Window, baseline) /\ ledger # Invalid
  BY DEF RankedFrom, Held
<1>2. inputs \in Seq(ToSet(inputs)) /\ \A i \in ToSet(inputs) : SignalInput(i)
  BY <1>1, InputsSound
<1>3. Demands(policy)
  BY <1>1, PolicyDemands
<1>4. /\ \A i \in ToSet(inputs) : Encodes(Context, {i.key})
      /\ RankedAs(baseline, ledger, policy)
      /\ baseline.result = "ranking" => baseline.candidates # <<>>
  BY <1>1, <1>2, <1>3, RankingCompiles
<1>5. QED
  BY <1>4 DEF Unwritable

\* No stage disagrees with the one before it.
LEMMA AgreedStep == Held /\ RankedFrom /\ Agreed /\ [Next]_vars => Agreed'
<1> SUFFICES ASSUME Held, RankedFrom, Agreed, [Next]_vars PROVE Agreed'
  OBVIOUS
<1>1. CASE UNCHANGED vars
  BY <1>1 DEF vars, Agreed, Covered, Unwritable
<1>2. CASE Load
  <2>1. /\ pc = "load" /\ pc' = "compile"
        /\ UNCHANGED <<failure, ledger, raw, document, verification, stored>>
    BY <1>2 DEF Load, Goto
  <2>2. failure = "none" /\ verification = None /\ stored = None
    BY <2>1 DEF Agreed, Held
  <2>3. QED
    BY <2>1, <2>2 DEF Agreed
<1>3. CASE LoadFails
  <2>1. /\ pc = "load" /\ pc' = "failed" /\ failure' = "telemetry_unavailable"
        /\ UNCHANGED <<verification, stored>>
    BY <1>3 DEF LoadFails, Fail
  <2>2. verification = None /\ stored = None
    BY <2>1 DEF Held
  <2>3. QED
    BY <2>1, <2>2 DEF Agreed
<1>4. CASE Compile
  <2>1. pc = "compile" /\ UNCHANGED <<policy, inputs, raw, document, verification, stored>>
    BY <1>4 DEF Compile
  <2>2. /\ inputs \in Telemetries /\ policy \in Policies /\ failure = "none"
        /\ verification = None /\ stored = None
    BY <2>1 DEF Held, Agreed
  <2>3. CASE DuplicateKeys(inputs)
    <3>1. pc' = "failed" /\ failure' = "duplicate_signal"
      BY <1>4, <2>3 DEF Compile, Fail
    <3>2. QED
      BY <2>1, <2>2, <3>1 DEF Agreed
  <2>4. CASE ~DuplicateKeys(inputs)
    <3>1. /\ baseline' = rank_metric_shifts(Window, inputs, policy)
          /\ ledger' = compile_metric_shift_ledger(Context, Window, baseline')
          /\ ledger' # Invalid => pc' = "propose" /\ failure' = failure
          /\ ledger' = Invalid => pc' = "failed" /\ failure' = "invalid_evidence_ledger"
      BY <1>4, <2>4 DEF Compile, Goto, Fail
    <3>2. inputs \in Seq(ToSet(inputs)) /\ \A i \in ToSet(inputs) : SignalInput(i)
      BY <2>2, InputsSound
    <3>3. ledger' = Invalid => \E i \in ToSet(inputs) : ~Encodes(Context, {i.key})
      BY <2>2, <2>4, <3>1, <3>2, PolicyDemands, RankingCompiles
    <3>4. ledger' = Invalid => Unwritable' # {}
      BY <2>1, <3>3 DEF Unwritable
    <3>5. QED
      BY <2>1, <2>2, <3>1, <3>4 DEF Agreed
  <2>5. QED
    BY <2>3, <2>4
<1>5. CASE Propose
  <2>1. /\ pc = "propose" /\ pc' = "parse"
        /\ UNCHANGED <<failure, ledger, document, verification, stored>>
    BY <1>5 DEF Propose, Goto
  <2>2. failure = "none" /\ verification = None /\ stored = None
    BY <2>1 DEF Agreed, Held
  <2>3. QED
    BY <2>1, <2>2 DEF Agreed
<1>6. CASE ProposeFails
  <2>1. /\ pc = "propose" /\ pc' \in {"failed", "requeued"} /\ UNCHANGED <<verification, stored>>
        /\ failure' \in {"provider_timeout", "provider_unavailable", "provider_response_invalid"}
    BY <1>6 DEF ProposeFails, Fail, Requeue
  <2>2. verification = None /\ stored = None
    BY <2>1 DEF Held
  <2>3. QED
    BY <2>1, <2>2 DEF Agreed
<1>7. CASE Parse
  <2>1. pc = "parse" /\ UNCHANGED <<ledger, raw, verification, stored>>
    BY <1>7 DEF Parse
  <2>2. failure = "none" /\ verification = None /\ stored = None
    BY <2>1 DEF Agreed, Held
  <2>3. PICK parsed : parsed = parse_metric_hypothesis(raw, ToSet(KeysOf(ledger.entries)))
    OBVIOUS
  <2>4. CASE "rejected" \in DOMAIN parsed
    <3>1. pc' = "failed" /\ failure' \in ValidationCodes \cup {"internal_error"}
      BY <1>7, <2>3, <2>4 DEF Parse, Fail
    <3>2. failure' # "invalid_evidence_ledger" /\ failure' # "canonical_serialization_failed"
      BY <3>1 DEF ValidationCodes
    <3>3. QED
      BY <2>1, <2>2, <3>1, <3>2 DEF Agreed
  <2>5. CASE "rejected" \notin DOMAIN parsed
    <3>1. pc' = "verify" /\ failure' = failure /\ document' = parsed
      BY <1>7, <2>3, <2>5 DEF Parse, Goto
    <3>2. parsed = raw /\ ValidDocument(parsed) /\ Covered(parsed, ledger)
      BY <2>3, <2>5, ParserCovers
    <3>3. ValidDocument(document') /\ Covered(document', ledger')
      BY <2>1, <3>1, <3>2
    <3>4. QED
      BY <2>1, <2>2, <3>1, <3>2, <3>3 DEF Agreed
  <2>6. QED
    BY <2>4, <2>5
<1>8. CASE Verify
  <2>1. /\ pc = "verify" /\ verification' = verify_hypothesis(document, ledger)
        /\ UNCHANGED <<policy, inputs, baseline, ledger, raw, document>>
    BY <1>8 DEF Verify
  <2>2. /\ failure = "none" /\ document = raw /\ stored = None
        /\ ValidDocument(document) /\ Covered(document, ledger)
        /\ Parsed(document) /\ Ranked
    BY <2>1 DEF Agreed, Held
  <2>3. PICK payloads : payloads = Payloads(verification')
    OBVIOUS
  <2>4. \/ /\ pc' = "failed" /\ failure' = "canonical_serialization_failed"
           /\ Unserialisable \in ToSet(payloads.evidence) \cup {payloads.report, payloads.baseline}
           /\ UNCHANGED stored
        \/ /\ pc' = "persist" /\ failure' = failure
           /\ payloads.report # Unserialisable
    BY <1>8, <2>3 DEF Verify, Fail, Goto
  <2>5. ValidDocument(document') /\ Covered(document', ledger')
    BY <2>1, <2>2
  <2>6. CASE pc' = "persist" /\ failure' = failure /\ payloads.report # Unserialisable
    <3>1. verification_json(verification') # Unserialisable
      BY <2>3, <2>6 DEF Payloads
    <3>2. (verification'.encodable) = TRUE
      BY <3>1, ZenonT(30) DEF verification_json
    <3>3. verification'.encodable = raw.encodable
      BY <2>1, <2>2 DEF verify_hypothesis
    <3>4. (raw'.encodable) = TRUE
      BY <2>1, <3>2, <3>3
    <3>5. QED
      BY <2>2, <2>5, <2>6, <3>4 DEF Agreed
  <2>7. ASSUME Unserialisable \in ToSet(payloads.evidence) \cup {payloads.report, payloads.baseline}
        PROVE  ~raw.encodable
    <3>1. /\ payloads.evidence = [k \in DOMAIN ledger.entries |->
                                    metric_evidence_entry_json(ledger.entries[k])]
          /\ payloads.report = verification_json(verification')
          /\ payloads.baseline = baseline_ranking_json(baseline)
      BY <2>3 DEF Payloads
    <3>2. Compiled
      BY <2>1 DEF Compiled
    <3>3. RankedAs(baseline, ledger, policy)
          /\ (baseline.result = "ranking" => baseline.candidates # <<>>)
      BY <3>2, CompiledAsRanked
    <3>4. Demands(policy)
      BY PolicyDemands DEF Held
    <3>5. /\ \A k \in DOMAIN ledger.entries :
               metric_evidence_entry_json(ledger.entries[k]) # Unserialisable
          /\ baseline_ranking_json(baseline) # Unserialisable
      BY <3>3, <3>4, EvidenceAccepted
    <3>6. Unserialisable \notin ToSet(payloads.evidence)
      BY <3>1, <3>5 DEF ToSet
    <3>7. verification_json(verification') = Unserialisable
      BY <2>7, <3>1, <3>5, <3>6
    <3>8. VerificationSerialises(verification')
      BY <2>1, <2>2, VerificationAccepted DEF Ranked
    <3>9. ~verification'.encodable
      <4>1. ASSUME verification'.encodable PROVE FALSE
        <5>1. "schema" \in DOMAIN verification_json(verification')
          BY <3>8, <4>1 DEF verification_json
        <5>2. "schema" \notin DOMAIN Unserialisable
          BY DEF Unserialisable
        <5>3. QED
          BY <3>7, <5>1, <5>2
      <4>2. QED
        BY <4>1
    <3>10. verification'.encodable = raw.encodable
      BY <2>1, <2>2 DEF verify_hypothesis
    <3>11. QED
      BY <3>9, <3>10
  <2>8. CASE pc' = "failed" /\ failure' = "canonical_serialization_failed"
    <3>1. /\ Unserialisable \in ToSet(payloads.evidence) \cup {payloads.report, payloads.baseline}
          /\ stored' = None /\ raw' = raw
      BY <2>1, <2>2, <2>4, <2>8
    <3>2. ~raw'.encodable
      BY <2>7, <3>1, Zenon
    <3>3. QED
      BY <2>1, <2>5, <2>8, <3>1, <3>2 DEF Agreed
  <2>9. QED
    BY <2>4, <2>6, <2>8
<1>9. QED
  BY <1>1, <1>2, <1>3, <1>4, <1>5, <1>6, <1>7, <1>8 DEF Next

\* Compiler and serialisers refuse text that cannot be encoded, and nothing else.
LEMMA StagesAgree == Held /\ RankedFrom /\ Agreed => CompileAccepts /\ ArtefactsAgree
<1> SUFFICES ASSUME Held, RankedFrom, Agreed PROVE CompileAccepts /\ ArtefactsAgree
  OBVIOUS
<1>1. CompileAccepts
  <2>1. ASSUME Compiled
        PROVE  /\ Unwritable = {}
               /\ ledger_json(ledger) = Unserialisable <=> Context \in UnencodableContexts
    <3>1. Unwritable = {} /\ RankedAs(baseline, ledger, policy)
          /\ (baseline.result = "ranking" => baseline.candidates # <<>>)
      BY <2>1, CompiledAsRanked
    <3>2. Demands(policy)
      BY PolicyDemands DEF Held
    <3>3. QED
      BY <3>1, <3>2, EvidenceAccepted
  <2>2. QED
    BY <2>1 DEF CompileAccepts, Agreed
<1>2. ASSUME stored # None, NEW r \in ToSet(stored.report.results)
      PROVE  r.reason # "signal_not_found"
  <2>1. /\ verification # None /\ stored = Payloads(verification) /\ Written(stored)
        /\ Ranked /\ Parsed(document) /\ verification = verify_hypothesis(document, ledger)
    BY <1>2 DEF Held
  <2>2. ValidDocument(document) /\ Covered(document, ledger)
    BY <2>1 DEF Agreed
  <2>3. stored.report = verification_json(verification) /\ stored.report # Unserialisable
    BY <2>1 DEF Payloads, Written
  <2>4. stored.report.results = verification.results
    BY <2>3, ReportWritten
  <2>5. \A k \in DOMAIN verification.results : verification.results[k].reason # "signal_not_found"
    BY <2>1, <2>2, VerificationAccepted DEF Ranked
  <2>6. QED
    BY <1>2, <2>4, <2>5 DEF ToSet
<1>3. QED
  BY <1>1, <1>2 DEF ArtefactsAgree, Agreed

-----------------------------------------------------------------------------
(* The change half. *)

\* sorted() leaves alone what is in order.
LEMMA SortedAlready ==
  ASSUME NEW A, NEW s \in Seq(A), NEW before, WeakOrder(Len(s), before),
         \A i, j \in DOMAIN s : i < j => <<i, j>> \in before
  PROVE  Sorted(s, before) = s
<1>1. PICK n \in Nat : n = Len(s) /\ DOMAIN s = 1..n
  OBVIOUS
<1>2. WeakOrder(n, before)
  BY <1>1
<1>3. PICK at : at = Places(n, before)
  OBVIOUS
<1>4. /\ Places(n, before) \in [1..n -> 1..n]
      /\ \A j, k \in 1..n : j < k =>
           /\ Places(n, before)[j] # Places(n, before)[k]
           /\ <<Places(n, before)[k], Places(n, before)[j]>> \notin before
      /\ \A i \in 1..n : \E k \in 1..n : Places(n, before)[k] = i
  BY <1>2, PlacesList
<1>5. /\ at \in [1..n -> 1..n]
      /\ \A j, k \in 1..n : j < k => at[j] # at[k] /\ <<at[k], at[j]>> \notin before
      /\ \A i \in 1..n : \E k \in 1..n : at[k] = i
  BY <1>3, <1>4
<1>6. \A j, k \in 1..n : j < k => at[j] < at[k]
  <2>1. ASSUME NEW j \in 1..n, NEW k \in 1..n, j < k PROVE at[j] < at[k]
    <3>1. at[j] \in 1..n /\ at[k] \in 1..n
      BY <1>5
    <3>2. at[j] # at[k] /\ <<at[k], at[j]>> \notin before
      BY <1>5, <2>1
    <3>3. ~(at[k] < at[j])
      BY <1>1, <3>1, <3>2
    <3>4. QED
      BY <3>1, <3>2, <3>3
  <2>2. QED
    BY <2>1
<1>7. PICK N : N = 1..n
  OBVIOUS
<1>8. PICK id : id = [k \in 1..n |-> k]
  OBVIOUS
<1>9. PICK up : up = {p \in N \X N : p[1] < p[2]}
  OBVIOUS
<1>10. \A a, b : <<a, b>> \in up <=> a \in N /\ b \in N /\ a < b
  BY <1>9
<1>11. at \in Seq(N) /\ id \in Seq(N) /\ Len(at) = Len(id)
       /\ DOMAIN at = 1..n /\ DOMAIN id = 1..n
  BY <1>5, <1>7, <1>8
<1>12. Asymmetric(up)
  <2>1. ASSUME NEW a, NEW b, <<a, b>> \in up PROVE <<b, a>> \notin up
    <3>1. a \in 1..n /\ b \in 1..n /\ a < b
      BY <1>7, <1>10, <2>1
    <3>2. ~(b < a)
      BY <3>1
    <3>3. QED
      BY <1>10, <3>2
  <2>2. QED
    BY <2>1 DEF Asymmetric
<1>13. Ascends(at, up) /\ Ascends(id, up)
  <2>1. ASSUME NEW j \in 1..n, NEW k \in 1..n, j < k
        PROVE  <<at[j], at[k]>> \in up /\ <<id[j], id[k]>> \in up
    <3>1. at[j] \in N /\ at[k] \in N /\ at[j] < at[k]
      BY <1>5, <1>6, <1>7, <2>1
    <3>2. id[j] = j /\ id[k] = k /\ j \in N /\ k \in N
      BY <1>7, <1>8
    <3>3. QED
      BY <1>10, <2>1, <3>1, <3>2
  <2>2. QED
    BY <1>11, <2>1, Zenon DEF Ascends
<1>14. Within(at, id) /\ Within(id, at)
  <2>1. \A k \in 1..n : at[k] \in 1..n /\ id[k] = k
    BY <1>5, <1>8
  <2>2. \A k \in 1..n : \E j \in 1..n : at[k] = id[j]
    BY <2>1
  <2>3. \A k \in 1..n : \E j \in 1..n : id[k] = at[j]
    <3>1. ASSUME NEW k \in 1..n PROVE \E j \in 1..n : id[k] = at[j]
      <4>1. PICK j \in 1..n : at[j] = k
        BY <1>5
      <4>2. QED
        BY <2>1, <4>1
    <3>2. QED
      BY <3>1
  <2>4. QED
    BY <1>11, <2>2, <2>3, Zenon DEF Within
<1>15. at = id
  BY <1>11, <1>12, <1>13, <1>14, OneOrder
<1>16. Sorted(s, before) = [k \in 1..n |-> s[at[k]]]
  <2>1. Sorted(s, before) = [k \in 1..Len(s) |-> s[Places(Len(s), before)[k]]]
    BY SortedPlaces
  <2>2. QED
    BY <1>1, <1>3, <2>1
<1>17. \A k \in 1..n : s[at[k]] = s[k]
  BY <1>8, <1>15
<1>18. s = [k \in 1..n |-> s[k]]
  BY <1>1
<1>19. QED
  BY <1>16, <1>17, <1>18

\* A change has an id if and only if it can be encoded.
LEMMA ChangeIdentified ==
  ASSUME NEW c, NEW w, NEW e \in Events, NEW x, x = ChangeEntry(c, w, e)
  PROVE  x.id # Invalid <=> Encodes(c, {e.key})
<1>1. PICK payload : payload = ChangePayload(c, w, e)
  OBVIOUS
<1>2. payload.context = c /\ payload.event.key = e.key
  BY <1>1 DEF ChangePayload, Identity
<1>3. x.id = Digest(payload, c, {e.key})
  BY <1>1, <1>2 DEF ChangeEntry, change_evidence_id
<1>4. QED
  BY <1>3, DigestFails

\* The ledger of a log is valid if and only if its events can be encoded.
LEMMA BuiltIsValid ==
  ASSUME NEW es \in Seq(Events), ~Repeats(es), NEW c, NEW w, ValidWindow(w),
         NEW l, l = [context |-> c, window |-> w, entries |-> build_entries(c, w, es)]
  PROVE  ValidChangeLedger(l) <=> \A i \in DOMAIN es : Encodes(c, {es[i].key})
<1>1. PICK s : s = Arranged(es)
  OBVIOUS
<1>2. /\ s \in Seq(Events) /\ Len(s) = Len(es) /\ Ascends(s, Earlier)
      /\ Within(s, es) /\ Within(es, s)
  BY <1>1, ArrangedLists
<1>3. PICK n \in Nat : n = Len(s) /\ DOMAIN s = 1..n
  BY <1>2
<1>4. PICK entries : entries = build_entries(c, w, es)
  OBVIOUS
<1>5. entries = [k \in 1..n |-> ChangeEntry(c, w, s[k])]
  BY <1>1, <1>3, <1>4 DEF build_entries, Arranged
<1>6. DOMAIN entries = 1..n /\ \A k \in 1..n : entries[k] = ChangeEntry(c, w, s[k])
  BY <1>5
<1>7. entries \in Seq(ChangeEntries(c, w)) /\ Len(entries) = n
  <2>1. ASSUME NEW k \in 1..n PROVE entries[k] \in ChangeEntries(c, w)
    <3>1. s[k] \in Events
      BY <1>2, <1>3
    <3>2. QED
      BY <1>6, <3>1 DEF ChangeEntries
  <2>2. entries = [k \in 1..n |-> entries[k]]
    BY <1>5, <1>6
  <2>3. QED
    BY <2>1, <2>2
<1>8. ASSUME NEW k \in 1..n
      PROVE  /\ s[k] \in Events /\ Identity(entries[k]) = s[k]
             /\ entries[k].phase = phase(entries[k].at, w)
             /\ entries[k].at = s[k].at /\ entries[k].kind = s[k].kind
             /\ entries[k].key = s[k].key
             /\ ChangeEntry(c, w, entries[k]) = entries[k]
  <2>1. s[k] \in Events
    BY <1>2, <1>3
  <2>2. PICK x : x = entries[k]
    OBVIOUS
  <2>3. /\ Identity(x) = s[k] /\ x.phase = phase(s[k].at, w)
        /\ x.at = s[k].at /\ x.kind = s[k].kind /\ x.key = s[k].key
    BY <1>6, <2>1, <2>2, EntryIdentity
  <2>4. Identity(s[k]) = s[k]
    BY <2>1 DEF Identity, Events
  <2>5. ChangeEntry(c, w, x) = ChangeEntry(c, w, s[k])
    BY <2>3, <2>4 DEF ChangeEntry, ChangePayload
  <2>6. QED
    BY <1>6, <2>1, <2>2, <2>3, <2>5
<1>9. ASSUME NEW j \in 1..n, NEW k \in 1..n, j < k
      PROVE  ByOccurrence(entries[j], entries[k]) /\ ~ByOccurrence(entries[k], entries[j])
             /\ Identity(entries[j]) # Identity(entries[k])
  <2>1. <<s[j], s[k]>> \in Earlier /\ s[j] \in Events /\ s[k] \in Events
    BY <1>2, <1>3, <1>8, <1>9 DEF Ascends
  <2>2. ByOccurrence(s[j], s[k]) /\ ~ByOccurrence(s[k], s[j])
    BY <2>1, OccurrenceOrders
  <2>3. s[j] # s[k]
    BY <2>2
  <2>4. ByOccurrence(entries[j], entries[k]) /\ ~ByOccurrence(entries[k], entries[j])
    BY <1>8, <2>2 DEF ByOccurrence
  <2>5. QED
    BY <1>8, <2>3, <2>4
<1>10. ~Repeats(entries)
  <2>1. ASSUME NEW j \in 1..n, NEW k \in 1..n, j # k
        PROVE  Identity(entries[j]) # Identity(entries[k])
    <3>1. j < k \/ k < j
      BY <2>1
    <3>2. QED
      BY <1>9, <3>1
  <2>2. QED
    BY <1>6, <2>1 DEF Repeats
<1>11. PICK before : before = {p \in (DOMAIN entries) \X (DOMAIN entries) :
                                 ByOccurrence(entries[p[1]], entries[p[2]])}
  OBVIOUS
<1>12. \A i, j \in 1..n : <<i, j>> \in before <=> ByOccurrence(entries[i], entries[j])
  BY <1>6, <1>11
<1>13. \A i, j \in 1..n : ByOccurrence(entries[i], entries[j]) <=> i < j
  <2>1. ASSUME NEW i \in 1..n, NEW j \in 1..n
        PROVE  ByOccurrence(entries[i], entries[j]) <=> i < j
    <3>1. CASE i < j
      BY <1>9, <3>1
    <3>2. CASE j < i
      <4>1. ~ByOccurrence(entries[i], entries[j])
        BY <1>9, <3>2
      <4>2. QED
        BY <3>2, <4>1
    <3>3. CASE i = j
      <4>1. ~ByOccurrence(s[i], s[i])
        BY <1>8, OccurrenceOrders
      <4>2. ~ByOccurrence(entries[i], entries[i])
        BY <1>8, <4>1 DEF ByOccurrence
      <4>3. QED
        BY <3>3, <4>2
    <3>4. QED
      BY <3>1, <3>2, <3>3
  <2>2. QED
    BY <2>1
<1>14. WeakOrder(n, before)
  <2>1. \A i, j \in 1..n : <<i, j>> \in before => <<j, i>> \notin before
    BY <1>12, <1>13
  <2>2. \A i, j, k \in 1..n : <<i, j>> \in before => <<i, k>> \in before \/ <<k, j>> \in before
    BY <1>12, <1>13
  <2>3. QED
    BY <2>1, <2>2, Zenon DEF WeakOrder
<1>15. Sorted(entries, before) = entries
  <2>1. WeakOrder(Len(entries), before)
    BY <1>7, <1>14
  <2>2. \A i, j \in DOMAIN entries : i < j => <<i, j>> \in before
    BY <1>6, <1>12, <1>13
  <2>3. QED
    BY <1>7, <2>1, <2>2, SortedAlready
<1>16. build_entries(c, w, entries) = entries
  <2>1. build_entries(c, w, entries) = [k \in DOMAIN entries |-> ChangeEntry(c, w, entries[k])]
    BY <1>11, <1>15 DEF build_entries, Arranged
  <2>2. entries = [k \in 1..n |-> entries[k]]
    BY <1>5, <1>6
  <2>3. QED
    BY <1>6, <1>8, <2>1, <2>2
<1>17. l.context = c /\ l.window = w /\ l.entries = entries
  BY <1>4
<1>18. \A k \in 2..Len(entries) : ~ByOccurrence(entries[k], entries[k - 1])
  <2>1. ASSUME NEW k \in 2..n PROVE ~ByOccurrence(entries[k], entries[k - 1])
    <3>1. k \in 1..n /\ k - 1 \in 1..n /\ k - 1 < k
      BY <2>1
    <3>2. QED
      BY <1>9, <3>1
  <2>2. QED
    BY <1>7, <2>1
<1>19. \A k \in 1..n : entries[k].id # Invalid <=> Encodes(c, {s[k].key})
  BY <1>6, <1>8, ChangeIdentified
<1>20. (\A k \in 1..n : Encodes(c, {s[k].key})) <=> \A i \in DOMAIN es : Encodes(c, {es[i].key})
  BY <1>2, <1>3 DEF Within
<1>21. (\A k \in 1..n : entries[k].id # Invalid) => ValidChangeLedger(l)
  BY <1>6, <1>8, <1>10, <1>16, <1>17, <1>18 DEF ValidChangeLedger
<1>22. ValidChangeLedger(l) => \A k \in 1..n : entries[k].id # Invalid
  BY <1>6, <1>17 DEF ValidChangeLedger
<1>23. QED
  BY <1>19, <1>20, <1>21, <1>22

\* A log compiles if and only if its events can be encoded.
LEMMA LogCompiles ==
  Recorded =>
    (compile_change_event_ledger(context, window, ChangeEventLog(events)) = NoLedger <=>
     \E e \in ToSet(events) : ~Encodes(context, {e.key}))
<1> SUFFICES ASSUME Recorded, NEW log, log = ChangeEventLog(events)
             PROVE  compile_change_event_ledger(context, window, log) = NoLedger <=>
                    \E e \in ToSet(events) : ~Encodes(context, {e.key})
  OBVIOUS
<1>1. PICK l : l = [context |-> context, window |-> window,
                    entries |-> build_entries(context, window, log)]
  OBVIOUS
<1>2. ValidWindow(window) /\ events \in Seq(Events) /\ LogAccepts(events)
  BY ChangeAssumption DEF Recorded
<1>3. /\ log \in Seq(Events) /\ LogAccepts(log) /\ Len(log) = Len(events)
      /\ Within(log, events) /\ Within(events, log)
  BY <1>2, LogArranged
<1>4. ValidChangeLedger(l) <=> \A i \in DOMAIN log : Encodes(context, {log[i].key})
  BY <1>1, <1>2, <1>3, BuiltIsValid DEF LogAccepts
<1>5. (\A i \in DOMAIN log : Encodes(context, {log[i].key})) <=>
      ~\E e \in ToSet(events) : ~Encodes(context, {e.key})
  <2>1. \A e : e \in ToSet(events) <=> \E i \in DOMAIN events : e = events[i]
    BY DEF ToSet
  <2>2. (\A i \in DOMAIN log : Encodes(context, {log[i].key})) <=>
        \A i \in DOMAIN events : Encodes(context, {events[i].key})
    BY <1>3 DEF Within
  <2>3. QED
    BY <2>1, <2>2
<1>6. compile_change_event_ledger(context, window, log) =
        IF ValidChangeLedger(l) THEN l ELSE NoLedger
  BY <1>1, <1>2, <1>3 DEF compile_change_event_ledger
<1>7. l # NoLedger
  <2>1. "context" \in DOMAIN l /\ "context" \notin DOMAIN NoLedger
    BY <1>1 DEF NoLedger
  <2>2. QED
    BY <2>1
<1>8. QED
  BY <1>4, <1>5, <1>6, <1>7

\* A ledger has passed the validator.
ChangesValid == changes # NoLedger => ValidChangeLedger(changes)

\* Only a ledger that passed becomes the ledger.
LEMMA ChangesValidStep == ChangesValid /\ [ChangeNext]_changeVars => ChangesValid'
<1> SUFFICES ASSUME ChangesValid, [ChangeNext]_changeVars, changes' # NoLedger
             PROVE  ValidChangeLedger(changes')
  BY DEF ChangesValid
<1>1. CASE UNCHANGED changes
  BY <1>1 DEF ChangesValid
<1>2. CASE CompileChanges
  BY <1>2 DEF CompileChanges, compile_change_event_ledger
<1>3. QED
  BY <1>1, <1>2 DEF ChangeNext, Observe, VerifyChanges, changeVars

\* The serialiser asks for a strict order, which entries without repetition have,
\* and for text that can be encoded, as the text of entries with an id can.
LEMMA ChangesSerialise ==
  Recorded /\ ChangesValid /\ changes # NoLedger =>
    (ChangeLedgerSerialises(changes) <=> context \notin UnencodableContexts)
<1> SUFFICES ASSUME Recorded, ChangesValid, changes # NoLedger
             PROVE  ChangeLedgerSerialises(changes) <=> context \notin UnencodableContexts
  OBVIOUS
<1>1. PICK s : s = changes.entries
  OBVIOUS
<1>2. ValidChangeLedger(changes) /\ s \in Seq(ChangeEntries(context, window)) /\ ~Repeats(s)
  BY <1>1 DEF Recorded, ChangesValid
<1>3. PICK n \in Nat : n = Len(s) /\ DOMAIN s = 1..n
  BY <1>2
<1>4. \A k \in 2..n : ~ByOccurrence(s[k], s[k - 1])
  BY <1>1, <1>2, <1>3 DEF ValidChangeLedger
<1>5. ASSUME NEW k \in 2..n PROVE ByOccurrence(s[k - 1], s[k])
  <2>1. k \in 1..n /\ k - 1 \in 1..n /\ k - 1 # k
    OBVIOUS
  <2>2. s[k] \in ChangeEntries(context, window) /\ s[k - 1] \in ChangeEntries(context, window)
    BY <1>2, <1>3, <2>1
  <2>3. PICK x : x = s[k - 1]
    OBVIOUS
  <2>4. PICK y : y = s[k]
    OBVIOUS
  <2>5. /\ x.at \in Int /\ x.kind \in Int /\ x.key \in Int
        /\ y.at \in Int /\ y.kind \in Int /\ y.key \in Int
    <3>1. PICK d \in Events : x = ChangeEntry(context, window, d)
      BY <2>2, <2>3 DEF ChangeEntries
    <3>2. PICK e \in Events : y = ChangeEntry(context, window, e)
      BY <2>2, <2>4 DEF ChangeEntries
    <3>3. QED
      BY <3>1, <3>2, EntryIdentity DEF Events
  <2>6. Identity(x) # Identity(y)
    BY <1>2, <1>3, <2>1, <2>3, <2>4 DEF Repeats
  <2>7. ~ByOccurrence(y, x)
    BY <1>4, <2>3, <2>4
  <2>8. ~(x.at = y.at /\ x.kind = y.kind /\ x.key = y.key)
    BY <2>6 DEF Identity
  <2>9. ByOccurrence(x, y)
    BY <2>5, <2>7, <2>8 DEF ByOccurrence
  <2>10. QED
    BY <2>3, <2>4, <2>9
<1>6. ASSUME NEW x \in ToSet(KeysOf(s)) PROVE x \notin UnencodableKeys
  <2>1. PICK k \in DOMAIN s : x = s[k].key
    BY <1>6 DEF ToSet, KeysOf
  <2>2. PICK e \in Events : s[k] = ChangeEntry(context, window, e)
    <3>1. s[k] \in ChangeEntries(context, window)
      BY <1>2
    <3>2. QED
      BY <3>1 DEF ChangeEntries
  <2>3. s[k].id # Invalid
    BY <1>1, <1>2 DEF ValidChangeLedger
  <2>4. Encodes(context, {e.key})
    BY <2>2, <2>3, ChangeIdentified
  <2>5. x = e.key
    BY <2>1, <2>2, EntryIdentity
  <2>6. QED
    BY <2>4, <2>5 DEF Encodes
<1>7. changes.context = context
  BY DEF Recorded
<1>8. Encodes(changes.context, ToSet(KeysOf(changes.entries))) <=> context \notin UnencodableContexts
  BY <1>1, <1>6, <1>7 DEF Encodes
<1>9. QED
  BY <1>1, <1>2, <1>3, <1>5, <1>8 DEF ChangeLedgerSerialises

\* An answer about changes is one the serialiser accepts.
LEMMA ChangePredicateAccepted ==
  ASSUME NEW c, NEW w, NEW entries \in Seq(ChangeEntries(c, w)), NEW p \in Claims,
         NEW r, r = change_evaluate_predicate(p, entries)
  PROVE  /\ ChangePredicateSerialises(r) /\ r.pid = p.pid
         /\ r.reason \notin GateReasons
<1>1. PICK matching : matching = Matching(p, entries)
  OBVIOUS
<1>2. PICK fits : fits = Fitting(p, entries)
  OBVIOUS
<1>3. r = IF matching = <<>> THEN ChangeUnknown(p, "change_not_observed")
          ELSE IF fits # <<>> THEN ChangeResult(p, "supported", "none", IdsOf(fits), <<>>)
          ELSE ChangeResult(p, "refuted", "none", <<>>, IdsOf(matching))
  BY <1>1, <1>2 DEF change_evaluate_predicate
<1>4. matching \in Seq(ChangeEntries(c, w)) /\ fits \in Seq(ChangeEntries(c, w))
  <2>1. PICK K : K = {k \in DOMAIN entries : entries[k].key = p.key /\ entries[k].kind = p.kind}
    OBVIOUS
  <2>2. K \in SUBSET DOMAIN entries /\ matching = Kept(entries, K)
    BY <1>1, <2>1 DEF Matching
  <2>3. matching \in Seq(ChangeEntries(c, w))
    BY <2>2, KeptElements
  <2>4. PICK F : F = {k \in DOMAIN matching : phase_satisfies(matching[k].phase, p.phase)}
    OBVIOUS
  <2>5. F \in SUBSET DOMAIN matching /\ fits = Kept(matching, F)
    BY <1>1, <1>2, <2>4 DEF Fitting
  <2>6. fits \in Seq(ChangeEntries(c, w))
    BY <2>3, <2>5, KeptElements
  <2>7. QED
    BY <2>3, <2>6
<1>5. ASSUME NEW s \in Seq(ChangeEntries(c, w)), s # <<>> PROVE IdsOf(s) # <<>>
  <2>1. DOMAIN s # {}
    <3>1. s = <<>> <=> DOMAIN s = {}
      BY EmptySeq
    <3>2. QED
      BY <1>5, <3>1, Zenon
  <2>2. DOMAIN IdsOf(s) = DOMAIN s
    BY DEF IdsOf
  <2>3. DOMAIN <<>> = {}
    OBVIOUS
  <2>4. QED
    BY <2>1, <2>2, <2>3
<1>6. ToSet(<<>>) = {}
  BY DEF ToSet
<1>7. CASE matching = <<>>
  <2>1. /\ r.pid = p.pid /\ r.verdict = "unknown" /\ r.reason = "change_not_observed"
        /\ r.supporting = <<>> /\ r.contradicting = <<>>
    BY <1>3, <1>7 DEF ChangeUnknown, ChangeResult
  <2>2. QED
    BY <1>6, <2>1 DEF ChangePredicateSerialises, GateReasons
<1>8. CASE matching # <<>> /\ fits # <<>>
  <2>1. /\ r.pid = p.pid /\ r.verdict = "supported" /\ r.reason = "none"
        /\ r.supporting = IdsOf(fits) /\ r.contradicting = <<>>
    BY <1>3, <1>8 DEF ChangeResult
  <2>2. IdsOf(fits) # <<>>
    BY <1>4, <1>5, <1>8
  <2>3. QED
    BY <1>6, <2>1, <2>2 DEF ChangePredicateSerialises, GateReasons
<1>9. CASE matching # <<>> /\ fits = <<>>
  <2>1. /\ r.pid = p.pid /\ r.verdict = "refuted" /\ r.reason = "none"
        /\ r.supporting = <<>> /\ r.contradicting = IdsOf(matching)
    BY <1>3, <1>9 DEF ChangeResult
  <2>2. IdsOf(matching) # <<>>
    BY <1>4, <1>5, <1>9
  <2>3. QED
    BY <1>6, <2>1, <2>2 DEF ChangePredicateSerialises, GateReasons
<1>10. QED
  BY <1>7, <1>8, <1>9

\* What the serialiser demands of a verification, besides that it can be encoded.
FindingSound(v) ==
  /\ v.results # <<>> /\ Distinct(v.results, "pid")
  /\ \A k \in DOMAIN v.results : ChangePredicateSerialises(v.results[k])
  /\ v.supporting = Cited(v.results, "supporting")
  /\ v.contradicting = Cited(v.results, "contradicting")
  /\ v.verdict = ExpectedVerdict(v.composition, v.results)
  /\ IF v.reason # "none"
     THEN /\ v.reason \in GateReasons /\ v.verdict = "unknown"
          /\ v.supporting = <<>> /\ v.contradicting = <<>>
          /\ \A k \in DOMAIN v.results :
               v.results[k].verdict = "unknown" /\ v.results[k].reason = v.reason
     ELSE \A k \in DOMAIN v.results : v.results[k].reason \notin GateReasons

\* What the verifier finds about changes is serialised if and only if the ids of
\* the hypothesis can be encoded.
LEMMA ChangeVerificationAccepted ==
  ASSUME Recorded, NEW l, l.entries \in Seq(ChangeEntries(context, window)),
         NEW v, v = verify_change_hypothesis(hypothesis, l)
  PROVE  ChangeVerificationSerialises(v) <=> hypothesis.encodable
<1>1. PICK ps : ps = hypothesis.predicates
  OBVIOUS
<1>2. /\ ps \in Seq(Claims) /\ hypothesis.composition \in {"all", "any"}
      /\ Len(ps) >= 1 /\ Distinct(ps, "pid")
  BY <1>1, ChangeAssumption DEF Recorded, Claims, ValidChangeDocument
<1>3. PICK n \in Nat : n = Len(ps) /\ n > 0 /\ DOMAIN ps = 1..n
  BY <1>2
<1>4. PICK entries : entries = l.entries /\ entries \in Seq(ChangeEntries(context, window))
  OBVIOUS
<1>5. PICK reason : reason = DocumentReason(hypothesis, l)
  OBVIOUS
<1>6. PICK results : results = [k \in 1..n |->
                       IF reason # "none" THEN ChangeUnknown(ps[k], reason)
                       ELSE change_evaluate_predicate(ps[k], entries)]
  OBVIOUS
<1>7. /\ v.composition = hypothesis.composition /\ v.reason = reason /\ v.results = results
      /\ v.verdict = IF reason # "none" THEN "unknown"
                     ELSE change_compose(hypothesis.composition, results)
      /\ v.supporting = Cited(results, "supporting")
      /\ v.contradicting = Cited(results, "contradicting")
  BY <1>1, <1>3, <1>4, <1>5, <1>6 DEF verify_change_hypothesis
<1>8. DOMAIN results = 1..n
  BY <1>6
<1>9. results # <<>>
  BY <1>3, <1>8
<1>10. reason = "none" \/ reason \in GateReasons
  BY <1>5 DEF DocumentReason, GateReasons
<1>11. ASSUME NEW k \in 1..n, NEW r, r = results[k]
       PROVE  /\ ChangePredicateSerialises(r) /\ r.pid = ps[k].pid
              /\ reason = "none" => r.reason \notin GateReasons
              /\ reason # "none" =>
                   /\ r.verdict = "unknown" /\ r.reason = reason
                   /\ r.supporting = <<>> /\ r.contradicting = <<>>
  <2>1. CASE reason # "none"
    <3>1. r = ChangeUnknown(ps[k], reason)
      BY <1>6, <1>11, <2>1
    <3>2. /\ r.pid = ps[k].pid /\ r.verdict = "unknown" /\ r.reason = reason
          /\ r.supporting = <<>> /\ r.contradicting = <<>>
      BY <3>1 DEF ChangeUnknown, ChangeResult
    <3>3. ToSet(r.supporting) \cap ToSet(r.contradicting) = {}
      BY <3>2 DEF ToSet
    <3>4. QED
      BY <2>1, <3>2, <3>3 DEF ChangePredicateSerialises
  <2>2. CASE reason = "none"
    <3>1. ps[k] \in Claims
      BY <1>2, <1>3
    <3>2. r = change_evaluate_predicate(ps[k], entries)
      BY <1>6, <1>11, <2>2
    <3>3. QED
      BY <1>4, <2>2, <3>1, <3>2, ChangePredicateAccepted
  <2>3. QED
    BY <2>1, <2>2
<1>12. Distinct(results, "pid")
  <2>1. \A k \in 1..n : results[k].pid = ps[k].pid
    BY <1>11
  <2>2. QED
    BY <1>2, <1>3, <1>8, <2>1 DEF Distinct
<1>13. \A k \in DOMAIN results : ChangePredicateSerialises(results[k])
  BY <1>8, <1>11
<1>14. ASSUME reason = "none" PROVE FindingSound(v)
  <2>1. v.verdict = ExpectedVerdict(v.composition, results)
    BY <1>2, <1>7, <1>14, ComposedAsExpected
  <2>2. \A k \in DOMAIN results : results[k].reason \notin GateReasons
    BY <1>8, <1>11, <1>14
  <2>3. QED
    BY <1>7, <1>9, <1>12, <1>13, <1>14, <2>1, <2>2 DEF FindingSound
<1>15. ASSUME reason # "none" PROVE FindingSound(v)
  <2>1. \A k \in DOMAIN results :
          /\ results[k].verdict = "unknown" /\ results[k].reason = reason
          /\ results[k].supporting = <<>> /\ results[k].contradicting = <<>>
    BY <1>8, <1>11, <1>15
  <2>2. Cited(results, "supporting") = <<>> /\ Cited(results, "contradicting") = <<>>
    BY <2>1, NothingCited
  <2>3. ExpectedVerdict(v.composition, results) = "unknown"
    <3>1. DOMAIN results # {}
      BY <1>3, <1>8
    <3>2. QED
      BY <2>1, <3>1, UnknownExpected
  <2>4. QED
    BY <1>7, <1>9, <1>10, <1>12, <1>13, <1>15, <2>1, <2>2, <2>3
       DEF FindingSound
<1>16. ChangeVerificationSerialises(v) <=> v.encodable /\ FindingSound(v)
  BY Zenon DEF ChangeVerificationSerialises, FindingSound
<1>17. v.encodable = hypothesis.encodable
  BY DEF verify_change_hypothesis
<1>18. FindingSound(v)
  BY <1>14, <1>15
<1>19. QED
  BY <1>16, <1>17, <1>18, Zenon

\* Compiler and serialisers of changes refuse what cannot be encoded.
LEMMA ChangeStagesAgree == Recorded /\ Accumulated /\ ChangesValid => ChangeArtefactsAgree
<1> SUFFICES ASSUME Recorded, Accumulated, ChangesValid PROVE ChangeArtefactsAgree
  OBVIOUS
<1>1. compile_change_event_ledger(context, window, ChangeEventLog(events)) = NoLedger <=>
        \E e \in ToSet(events) : ~Encodes(context, {e.key})
  BY LogCompiles
<1>2. changes # NoLedger => (ChangeLedgerSerialises(changes) <=> context \notin UnencodableContexts)
  BY ChangesSerialise
<1>3. ASSUME finding # NoResult PROVE ChangeVerificationSerialises(finding) <=> hypothesis.encodable
  <2>1. PICK l : VerifiedFrom(l)
    BY <1>3 DEF Accumulated
  <2>2. /\ l.entries \in Seq(ChangeEntries(context, window))
        /\ finding = verify_change_hypothesis(hypothesis, l)
    BY <2>1 DEF VerifiedFrom
  <2>3. QED
    BY <2>2, ChangeVerificationAccepted
<1>4. QED
  BY <1>1, <1>2, <1>3, Zenon DEF ChangeArtefactsAgree

\* What one stage computes the next accepts, although each states the rules once
\* more (OwnWorkAccepted): the compiler every ranking, the serialisers every
\* ledger and every verification, of metrics and of changes, if and only if the
\* text in it can be encoded.
THEOREM OwnWorkIsAccepted == Spec /\ ChangeSpec => []OwnWorkAccepted
<1>1. Init => Held /\ RankedFrom /\ Agreed
  <2>1. ASSUME Init PROVE Agreed
    BY <2>1 DEF Init, Agreed
  <2>2. QED
    BY <2>1, HeldInit DEF Init, RankedFrom, Compiled
<1>2. Held /\ RankedFrom /\ Agreed /\ [Next]_vars => (Held /\ RankedFrom /\ Agreed)'
  BY HeldStep, RankedFromStep, AgreedStep
<1>3. ChangeInit => Recorded /\ Accumulated /\ ChangesValid
  BY RecordedInit DEF ChangeInit, Accumulated, ChangesValid
<1>4. Recorded /\ Accumulated /\ ChangesValid /\ [ChangeNext]_changeVars
        => (Recorded /\ Accumulated /\ ChangesValid)'
  BY RecordedStep, AccumulatedStep, ChangesValidStep
<1>5. Held /\ RankedFrom /\ Agreed /\ Recorded /\ Accumulated /\ ChangesValid
        => OwnWorkAccepted
  BY StagesAgree, ChangeStagesAgree DEF OwnWorkAccepted
<1>6. QED
  BY <1>1, <1>2, <1>3, <1>4, <1>5, PTL DEF Spec, ChangeSpec

\* The ways a ledger is altered, as far as the ids are concerned.
Turned(o) == o = [ledger EXCEPT !.entries = Reverse(ledger.entries)]
Shortened(o) ==
  \E k \in DOMAIN ledger.entries :
    o = [ledger EXCEPT !.entries = RemoveAt(ledger.entries, k)]
Swapped(o) ==
  \E j, k \in DOMAIN ledger.entries : o = WithField(k, "id", ledger.entries[j].id)
Rewritten(o) ==
  \E k \in DOMAIN ledger.entries :
    \E f \in {"pre_count", "floor", "relative", "candidate"} : \E x : o = WithField(k, f, x)

\* Every alteration is one of these.
LEMMA AlteredOnce ==
  ASSUME NEW o \in Altered
  PROVE  o \in Reheaded \/ Turned(o) \/ Shortened(o) \/ Swapped(o) \/ Rewritten(o)
<1>1. o \in Reheaded \/ o \in Reordered \/ o \in Renamed \/ o \in Recounted \/ o \in Rescored
  BY DEF Altered
<1>2. o \in Reordered => Turned(o) \/ Shortened(o)
  BY Zenon DEF Reordered, Turned, Shortened
<1>3. ASSUME o \in Renamed PROVE Swapped(o)
  <2>1. PICK p \in (DOMAIN ledger.entries) \X (DOMAIN ledger.entries) :
               o = WithField(p[1], "id", ledger.entries[p[2]].id)
    BY <1>3, Zenon DEF Renamed
  <2>2. p[1] \in DOMAIN ledger.entries /\ p[2] \in DOMAIN ledger.entries
    BY <2>1
  <2>3. QED
    BY <2>1, <2>2, Zenon DEF Swapped
<1>4. \A k \in DOMAIN ledger.entries :
        \A f \in {"pre_count", "floor", "relative", "candidate"} : \A x : Rewritten(WithField(k, f, x))
  BY DEF Rewritten
<1>5. o \in Recounted => Rewritten(o)
  BY <1>4, Zenon DEF Recounted
<1>6. \A k \in DOMAIN ledger.entries : \A f, x : Rewritten(WithCandidate(k, f, x))
  BY <1>4, Zenon DEF WithCandidate
<1>7. o \in Rescored => Rewritten(o)
  BY <1>6, Zenon DEF Rescored
<1>8. QED
  BY <1>1, <1>2, <1>3, <1>5, <1>7, Zenon

\* What a sequence without one of its elements has left.
LEMMA ShortenedWithin ==
  ASSUME NEW A, NEW s \in Seq(A), NEW k \in DOMAIN s, NEW r, r = RemoveAt(s, k)
  PROVE  Within(r, s) /\ \E m \in Nat : DOMAIN r = 1..m
<1>1. PICK n \in Nat : n = Len(s) /\ DOMAIN s = 1..n
  OBVIOUS
<1>2. PICK a : a = SubSeq(s, 1, k - 1)
  OBVIOUS
<1>3. PICK b : b = SubSeq(s, k + 1, n)
  OBVIOUS
<1>4. k \in 1..n
  BY <1>1
<1>5. a \in Seq(A) /\ Len(a) = k - 1 /\ \A i \in 1..(k - 1) : a[i] = s[i]
  BY <1>1, <1>2, <1>4
<1>6. b \in Seq(A) /\ Len(b) = n - k /\ \A i \in 1..(n - k) : b[i] = s[i + k]
  BY <1>1, <1>3, <1>4
<1>7. r = a \o b
  BY <1>1, <1>2, <1>3 DEF RemoveAt
<1>8. DOMAIN r = 1..(n - 1)
  BY <1>4, <1>5, <1>6, <1>7
<1>9. ASSUME NEW i \in 1..(n - 1) PROVE \E j \in 1..n : r[i] = s[j]
  <2>1. CASE i < k
    <3>1. r[i] = a[i] /\ i \in 1..(k - 1) /\ i \in 1..n
      BY <1>4, <1>5, <1>6, <1>7, <2>1
    <3>2. QED
      BY <1>5, <3>1
  <2>2. CASE i >= k
    <3>1. r[i] = b[i - (k - 1)] /\ i - (k - 1) \in 1..(n - k) /\ i + 1 \in 1..n
      BY <1>4, <1>5, <1>6, <1>7, <2>2, SMTT(40)
    <3>2. b[i - (k - 1)] = s[i + 1]
      <4>1. PICK x \in 1..(n - k) : x = i - (k - 1)
        BY <3>1
      <4>2. b[x] = s[x + k]
        BY <1>6
      <4>3. x + k = i + 1
        BY <1>4, <4>1
      <4>4. QED
        BY <4>1, <4>2, <4>3
    <3>3. QED
      BY <3>1, <3>2
  <2>3. QED
    BY <1>4, <2>1, <2>2
<1>10. Within(r, s)
  BY <1>1, <1>8, <1>9 DEF Within
<1>11. n - 1 \in Nat
  BY <1>4
<1>12. QED
  BY <1>8, <1>10, <1>11

\* Whatever was altered, every id left is one of the ledger's, and the ledger's
\* head is untouched where no entry is left.
Heads == {"schema", "context", "window", "policy", "decision"}
Near(o) ==
  /\ DOMAIN o = Heads \cup {"entries"} /\ o = [f \in DOMAIN o |-> o[f]]
  /\ \E m \in Nat : DOMAIN o.entries = 1..m
  /\ \A k \in DOMAIN o.entries : \E j \in DOMAIN ledger.entries :
       o.entries[k].id = ledger.entries[j].id
  /\ DOMAIN o.entries = {} => \A f \in Heads : o[f] = ledger[f]

\* So is every ledger that was altered in one place.
LEMMA AlteredNear ==
  ASSUME DOMAIN ledger = Heads \cup {"entries"}, ledger = [f \in DOMAIN ledger |-> ledger[f]],
         ledger.entries \in Seq(ToSet(ledger.entries)), ledger.entries # <<>>,
         \A k \in DOMAIN ledger.entries : "id" \in DOMAIN ledger.entries[k],
         NEW o \in Altered
  PROVE  Near(o)
<1>1. PICK E : E = ledger.entries
  OBVIOUS
<1>2. /\ E \in Seq(ToSet(E)) /\ E # <<>> /\ \A k \in DOMAIN E : "id" \in DOMAIN E[k]
      /\ DOMAIN E # {} /\ \E m \in Nat : DOMAIN E = 1..m
  <2>1. E \in Seq(ToSet(E)) /\ E # <<>> /\ \A k \in DOMAIN E : "id" \in DOMAIN E[k]
    BY <1>1
  <2>2. QED
    BY <2>1, EmptySeq
<1>3. ASSUME NEW es, o = [ledger EXCEPT !.entries = es]
      PROVE  /\ DOMAIN o = Heads \cup {"entries"} /\ o = [f \in DOMAIN o |-> o[f]]
             /\ o.entries = es /\ \A f \in Heads : o[f] = ledger[f]
  BY <1>3 DEF Heads
<1>11. ASSUME NEW es, o = [ledger EXCEPT !.entries = es],
              \E m \in Nat : DOMAIN es = 1..m,
              \A k \in DOMAIN es : \E j \in DOMAIN E : es[k].id = E[j].id
       PROVE  Near(o)
  <2>1. /\ DOMAIN o = Heads \cup {"entries"} /\ o = [f \in DOMAIN o |-> o[f]]
        /\ o.entries = es /\ \A f \in Heads : o[f] = ledger[f]
    BY <1>3, <1>11
  <2>2. \A k \in DOMAIN o.entries : \E j \in DOMAIN ledger.entries :
          o.entries[k].id = ledger.entries[j].id
    BY <1>1, <1>11, <2>1
  <2>3. \E m \in Nat : DOMAIN o.entries = 1..m
    BY <1>11, <2>1, Zenon
  <2>4. QED
    BY <2>1, <2>2, <2>3, Zenon DEF Near
<1>12. ASSUME NEW es, Within(es, E)
       PROVE  \A k \in DOMAIN es : \E j \in DOMAIN E : es[k].id = E[j].id
  <2>1. ASSUME NEW k \in DOMAIN es PROVE \E j \in DOMAIN E : es[k].id = E[j].id
    <3>1. PICK j \in DOMAIN E : es[k] = E[j]
      BY <1>12 DEF Within
    <3>2. QED
      BY <3>1
  <2>2. QED
    BY <2>1
<1>4. CASE o \in Reheaded
  <2>1. /\ DOMAIN o = Heads \cup {"entries"} /\ o = [f \in DOMAIN o |-> o[f]]
        /\ o.entries = E
    BY <1>1, <1>4 DEF Reheaded, Heads
  <2>2. QED
    BY <1>1, <1>2, <2>1 DEF Near
<1>5. CASE Turned(o)
  <2>1. PICK r : r = Reverse(E)
    OBVIOUS
  <2>2. Within(r, E) /\ \E m \in Nat : DOMAIN r = 1..m
    BY <1>2, <2>1, ReversedHas
  <2>3. o = [ledger EXCEPT !.entries = r]
    BY <1>1, <1>5, <2>1 DEF Turned
  <2>4. QED
    BY <1>11, <1>12, <2>2, <2>3
<1>6. CASE Shortened(o)
  <2>1. PICK k \in DOMAIN E : o = [ledger EXCEPT !.entries = RemoveAt(E, k)]
    BY <1>1, <1>6 DEF Shortened
  <2>2. PICK r : r = RemoveAt(E, k)
    OBVIOUS
  <2>3. Within(r, E) /\ \E m \in Nat : DOMAIN r = 1..m
    BY <1>2, <2>2, ShortenedWithin
  <2>4. o = [ledger EXCEPT !.entries = r]
    BY <2>1, <2>2
  <2>5. QED
    BY <1>11, <1>12, <2>3, <2>4
<1>7. ASSUME NEW k \in DOMAIN E, NEW f, NEW x, o = WithField(k, f, x),
             f # "id" \/ \E j \in DOMAIN E : x = E[j].id
      PROVE  Near(o)
  <2>1. PICK e : e = [E[k] EXCEPT ![f] = x]
    OBVIOUS
  <2>2. PICK es : es = [E EXCEPT ![k] = e]
    OBVIOUS
  <2>3. o = [ledger EXCEPT !.entries = es]
    BY <1>1, <1>7, <2>1, <2>2 DEF WithField
  <2>4. DOMAIN es = DOMAIN E /\ es[k] = e /\ \A i \in DOMAIN E : i # k => es[i] = E[i]
    BY <2>2
  <2>5. \E j \in DOMAIN E : e.id = E[j].id
    <3>1. CASE f = "id"
      BY <1>2, <1>7, <2>1, <3>1
    <3>2. CASE f # "id"
      BY <1>2, <2>1, <3>2
    <3>3. QED
      BY <3>1, <3>2
  <2>6. \A i \in DOMAIN es : \E j \in DOMAIN E : es[i].id = E[j].id
    <3>1. ASSUME NEW i \in DOMAIN E PROVE \E j \in DOMAIN E : es[i].id = E[j].id
      <4>1. CASE i = k
        BY <2>4, <2>5, <4>1
      <4>2. CASE i # k
        BY <2>4, <4>2
      <4>3. QED
        BY <4>1, <4>2
    <3>2. QED
      BY <2>4, <3>1
  <2>7. QED
    BY <1>2, <1>11, <2>3, <2>4, <2>6
<1>8. CASE Swapped(o)
  BY <1>1, <1>7, <1>8 DEF Swapped
<1>9. CASE Rewritten(o)
  <2>1. PICK k \in DOMAIN E, f \in {"pre_count", "floor", "relative", "candidate"} :
               \E x : o = WithField(k, f, x)
    BY <1>1, <1>9 DEF Rewritten
  <2>2. PICK x : o = WithField(k, f, x)
    BY <2>1
  <2>3. QED
    BY <1>7, <2>2
<1>10. QED
  BY <1>4, <1>5, <1>6, <1>8, <1>9, AlteredOnce

\* A sorted sequence is a function on its places.
LEMMA SortedIsList ==
  ASSUME NEW s, NEW before
  PROVE  Sorted(s, before) = [k \in DOMAIN Sorted(s, before) |-> Sorted(s, before)[k]]
BY DEF Sorted

\* A valid ledger that is near the compiled one has the same head, and of its
\* entries no eligible one is missing: the decision names the candidates.
LEMMA NearDetected ==
  ASSUME NEW p, NEW evs, Listed(evs, p), NEW d, d = DecisionOf(p, CandidatesOf(evs)),
         ledger = LedgerOf(p, d, evs), ledger.entries # <<>>,
         NEW o, Near(o), ValidLedger(o)
  PROVE  /\ [o EXCEPT !.entries = ledger.entries] = ledger
         /\ ToSet(o.entries) \subseteq ToSet(ledger.entries)
         /\ \A e \in ToSet(ledger.entries) \ ToSet(o.entries) : ~e.eligible
<1>1. PICK E : E = ledger.entries
  OBVIOUS
<1>2. /\ evs \in Seq(Evaluations) /\ \A k \in DOMAIN evs : Evaluates(evs[k])
      /\ \A j, k \in DOMAIN evs : j < k => evs[j].key < evs[k].key
  BY DEF Listed
<1>3. /\ ledger.schema = SchemaVersion /\ ledger.context = Context /\ ledger.window = Window
      /\ ledger.policy = p /\ ledger.decision = d
      /\ E \in Seq(ToSet(E)) /\ Len(E) = Len(evs)
      /\ \A k \in DOMAIN evs : E[k] = EntryOf(Context, Window, p, d, evs[k])
  BY <1>1, <1>2, LedgerHolds
<1>4. DOMAIN E = DOMAIN evs
  BY <1>2, <1>3
<1>5. PICK ordered : ordered = SortedByKey([k \in DOMAIN o.entries |-> Evaluation(o.entries[k])])
  OBVIOUS
<1>7. PICK oc, ow, op, od : oc = o.context /\ ow = o.window /\ op = o.policy /\ od = o.decision
  OBVIOUS
<1>8. /\ o.schema = SchemaVersion /\ o.entries = EntriesOf(oc, ow, op, od, ordered)
      /\ ledger_decision(od, op, CandidatesOf(ordered))
  BY <1>5, <1>7 DEF ValidLedger
<1>6. PICK m \in Nat : DOMAIN ordered = 1..m /\ ordered = [k \in 1..m |-> ordered[k]]
  <2>1. PICK m \in Nat : DOMAIN o.entries = 1..m
    BY DEF Near
  <2>2. DOMAIN ordered = DOMAIN o.entries
    BY <1>8 DEF EntriesOf
  <2>3. ordered = [k \in DOMAIN ordered |-> ordered[k]]
    <3>1. PICK s, before : ordered = Sorted(s, before)
      BY <1>5, Zenon DEF SortedByKey
    <3>2. QED
      BY <3>1, SortedIsList
  <2>4. QED
    BY <2>1, <2>2, <2>3
<1>9. DOMAIN o.entries = 1..m /\ \A k \in 1..m : o.entries[k] = EntryOf(oc, ow, op, od, ordered[k])
  BY <1>6, <1>8 DEF EntriesOf
<1>10. ASSUME NEW k \in 1..m
       PROVE  /\ oc = Context /\ ow = Window /\ op = p /\ od = d
              /\ \E j \in DOMAIN evs : ordered[k] = evs[j] /\ o.entries[k] = E[j]
  <2>1. PICK j \in DOMAIN evs : o.entries[k].id = E[j].id
    BY <1>1, <1>4, <1>9 DEF Near
  <2>2. o.entries[k] = EntryOf(oc, ow, op, od, ordered[k])
        /\ E[j] = EntryOf(Context, Window, p, d, evs[j])
    BY <1>3, <1>9
  <2>3. entry_payload(oc, ow, op, od, ordered[k]) = entry_payload(Context, Window, p, d, evs[j])
    <3>1. PICK a, b : a = entry_payload(oc, ow, op, od, ordered[k])
                      /\ b = entry_payload(Context, Window, p, d, evs[j])
      OBVIOUS
    <3>2. o.entries[k].id = evidence_id(a) /\ E[j].id = evidence_id(b)
      BY <2>2, <3>1 DEF EntryOf
    <3>3. o.entries[k].id # Invalid
      BY <1>9 DEF ValidLedger
    <3>4. a = b
      BY <2>1, <3>2, <3>3, IdentityTells
    <3>5. QED
      BY <3>1, <3>4
  <2>4. oc = Context /\ ow = Window /\ op = p /\ od = d /\ ordered[k] = evs[j]
    BY <2>3 DEF entry_payload
  <2>5. QED
    BY <2>2, <2>4
<1>11. oc = Context /\ ow = Window /\ op = p /\ od = d
  <2>1. CASE m = 0
    <3>1. DOMAIN o.entries = {}
      BY <1>9, <2>1
    <3>2. /\ o.context = ledger.context /\ o.window = ledger.window
          /\ o.policy = ledger.policy /\ o.decision = ledger.decision
      BY <3>1 DEF Near, Heads
    <3>3. QED
      BY <1>3, <1>7, <3>2
  <2>2. CASE m # 0
    <3>1. 1 \in 1..m
      BY <2>2
    <3>2. QED
      BY <1>10, <3>1
  <2>3. QED
    BY <2>1, <2>2
<1>12. [o EXCEPT !.entries = ledger.entries] = ledger
  <2>1. /\ DOMAIN o = Heads \cup {"entries"} /\ o = [f \in DOMAIN o |-> o[f]]
    BY DEF Near
  <2>2. /\ o.schema = ledger.schema /\ o.context = ledger.context /\ o.window = ledger.window
        /\ o.policy = ledger.policy /\ o.decision = ledger.decision
    BY <1>3, <1>7, <1>8, <1>11
  <2>3. ledger = [schema |-> ledger.schema, context |-> ledger.context, window |-> ledger.window,
                  policy |-> ledger.policy, decision |-> ledger.decision,
                  entries |-> ledger.entries]
    BY DEF LedgerOf
  <2>4. QED
    BY <2>1, <2>2, <2>3 DEF Heads
<1>13. ToSet(o.entries) \subseteq ToSet(E)
  BY <1>4, <1>9, <1>10 DEF ToSet
<1>14. ordered \in Seq(Evaluations) /\ \A k \in DOMAIN ordered : Evaluates(ordered[k])
  <2>1. ASSUME NEW k \in 1..m PROVE ordered[k] \in Evaluations /\ Evaluates(ordered[k])
    <3>1. PICK j \in DOMAIN evs : ordered[k] = evs[j]
      BY <1>10
    <3>2. QED
      BY <1>2, <3>1
  <2>2. QED
    BY <1>6, <2>1
<1>15. PICK cs : cs = CandidatesOf(evs)
  OBVIOUS
<1>16. PICK left : left = CandidatesOf(ordered)
  OBVIOUS
<1>17. KeysOf(left) = KeysOf(cs)
  <2>1. d.keys = KeysOf(left)
    BY <1>8, <1>11, <1>16 DEF ledger_decision
  <2>2. d.keys = KeysOf(cs)
    BY <1>15 DEF DecisionOf, Decision
  <2>3. QED
    BY <2>1, <2>2
<1>18. ASSUME NEW e \in ToSet(E), e.eligible PROVE e \in ToSet(o.entries)
  <2>1. PICK j \in DOMAIN evs : e = E[j]
    BY <1>4 DEF ToSet
  <2>2. PICK v : v = evs[j]
    OBVIOUS
  <2>3. v \in Evaluations /\ Evaluates(v) /\ e.eligible = v.eligible
    <3>1. e = EntryOf(Context, Window, p, d, v)
      BY <1>3, <2>1, <2>2
    <3>2. e.eligible = v.eligible
      BY <3>1 DEF EntryOf
    <3>3. QED
      BY <1>2, <2>2, <3>2
  <2>4. v.candidate # NoCandidate /\ v.candidate.key = v.key
    BY <1>18, <2>3 DEF Evaluates
  <2>5. PICK i \in DOMAIN cs : cs[i] = v.candidate
    BY <1>2, <1>15, <2>2, <2>4, CandidatesListed
  <2>6. i \in DOMAIN left /\ left[i].key = v.key
    <3>1. DOMAIN KeysOf(cs) = DOMAIN cs /\ KeysOf(cs)[i] = cs[i].key
      BY DEF KeysOf
    <3>2. DOMAIN KeysOf(left) = DOMAIN left
      BY DEF KeysOf
    <3>3. i \in DOMAIN left
      BY <1>17, <3>1, <3>2
    <3>4. KeysOf(left)[i] = left[i].key
      BY <3>3 DEF KeysOf
    <3>5. QED
      BY <1>17, <2>4, <2>5, <3>1, <3>3, <3>4
  <2>7. left \in Seq(Candidates) /\ \A k \in DOMAIN left : \E x \in DOMAIN ordered :
          left[k] = ordered[x].candidate
    BY <1>14, <1>16, CandidatesListed
  <2>8. PICK x \in 1..m : left[i] = ordered[x].candidate
    BY <1>6, <2>6, <2>7
  <2>9. PICK y \in DOMAIN evs : ordered[x] = evs[y] /\ o.entries[x] = E[y]
    BY <1>10
  <2>10. evs[y].key = v.key
    <3>1. left[i] \in Candidates
      BY <2>6, <2>7
    <3>2. left[i] # NoCandidate
      BY <3>1, NoCandidateIsNone
    <3>3. Evaluates(evs[y]) /\ evs[y].candidate = left[i]
      BY <1>2, <2>8, <2>9
    <3>4. QED
      BY <2>6, <3>2, <3>3 DEF Evaluates
  <2>11. y = j
    <3>1. evs[y] \in Evaluations /\ evs[j] \in Evaluations
      BY <1>2
    <3>2. evs[y].key \in Int /\ evs[j].key \in Int
      BY <3>1 DEF Evaluations
    <3>3. y \in Int /\ j \in Int
      BY <1>2
    <3>4. (y < j => evs[y].key < evs[j].key) /\ (j < y => evs[j].key < evs[y].key)
      BY <1>2
    <3>5. QED
      BY <2>2, <2>10, <3>2, <3>3, <3>4
  <2>12. x \in DOMAIN o.entries /\ o.entries[x] = e
    BY <1>9, <2>1, <2>9, <2>11
  <2>13. QED
    BY <2>12 DEF ToSet
<1>19. QED
  BY <1>1, <1>12, <1>13, <1>18

\* The validator sees every alteration of a compiled ledger.
LEMMA AlterationsSeen == Held /\ RankedFrom => AlterationDetected
<1> SUFFICES ASSUME Held, RankedFrom, pc = "propose", NEW o \in Altered,
                    ValidLedger(o), ledger.entries # <<>>
             PROVE  /\ [o EXCEPT !.entries = ledger.entries] = ledger
                    /\ ToSet(o.entries) \subseteq ToSet(ledger.entries)
                    /\ \A e \in ToSet(ledger.entries) \ ToSet(o.entries) : ~e.eligible
  BY DEF AlterationDetected
<1>1. RankedAs(baseline, ledger, policy)
  BY CompiledAsRanked DEF Compiled
<1>2. PICK evs : evs = baseline.evaluations
  OBVIOUS
<1>3. PICK d : d = DecisionOf(policy, CandidatesOf(evs))
  OBVIOUS
<1>4. Listed(evs, policy) /\ ledger = LedgerOf(policy, d, evs)
  BY <1>1, <1>2, <1>3 DEF RankedAs
<1>5. Near(o)
  <2>1. evs \in Seq(Evaluations)
    BY <1>4 DEF Listed
  <2>2. /\ ledger.entries \in Seq(ToSet(ledger.entries)) /\ Len(ledger.entries) = Len(evs)
        /\ \A k \in DOMAIN evs : ledger.entries[k] = EntryOf(Context, Window, policy, d, evs[k])
    BY <1>4, <2>1, LedgerHolds
  <2>3. ASSUME NEW k \in DOMAIN ledger.entries PROVE "id" \in DOMAIN ledger.entries[k]
    <3>1. k \in DOMAIN evs
      BY <2>1, <2>2
    <3>2. ledger.entries[k] = EntryOf(Context, Window, policy, d, evs[k])
      BY <2>2, <3>1
    <3>3. QED
      BY <3>2 DEF EntryOf
  <2>4. DOMAIN ledger = Heads \cup {"entries"} /\ ledger = [f \in DOMAIN ledger |-> ledger[f]]
    BY <1>4 DEF LedgerOf, Heads
  <2>5. QED
    BY <2>2, <2>3, <2>4, AlteredNear
<1>6. QED
  BY <1>3, <1>4, <1>5, NearDetected

-----------------------------------------------------------------------------
(* Altered ledgers of changes. *)

\* A ledger's fields.
ChangesFormed ==
  changes # NoLedger => DOMAIN changes = {"context", "window", "entries"}

\* A ledger is only ever replaced by another.
LEMMA ChangesFormedStep == ChangesFormed /\ [ChangeNext]_changeVars => ChangesFormed'
<1> SUFFICES ASSUME ChangesFormed, [ChangeNext]_changeVars, changes' # NoLedger
             PROVE  DOMAIN changes' = {"context", "window", "entries"}
  BY DEF ChangesFormed
<1>1. CASE UNCHANGED changes
  BY <1>1 DEF ChangesFormed
<1>2. CASE CompileChanges
  <2>1. changes' = [context |-> context, window |-> window,
                    entries |-> build_entries(context, window, ChangeEventLog(events))]
    BY <1>2 DEF CompileChanges, compile_change_event_ledger
  <2>2. QED
    BY <2>1
<1>3. QED
  BY <1>1, <1>2 DEF ChangeNext, Observe, VerifyChanges, changeVars

\* Whatever was altered, every id left is one of the ledger's.
IdsKept(l) ==
  \A k \in DOMAIN l.entries : \E j \in DOMAIN changes.entries :
    l.entries[k].id = changes.entries[j].id

\* So in every ledger of changes that was altered.
LEMMA ChangesAlteredKeepIds ==
  ASSUME DOMAIN changes = {"context", "window", "entries"},
         changes.entries \in Seq(ToSet(changes.entries)),
         \A k \in DOMAIN changes.entries : "id" \in DOMAIN changes.entries[k],
         NEW l \in ChangesAltered
  PROVE  IdsKept(l)
<1>1. PICK E : E = changes.entries
  OBVIOUS
<1>2. E \in Seq(ToSet(E)) /\ \A k \in DOMAIN E : "id" \in DOMAIN E[k]
  BY <1>1
<1>3. ASSUME NEW es, l.entries = es,
             \A k \in DOMAIN es : \E j \in DOMAIN E : es[k].id = E[j].id
      PROVE  IdsKept(l)
  BY <1>1, <1>3 DEF IdsKept
<1>4. ASSUME NEW es, Within(es, E)
      PROVE  \A k \in DOMAIN es : \E j \in DOMAIN E : es[k].id = E[j].id
  <2>1. ASSUME NEW k \in DOMAIN es PROVE \E j \in DOMAIN E : es[k].id = E[j].id
    <3>1. PICK j \in DOMAIN E : es[k] = E[j]
      BY <1>4 DEF Within
    <3>2. QED
      BY <3>1
  <2>2. QED
    BY <2>1
<1>5. CASE l \in Misplaced
  <2>1. DOMAIN Shifted = {"context", "window", "entries"} /\ Shifted.entries = E
    BY <1>1 DEF Shifted
  <2>2. CASE l = Shifted
    BY <1>3, <2>1, <2>2
  <2>3. CASE l = [changes EXCEPT !.context = [none |-> "context"]]
    <3>1. l.entries = E
      BY <1>1, <2>3
    <3>2. QED
      BY <1>3, <3>1
  <2>4. CASE l = [Shifted EXCEPT !.entries = [k \in DOMAIN changes.entries |-> Rephased(k)]]
    <3>1. l.entries = [k \in DOMAIN E |-> Rephased(k)]
      BY <1>1, <2>1, <2>4
    <3>2. \A k \in DOMAIN E : Rephased(k).id = E[k].id
      BY <1>1, <1>2 DEF Rephased
    <3>3. QED
      BY <1>3, <3>1, <3>2
  <2>5. QED
    BY <1>5, <2>2, <2>3, <2>4 DEF Misplaced
<1>6. ASSUME NEW k \in DOMAIN E, NEW f, NEW x, l = WithValue(k, f, x),
             f # "id" \/ \E j \in DOMAIN E : x = E[j].id
      PROVE  IdsKept(l)
  <2>1. PICK e : e = [E[k] EXCEPT ![f] = x]
    OBVIOUS
  <2>2. PICK es : es = [E EXCEPT ![k] = e]
    OBVIOUS
  <2>3. l.entries = es
    BY <1>1, <1>6, <2>1, <2>2 DEF WithValue
  <2>4. DOMAIN es = DOMAIN E /\ es[k] = e /\ \A i \in DOMAIN E : i # k => es[i] = E[i]
    BY <2>2
  <2>5. \E j \in DOMAIN E : e.id = E[j].id
    <3>1. CASE f = "id"
      BY <1>2, <1>6, <2>1, <3>1
    <3>2. CASE f # "id"
      BY <1>2, <2>1, <3>2
    <3>3. QED
      BY <3>1, <3>2
  <2>6. ASSUME NEW i \in DOMAIN E PROVE \E j \in DOMAIN E : es[i].id = E[j].id
    <3>1. CASE i = k
      BY <2>4, <2>5, <3>1
    <3>2. CASE i # k
      BY <2>4, <3>2
    <3>3. QED
      BY <3>1, <3>2
  <2>7. QED
    BY <1>3, <2>3, <2>4, <2>6
<1>7. CASE l \in Misnamed
  <2>1. (\E p \in (DOMAIN E) \X (DOMAIN E) : l = WithValue(p[1], "id", E[p[2]].id))
        \/ (\E k \in DOMAIN E : l = WithValue(k, "key", E[k].key + 1))
    BY <1>1, <1>7, Zenon DEF Misnamed
  <2>2. CASE \E p \in (DOMAIN E) \X (DOMAIN E) : l = WithValue(p[1], "id", E[p[2]].id)
    <3>1. PICK p \in (DOMAIN E) \X (DOMAIN E) : l = WithValue(p[1], "id", E[p[2]].id)
      BY <2>2
    <3>2. p[1] \in DOMAIN E /\ p[2] \in DOMAIN E
      BY <3>1
    <3>3. QED
      BY <1>6, <3>1, <3>2
  <2>3. CASE \E k \in DOMAIN E : l = WithValue(k, "key", E[k].key + 1)
    BY <1>6, <2>3
  <2>4. QED
    BY <2>1, <2>2, <2>3
<1>8. CASE l \in Disarranged
  <2>1. l = [changes EXCEPT !.entries = Reverse(E)]
        \/ \E k \in DOMAIN E : l = [changes EXCEPT !.entries = RemoveAt(E, k)]
    BY <1>1, <1>8, Zenon DEF Disarranged
  <2>2. \E r : Within(r, E) /\ l = [changes EXCEPT !.entries = r]
    <3>1. CASE l = [changes EXCEPT !.entries = Reverse(E)]
      <4>1. PICK r : r = Reverse(E)
        OBVIOUS
      <4>2. Within(r, E)
        BY <1>2, <4>1, ReversedHas
      <4>3. QED
        BY <3>1, <4>1, <4>2
    <3>2. CASE \E k \in DOMAIN E : l = [changes EXCEPT !.entries = RemoveAt(E, k)]
      <4>1. PICK k \in DOMAIN E : l = [changes EXCEPT !.entries = RemoveAt(E, k)]
        BY <3>2
      <4>2. PICK r : r = RemoveAt(E, k)
        OBVIOUS
      <4>3. Within(r, E)
        BY <1>2, <4>2, ShortenedWithin
      <4>4. QED
        BY <4>1, <4>2, <4>3
    <3>3. QED
      BY <2>1, <3>1, <3>2
  <2>3. PICK r : Within(r, E) /\ l = [changes EXCEPT !.entries = r]
    BY <2>2
  <2>4. l.entries = r
    BY <2>3
  <2>5. QED
    BY <1>3, <1>4, <2>3, <2>4
<1>9. QED
  BY <1>5, <1>7, <1>8 DEF ChangesAltered

\* The validator sees every alteration of a ledger of changes.
LEMMA ChangeAlterationsSeen == Recorded /\ ChangesFormed => ChangeAlterationDetected
<1> SUFFICES ASSUME Recorded, ChangesFormed, changes # NoLedger,
                    NEW l \in ChangesAltered, ValidChangeLedger(l), l.entries # <<>>
             PROVE  /\ l.context = changes.context /\ l.window = changes.window
                    /\ ToSet(l.entries) \subseteq ToSet(changes.entries)
  BY DEF ChangeAlterationDetected
<1>1. PICK E : E = changes.entries
  OBVIOUS
<1>2. /\ changes.context = context /\ changes.window = window
      /\ E \in Seq(ChangeEntries(context, window))
      /\ \A k \in DOMAIN E : \E i \in DOMAIN events : E[k] = ChangeEntry(context, window, events[i])
  BY <1>1 DEF Recorded
<1>3. PICK n \in Nat : n = Len(E) /\ DOMAIN E = 1..n
  BY <1>2
<1>4. IdsKept(l)
  <2>1. changes.entries \in Seq(ToSet(changes.entries))
    <3>1. E = [k \in 1..n |-> E[k]]
      BY <1>2, <1>3
    <3>2. \A k \in 1..n : E[k] \in ToSet(E)
      BY <1>3 DEF ToSet
    <3>3. E \in Seq(ToSet(E))
      BY <3>1, <3>2
    <3>4. QED
      BY <1>1, <3>3
  <2>2. ASSUME NEW k \in DOMAIN changes.entries PROVE "id" \in DOMAIN changes.entries[k]
    <3>1. PICK i \in DOMAIN events : E[k] = ChangeEntry(context, window, events[i])
      BY <1>1, <1>2
    <3>2. "id" \in DOMAIN E[k]
      BY <3>1 DEF ChangeEntry
    <3>3. QED
      BY <1>1, <3>2
  <2>3. QED
    BY <2>1, <2>2, ChangesAlteredKeepIds DEF ChangesFormed
<1>5. PICK c, w, es : c = l.context /\ w = l.window /\ es = l.entries
  OBVIOUS
<1>6. es = build_entries(c, w, es)
  BY <1>5 DEF ValidChangeLedger
<1>14. PICK ordered : ordered = Sorted(es, {p \in (DOMAIN es) \X (DOMAIN es) :
                                             ByOccurrence(es[p[1]], es[p[2]])})
  OBVIOUS
<1>7. es = [k \in DOMAIN ordered |-> ChangeEntry(c, w, ordered[k])]
  BY <1>6, <1>14 DEF build_entries, Arranged
<1>8. ASSUME NEW k \in DOMAIN es
      PROVE  c = context /\ w = window /\ \E j \in DOMAIN E : es[k] = E[j]
  <2>1. PICK j \in DOMAIN E : es[k].id = E[j].id
    BY <1>1, <1>4, <1>5 DEF IdsKept
  <2>2. PICK x : es[k] = ChangeEntry(c, w, x)
    BY <1>7
  <2>3. PICK y : E[j] = ChangeEntry(context, window, y)
    BY <1>2
  <2>4. ChangePayload(c, w, x) = ChangePayload(context, window, y)
    <3>1. PICK a, b : a = ChangePayload(c, w, x) /\ b = ChangePayload(context, window, y)
      OBVIOUS
    <3>2. es[k].id = change_evidence_id(a) /\ E[j].id = change_evidence_id(b)
      BY <2>2, <2>3, <3>1 DEF ChangeEntry
    <3>3. es[k].id # Invalid
      BY <1>5 DEF ValidChangeLedger
    <3>4. a = b
      BY <2>1, <3>2, <3>3, IdentityTells
    <3>5. QED
      BY <3>1, <3>4
  <2>5. c = context /\ w = window /\ Identity(x) = Identity(y)
    BY <2>4 DEF ChangePayload
  <2>6. x.key = y.key /\ x.kind = y.kind /\ x.at = y.at
    BY <2>5 DEF Identity
  <2>7. es[k] = E[j]
    BY <2>2, <2>3, <2>4, <2>5, <2>6 DEF ChangeEntry
  <2>8. QED
    BY <2>5, <2>7
<1>9. DOMAIN es # {}
  <2>1. DOMAIN es = {} => es = <<>>
    BY <1>7
  <2>2. QED
    BY <1>5, <2>1
<1>10. PICK k : k \in DOMAIN es
  BY <1>9
<1>11. l.context = changes.context /\ l.window = changes.window
  BY <1>2, <1>5, <1>8, <1>10
<1>12. ToSet(es) \subseteq ToSet(E)
  BY <1>8 DEF ToSet
<1>13. QED
  BY <1>1, <1>5, <1>11, <1>12

\* No ledger that was altered is accepted, but for the entries whose absence the
\* ids cannot show (AlterationsDetected): of metrics only the signals without a
\* candidate, because the decision that is hashed into every id names the others.
THEOREM AlterationsAreDetected == Spec /\ ChangeSpec => []AlterationsDetected
<1>1. Init => Held /\ RankedFrom
  BY HeldInit DEF Init, RankedFrom, Compiled
<1>2. Held /\ RankedFrom /\ [Next]_vars => (Held /\ RankedFrom)'
  BY HeldStep, RankedFromStep
<1>3. ChangeInit => Recorded /\ ChangesFormed
  BY RecordedInit DEF ChangeInit, ChangesFormed
<1>4. Recorded /\ ChangesFormed /\ [ChangeNext]_changeVars => (Recorded /\ ChangesFormed)'
  BY RecordedStep, ChangesFormedStep
<1>5. Held /\ RankedFrom /\ Recorded /\ ChangesFormed => AlterationsDetected
  BY AlterationsSeen, ChangeAlterationsSeen DEF AlterationsDetected
<1>6. QED
  BY <1>1, <1>2, <1>3, <1>4, <1>5, PTL DEF Spec, ChangeSpec

=============================================================================
