-------------------------- MODULE TelemetryProofs --------------------------
(***************************************************************************)
(* A load of telemetry is complete or nothing, whatever the server answers, *)
(* for any number of selectors and answers of any length.                   *)
(***************************************************************************)
EXTENDS Telemetry, OrderingProofs

Samples == [at : Int, value : {Gap} \cup Int]
Series == [name : STRING, points : Seq(Samples)]

\* The points of a series as it was answered.
LEMMA SeriesPoints ==
  ASSUME NEW series \in Seq(Series), NEW k \in DOMAIN series
  PROVE  series[k].points \in Seq(Samples)
<1>1. PICK s \in Series : s = series[k]
  OBVIOUS
<1>2. s.points \in Seq(Samples)
  BY DEF Series
<1>3. QED
  BY <1>1, <1>2

\* The finite samples of a series are those of its samples that are no gaps, in
\* their order.
LEMMA FiniteKeeps ==
  ASSUME NEW points \in Seq(Samples), NEW finite, finite = Finite(points)
  PROVE  /\ finite \in Seq(Samples)
         /\ \A i \in DOMAIN finite : finite[i].value # Gap
         /\ \A i \in DOMAIN finite : \E j \in DOMAIN points : finite[i] = points[j]
         /\ \A j \in DOMAIN points : points[j].value # Gap =>
              \E i \in DOMAIN finite : finite[i] = points[j]
<1>1. PICK K : K = {k \in DOMAIN points : points[k].value # Gap}
  OBVIOUS
<1>2. K \in SUBSET DOMAIN points /\ \A k \in K : points[k].value # Gap
  BY <1>1
<1>3. finite = Kept(points, K)
  BY <1>1 DEF Finite
<1>4. /\ finite \in Seq(Samples)
      /\ \A k \in DOMAIN finite : \E i \in K : finite[k] = points[i]
      /\ \A i \in K : \E k \in DOMAIN finite : finite[k] = points[i]
  BY <1>2, <1>3, KeptElements
<1>5. QED
  BY <1>1, <1>2, <1>4

\* A signal is emitted for each series that has a finite sample.
LEMMA EmittedKeeps ==
  ASSUME NEW series \in Seq(Series), NEW signals, signals = Emitted(series)
  PROVE  /\ signals \in Seq(Series)
         /\ \A k \in DOMAIN signals :
              /\ signals[k].points # <<>>
              /\ \E i \in DOMAIN series :
                   signals[k].name = series[i].name /\ signals[k].points = Finite(series[i].points)
         /\ \A i \in DOMAIN series : Finite(series[i].points) # <<>> =>
              \E k \in DOMAIN signals :
                signals[k].name = series[i].name /\ signals[k].points = Finite(series[i].points)
<1>1. PICK finite : finite = [k \in DOMAIN series |-> [series[k] EXCEPT !.points = Finite(@)]]
  OBVIOUS
<1>2. ASSUME NEW k \in DOMAIN series
      PROVE  /\ finite[k] \in Series
             /\ finite[k].name = series[k].name /\ finite[k].points = Finite(series[k].points)
  <2>1. PICK s \in Series : s = series[k]
    OBVIOUS
  <2>2. PICK f : f = Finite(s.points)
    OBVIOUS
  <2>3. f \in Seq(Samples)
    BY <2>1, <2>2, FiniteKeeps DEF Series
  <2>4. finite[k] = [s EXCEPT !.points = f]
    BY <1>1, <2>1, <2>2
  <2>5. [s EXCEPT !.points = f] \in Series /\ [s EXCEPT !.points = f].name = s.name
        /\ [s EXCEPT !.points = f].points = f
    BY <2>1, <2>3 DEF Series
  <2>6. QED
    BY <2>1, <2>2, <2>4, <2>5
<1>3. finite \in Seq(Series) /\ DOMAIN finite = DOMAIN series
  <2>1. PICK n \in Nat : DOMAIN series = 1..n
    OBVIOUS
  <2>2. PICK value : value = [k \in 1..n |-> [series[k] EXCEPT !.points = Finite(@)]]
    OBVIOUS
  <2>3. finite = value
    BY <1>1, <2>1, <2>2
  <2>4. \A k \in 1..n : finite[k] \in Series
    BY <1>2, <2>1
  <2>5. finite \in [1..n -> Series]
    <3>1. DOMAIN value = 1..n /\ value = [k \in 1..n |-> value[k]]
      BY <2>2
    <3>2. QED
      BY <2>3, <2>4, <3>1
  <2>6. QED
    BY <2>1, <2>5
<1>4. PICK K : K = {k \in DOMAIN finite : finite[k].points # <<>>}
  OBVIOUS
<1>5. signals = Kept(finite, K)
  BY <1>1, <1>4 DEF Emitted
<1>6. K \in SUBSET DOMAIN finite
  BY <1>4
<1>7. /\ signals \in Seq(Series)
      /\ \A k \in DOMAIN signals : \E i \in K : signals[k] = finite[i]
      /\ \A i \in K : \E k \in DOMAIN signals : signals[k] = finite[i]
  BY <1>3, <1>5, <1>6, KeptElements
<1>8. ASSUME NEW k \in DOMAIN signals
      PROVE  /\ signals[k].points # <<>>
             /\ \E i \in DOMAIN series :
                  signals[k].name = series[i].name /\ signals[k].points = Finite(series[i].points)
  <2>1. PICK i \in K : signals[k] = finite[i]
    BY <1>7
  <2>2. i \in DOMAIN series /\ finite[i].points # <<>>
    BY <1>3, <1>4
  <2>3. QED
    BY <1>2, <2>1, <2>2
<1>9. ASSUME NEW i \in DOMAIN series, Finite(series[i].points) # <<>>
      PROVE  \E k \in DOMAIN signals :
               signals[k].name = series[i].name /\ signals[k].points = Finite(series[i].points)
  <2>1. i \in K
    BY <1>2, <1>3, <1>4, <1>9
  <2>2. PICK k \in DOMAIN signals : signals[k] = finite[i]
    BY <1>7, <2>1
  <2>3. QED
    BY <1>2, <2>2
<1>10. QED
  BY <1>7, <1>8, <1>9

\* The floor of a signal is positive, all values being zero or not.
LEMMA FloorPositive ==
  ASSUME NEW points \in Seq(Samples), points # <<>>,
         \A i \in DOMAIN points : points[i].value # Gap
  PROVE  floor_for(points) \in Int /\ floor_for(points) > 0
<1>1. PICK n \in Nat : n = Len(points) /\ DOMAIN points = 1..n
  OBVIOUS
<1>2. n > 0
  BY <1>1
<1>3. PICK values : values = [k \in DOMAIN points |-> Magnitude(points[k].value)]
  OBVIOUS
<1>4. \A k \in 1..n : points[k] \in Samples
  BY <1>1
<1>5. \A k \in 1..n : points[k].value \in Int
  BY <1>1, <1>4 DEF Samples
<1>6. \A k \in 1..n : Magnitude(points[k].value) \in Int
  BY <1>5 DEF Magnitude
<1>7. values \in Seq(Int) /\ values # <<>>
  BY <1>1, <1>2, <1>3, <1>6
<1>8. PICK m \in Int : m = Median2(values)
  BY <1>7, MedianWhole
<1>9. floor_for(points) = Max({1, m})
  BY <1>3, <1>8 DEF floor_for
<1>10. Max({1, m}) = IF m > 1 THEN m ELSE 1
  BY DEF Max
<1>11. QED
  BY <1>9, <1>10

-----------------------------------------------------------------------------
(* The invariant. *)

\* What is collected are the series of the answers; the inputs are made of it
\* once every selector has been answered, and only of what can be represented.
Loading ==
  /\ answers \in Seq(Bodies) /\ collected \in Seq(Series)
  /\ pc \in {"map", "loaded"} => Len(answers) = Queries
  /\ \A k \in DOMAIN collected : \E a \in DOMAIN answers : \E i \in DOMAIN answers[a].series :
       collected[k] = answers[a].series[i]
  /\ \A a \in DOMAIN answers : \A i \in DOMAIN answers[a].series : \E k \in DOMAIN collected :
       collected[k] = answers[a].series[i]
  /\ pc # "loaded" => inputs = <<>>
  /\ pc = "loaded" =>
       Representable(Emitted(collected)) /\ inputs = to_baseline_inputs(Emitted(collected))

\* It holds before the first selector.
LEMMA LoadingInit == Init => Loading
  BY DEF Init, Loading

\* Sequences of which one goes on where the other ends.
LEMMA Concatenated ==
  ASSUME NEW A, NEW s \in Seq(A), NEW t \in Seq(A), NEW r, r = s \o t
  PROVE  /\ r \in Seq(A)
         /\ \A k \in DOMAIN s : k \in DOMAIN r /\ r[k] = s[k]
         /\ \A k \in DOMAIN t : Len(s) + k \in DOMAIN r /\ r[Len(s) + k] = t[k]
         /\ \A k \in DOMAIN r :
              k \in DOMAIN s \/ (k - Len(s) \in DOMAIN t /\ r[k] = t[k - Len(s)])
<1>1. PICK m \in Nat, n \in Nat :
        m = Len(s) /\ DOMAIN s = 1..m /\ n = Len(t) /\ DOMAIN t = 1..n
  OBVIOUS
<1>2. r \in Seq(A) /\ Len(r) = m + n /\ DOMAIN r = 1..(m + n)
  BY <1>1
<1>3. \A k \in 1..m : r[k] = s[k]
  BY <1>1
<1>4. \A k \in 1..(m + n) : k > m => r[k] = t[k - m]
  BY <1>1
<1>5. \A k \in 1..n : r[m + k] = t[k]
  <2>1. ASSUME NEW k \in 1..n PROVE r[m + k] = t[k]
    <3>1. m + k \in 1..(m + n) /\ m + k > m /\ (m + k) - m = k
      OBVIOUS
    <3>2. QED
      BY <1>4, <3>1
  <2>2. QED
    BY <2>1
<1>6. QED
  BY <1>1, <1>2, <1>3, <1>4, <1>5

\* Every answer and failure keeps it.
LEMMA LoadingStep == Loading /\ [Next]_vars => Loading'
<1> SUFFICES ASSUME Loading, [Next]_vars PROVE Loading'
  OBVIOUS
<1>1. CASE UNCHANGED vars
  BY <1>1 DEF Loading, vars
<1>2. CASE Ask \/ Read \/ Wait
  BY <1>2 DEF Loading, Ask, Read, Wait
<1>3. ASSUME Unavailable, pc # "loaded" PROVE Loading'
  BY <1>3 DEF Loading, Unavailable
<1>4. CASE TransportFails
  BY <1>3, <1>4 DEF TransportFails
<1>5. CASE Map
  <2>1. pc = "map"
    BY <1>5 DEF Map
  <2>2. CASE Representable(Emitted(collected))
    <3>1. /\ inputs' = to_baseline_inputs(Emitted(collected)) /\ pc' = "loaded"
          /\ UNCHANGED <<answers, collected>>
      BY <1>5, <2>2 DEF Map
    <3>2. Representable(Emitted(collected')) /\ inputs' = to_baseline_inputs(Emitted(collected'))
      BY <2>2, <3>1
    <3>3. QED
      BY <2>1, <3>1, <3>2 DEF Loading
  <2>3. CASE ~Representable(Emitted(collected))
    BY <1>3, <1>5, <2>1, <2>3 DEF Map
  <2>4. QED
    BY <2>2, <2>3
<1>6. CASE Respond
  <2>1. PICK body \in Bodies :
          \/ WithinLimits(body.series) /\ Accept(body)
          \/ Unavailable
          \/ pc' = "escaped" /\ UNCHANGED <<idle, reads, answers, collected, inputs>>
    BY <1>6 DEF Respond
  <2>2. pc = "receive"
    BY <1>6 DEF Respond
  <2>3. CASE Unavailable
    BY <1>3, <2>2, <2>3
  <2>4. CASE pc' = "escaped" /\ UNCHANGED <<idle, reads, answers, collected, inputs>>
    BY <2>2, <2>4 DEF Loading
  <2>5. CASE Accept(body)
    <3>1. PICK series : series = body.series
      OBVIOUS
    <3>2. series \in Seq(Series)
      BY <3>1, TelemetryAssumption DEF Series, Samples
    <3>3. collected' = collected \o series /\ answers' = Append(answers, body)
      BY <2>5, <3>1 DEF Accept
    <3>4. /\ collected' \in Seq(Series)
          /\ \A k \in DOMAIN collected : k \in DOMAIN collected' /\ collected'[k] = collected[k]
          /\ \A k \in DOMAIN series :
               Len(collected) + k \in DOMAIN collected' /\ collected'[Len(collected) + k] = series[k]
          /\ \A k \in DOMAIN collected' :
               \/ k \in DOMAIN collected
               \/ k - Len(collected) \in DOMAIN series /\ collected'[k] = series[k - Len(collected)]
      BY <3>2, <3>3, Concatenated DEF Loading
    <3>5. PICK n \in Nat : n = Len(answers) /\ DOMAIN answers = 1..n
      BY DEF Loading
    <3>6. /\ answers' \in Seq(Bodies) /\ DOMAIN answers' = 1..(n + 1) /\ Len(answers') = n + 1
          /\ \A a \in 1..n : answers'[a] = answers[a]
          /\ answers'[n + 1] = body
      BY <3>3, <3>5 DEF Loading
    <3>7. /\ pc' \in {"map", "ask"} /\ inputs' = inputs
          /\ pc' = "map" => Len(answers') = Queries
      BY <2>5 DEF Accept
    <3>8. ASSUME NEW k \in DOMAIN collected'
          PROVE  \E a \in DOMAIN answers' : \E i \in DOMAIN answers'[a].series :
                   collected'[k] = answers'[a].series[i]
      <4>1. CASE k \in DOMAIN collected
        <5>1. PICK a \in DOMAIN answers : \E i \in DOMAIN answers[a].series :
                     collected[k] = answers[a].series[i]
          BY <4>1 DEF Loading
        <5>2. a \in DOMAIN answers' /\ answers'[a] = answers[a] /\ collected'[k] = collected[k]
          BY <3>4, <3>5, <3>6, <4>1, <5>1
        <5>3. QED
          BY <5>1, <5>2
      <4>2. CASE k - Len(collected) \in DOMAIN series /\ collected'[k] = series[k - Len(collected)]
        <5>1. n + 1 \in DOMAIN answers' /\ answers'[n + 1].series = series
          BY <3>1, <3>6
        <5>2. QED
          BY <4>2, <5>1
      <4>3. QED
        BY <3>4, <4>1, <4>2
    <3>9. ASSUME NEW a \in DOMAIN answers', NEW i \in DOMAIN answers'[a].series
          PROVE  \E k \in DOMAIN collected' : collected'[k] = answers'[a].series[i]
      <4>1. CASE a \in 1..n
        <5>1. answers'[a] = answers[a]
          BY <3>6, <4>1
        <5>2. PICK k \in DOMAIN collected : collected[k] = answers[a].series[i]
          BY <3>5, <3>9, <4>1, <5>1 DEF Loading
        <5>3. k \in DOMAIN collected' /\ collected'[k] = collected[k]
          BY <3>4
        <5>4. QED
          BY <5>1, <5>2, <5>3
      <4>2. CASE a = n + 1
        <5>1. answers'[a].series = series
          BY <3>1, <3>6, <4>2
        <5>2. i \in DOMAIN series /\ answers'[a].series[i] = series[i]
          BY <3>9, <5>1
        <5>3. QED
          BY <3>4, <5>2
      <4>3. a \in 1..n \/ a = n + 1
        BY <3>6
      <4>4. QED
        BY <4>1, <4>2, <4>3
    <3>10. inputs' = <<>>
      BY <2>2, <3>7 DEF Loading
    <3>11. QED
      BY <3>4, <3>6, <3>7, <3>8, <3>9, <3>10 DEF Loading
  <2>6. QED
    BY <2>1, <2>3, <2>4, <2>5
<1>7. QED
  BY <1>1, <1>2, <1>4, <1>5, <1>6 DEF Next

-----------------------------------------------------------------------------
(* What is loaded. *)

\* One of the series has this number under this name; one of the inputs has it.
IsNumber(series, n, a, v) ==
  \E k \in DOMAIN series : \E j \in DOMAIN series[k].points :
    /\ series[k].points[j].value # Gap
    /\ n = series[k].name /\ a = series[k].points[j].at /\ v = series[k].points[j].value

IsInput(loaded, n, a, v) ==
  \E k \in DOMAIN loaded : \E i \in DOMAIN loaded[k].points :
    n = loaded[k].key /\ a = loaded[k].points[i].at /\ v = loaded[k].points[i].value

\* No gap is filled and no number lost between the answers and the inputs.
LEMMA InputsComplete ==
  ASSUME NEW series \in Seq(Series), NEW loaded, loaded = to_baseline_inputs(Emitted(series)),
         NEW n, NEW a, NEW v
  PROVE  IsInput(loaded, n, a, v) <=> IsNumber(series, n, a, v)
<1>1. PICK signals : signals = Emitted(series)
  OBVIOUS
<1>2. /\ signals \in Seq(Series)
      /\ \A k \in DOMAIN signals :
           \E i \in DOMAIN series :
             signals[k].name = series[i].name /\ signals[k].points = Finite(series[i].points)
      /\ \A i \in DOMAIN series : Finite(series[i].points) # <<>> =>
           \E k \in DOMAIN signals :
             signals[k].name = series[i].name /\ signals[k].points = Finite(series[i].points)
  BY <1>1, EmittedKeeps
<1>3. /\ DOMAIN loaded = DOMAIN signals
      /\ \A k \in DOMAIN signals :
           loaded[k].key = signals[k].name /\ loaded[k].points = signals[k].points
  <2>1. loaded = to_baseline_inputs(signals)
    BY <1>1
  <2>2. QED
    BY <2>1 DEF to_baseline_inputs
<1>4. ASSUME NEW k \in DOMAIN series PROVE series[k].points \in Seq(Samples)
  BY SeriesPoints
<1>5. ASSUME NEW k \in DOMAIN loaded, NEW i \in DOMAIN loaded[k].points,
             n = loaded[k].key, a = loaded[k].points[i].at, v = loaded[k].points[i].value
      PROVE  \E c \in DOMAIN series : \E j \in DOMAIN series[c].points :
                /\ series[c].points[j].value # Gap
                /\ n = series[c].name /\ a = series[c].points[j].at /\ v = series[c].points[j].value
  <2>1. PICK c \in DOMAIN series :
          loaded[k].key = series[c].name /\ loaded[k].points = Finite(series[c].points)
    BY <1>2, <1>3
  <2>2. PICK finite : finite = Finite(series[c].points)
    OBVIOUS
  <2>3. i \in DOMAIN finite /\ a = finite[i].at /\ v = finite[i].value
    BY <1>5, <2>1, <2>2
  <2>4. finite[i].value # Gap /\ \E j \in DOMAIN series[c].points : finite[i] = series[c].points[j]
    BY <1>4, <2>2, <2>3, FiniteKeeps
  <2>5. QED
    BY <1>5, <2>1, <2>3, <2>4
<1>6. ASSUME NEW c \in DOMAIN series, NEW j \in DOMAIN series[c].points,
             series[c].points[j].value # Gap,
             n = series[c].name, a = series[c].points[j].at, v = series[c].points[j].value
      PROVE  \E k \in DOMAIN loaded : \E i \in DOMAIN loaded[k].points :
               n = loaded[k].key /\ a = loaded[k].points[i].at /\ v = loaded[k].points[i].value
  <2>1. PICK finite : finite = Finite(series[c].points)
    OBVIOUS
  <2>2. PICK i \in DOMAIN finite : finite[i] = series[c].points[j]
    BY <1>4, <1>6, <2>1, FiniteKeeps
  <2>3. finite # <<>>
    BY <2>2
  <2>4. PICK k \in DOMAIN signals : signals[k].name = series[c].name /\ signals[k].points = finite
    BY <1>2, <2>1, <2>3
  <2>5. QED
    BY <1>3, <1>6, <2>2, <2>4
<1>7. QED
  BY <1>5, <1>6 DEF IsInput, IsNumber

\* A load that ended has all or nothing.
LEMMA LoadingMeansComplete == Loading => AllOrNothing
<1> SUFFICES ASSUME Loading PROVE AllOrNothing
  OBVIOUS
<1>1. CASE pc # "loaded"
  <2>1. inputs = <<>>
    BY <1>1 DEF Loading
  <2>2. DOMAIN inputs = {}
    BY <2>1
  <2>3. QED
    BY <1>1, <2>1, <2>2 DEF AllOrNothing
<1>2. CASE pc = "loaded"
  <2>1. PICK signals : signals = Emitted(collected)
    OBVIOUS
  <2>2. signals \in Seq(Series) /\ \A k \in DOMAIN signals : signals[k].points # <<>>
    BY <2>1, EmittedKeeps DEF Loading
  <2>3. inputs = to_baseline_inputs(signals) /\ Representable(signals)
    BY <1>2, <2>1 DEF Loading
  <2>4. /\ DOMAIN inputs = DOMAIN signals
        /\ \A k \in DOMAIN signals :
             /\ inputs[k].key = signals[k].name /\ inputs[k].points = signals[k].points
             /\ inputs[k].floor = floor_for(signals[k].points)
    BY <2>3 DEF to_baseline_inputs
  <2>5. \A j, k \in DOMAIN inputs : j # k => inputs[j].key # inputs[k].key
    BY <2>3, <2>4 DEF Representable
  <2>6. ASSUME NEW k \in DOMAIN inputs
        PROVE  /\ inputs[k].floor > 0
               /\ \A i \in 2..Len(inputs[k].points) :
                    inputs[k].points[i - 1].at < inputs[k].points[i].at
    <3>1. PICK c \in DOMAIN collected : signals[k].points = Finite(collected[c].points)
      <4>1. collected \in Seq(Series) /\ k \in DOMAIN signals
        BY <2>4 DEF Loading
      <4>2. \E i \in DOMAIN collected : signals[k].points = Finite(collected[i].points)
        BY <2>1, <4>1, EmittedKeeps
      <4>3. QED
        BY <4>2
    <3>2. PICK points : points = collected[c].points
      OBVIOUS
    <3>3. points \in Seq(Samples)
      BY <3>2, SeriesPoints DEF Loading
    <3>4. signals[k].points \in Seq(Samples) /\ signals[k].points # <<>>
          /\ \A i \in DOMAIN signals[k].points : signals[k].points[i].value # Gap
      BY <2>2, <2>4, <3>1, <3>2, <3>3, FiniteKeeps
    <3>5. inputs[k].floor > 0
      BY <2>4, <3>4, FloorPositive
    <3>6. QED
      BY <2>3, <2>4, <3>5 DEF Representable
  <2>7. ASSUME NEW n, NEW a, NEW v
        PROVE  IsInput(inputs, n, a, v) <=> <<n, a, v>> \in Observations
    <3>1. <<n, a, v>> \in Observations <=>
            \E x \in DOMAIN answers : \E s \in ToSet(answers[x].series) : \E j \in DOMAIN s.points :
              s.points[j].value # Gap /\ n = s.name /\ a = s.points[j].at /\ v = s.points[j].value
      <4> DEFINE of(s) == {<<s.name, s.points[i].at, s.points[i].value>> :
                             i \in {j \in DOMAIN s.points : s.points[j].value # Gap}}
      <4>1. Observations = UNION {UNION {of(s) : s \in ToSet(answers[x].series)} : x \in DOMAIN answers}
        BY DEF Observations
      <4>2. \A s : <<n, a, v>> \in of(s) <=>
              \E j \in DOMAIN s.points :
                s.points[j].value # Gap /\ n = s.name /\ a = s.points[j].at /\ v = s.points[j].value
        OBVIOUS
      <4> HIDE DEF of
      <4>3. <<n, a, v>> \in Observations <=>
              \E x \in DOMAIN answers : \E s \in ToSet(answers[x].series) : <<n, a, v>> \in of(s)
        BY <4>1
      <4>4. QED
        BY <4>2, <4>3
    <3>2. (\E x \in DOMAIN answers : \E s \in ToSet(answers[x].series) : \E j \in DOMAIN s.points :
              s.points[j].value # Gap /\ n = s.name /\ a = s.points[j].at /\ v = s.points[j].value)
          <=> IsNumber(collected, n, a, v)
      <4> DEFINE Number(s) == \E j \in DOMAIN s.points :
              s.points[j].value # Gap /\ n = s.name /\ a = s.points[j].at /\ v = s.points[j].value
      <4> HIDE DEF Number
      <4>1. (\E x \in DOMAIN answers : \E s \in ToSet(answers[x].series) : Number(s))
            <=> \E x \in DOMAIN answers : \E i \in DOMAIN answers[x].series : Number(answers[x].series[i])
        BY DEF ToSet
      <4>2. (\E x \in DOMAIN answers : \E i \in DOMAIN answers[x].series : Number(answers[x].series[i]))
            <=> \E c \in DOMAIN collected : Number(collected[c])
        BY DEF Loading
      <4>3. QED
        BY <4>1, <4>2 DEF Number, IsNumber
    <3>3. IsNumber(collected, n, a, v) <=> IsInput(inputs, n, a, v)
      <4>1. PICK series \in Seq(Series) : series = collected
        BY DEF Loading
      <4>2. inputs = to_baseline_inputs(Emitted(series))
        BY <2>1, <2>3, <4>1
      <4>3. IsInput(inputs, n, a, v) <=> IsNumber(series, n, a, v)
        BY <4>2, InputsComplete
      <4>4. QED
        BY <4>1, <4>3
    <3>4. QED
      BY <3>1, <3>2, <3>3
  <2>8. UNION {{<<inputs[k].key, inputs[k].points[i].at, inputs[k].points[i].value>> :
                  i \in DOMAIN inputs[k].points} : k \in DOMAIN inputs} = Observations
    <3> DEFINE U == UNION {{<<inputs[k].key, inputs[k].points[i].at, inputs[k].points[i].value>> :
                  i \in DOMAIN inputs[k].points} : k \in DOMAIN inputs}
    <3>1. \A x \in U : x \in Observations
      <4>1. \A x \in U : \E k \in DOMAIN inputs : \E i \in DOMAIN inputs[k].points :
               x = <<inputs[k].key, inputs[k].points[i].at, inputs[k].points[i].value>>
        OBVIOUS
      <4> HIDE DEF U
      <4>2. QED
        BY <2>7, <4>1 DEF IsInput
    <3>2. \A x \in Observations : \E n, a, v : x = <<n, a, v>>
      BY DEF Observations
    <3>3. \A n, a, v : <<n, a, v>> \in Observations => <<n, a, v>> \in U
      <4>1. \A n, a, v : IsInput(inputs, n, a, v) => <<n, a, v>> \in U
        BY DEF IsInput
      <4>2. QED
        BY <2>7, <4>1
    <3> HIDE DEF U
    <3>4. U = Observations
      BY <3>1, <3>2, <3>3
    <3>5. QED
      BY <3>4 DEF U
  <2>9. Len(answers) = Queries
    BY <1>2 DEF Loading
  <2>10. QED
    BY <1>2, <2>5, <2>6, <2>8, <2>9 DEF AllOrNothing
<1>3. QED
  BY <1>1, <1>2

\* What is loaded is what every selector returned, number for number, and the
\* ranking accepts it; otherwise there is nothing (AllOrNothing).
THEOREM LoadIsAllOrNothing == Spec => []AllOrNothing
<1>1. Init => Loading
  BY LoadingInit
<1>2. Loading /\ [Next]_vars => Loading'
  BY LoadingStep
<1>3. Loading => AllOrNothing
  BY LoadingMeansComplete
<1>4. QED
  BY <1>1, <1>2, <1>3, PTL DEF Spec

=============================================================================
